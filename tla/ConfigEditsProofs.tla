-------------------------- MODULE ConfigEditsProofs --------------------------
(***************************************************************************)
(* Proofs about ConfigEdits, for any files, tables, sets and forms.  What  *)
(* the files can hold does not restrict the invariants: each follows from  *)
(* types alone, so the inductive part is TypeOK and the work is in what    *)
(* the operators of Config and ConfigEdits compute.  The sections go from  *)
(* sequences over the composed list and the grouping of checks to the      *)
(* edits; a file's checks are compared as they are written, so that one    *)
(* file can be exchanged while the others stay (OneFileChanged).           *)
(***************************************************************************)
EXTENDS ConfigEdits, FiniteSetTheorems, WellFoundedInduction, TLAPS

-----------------------------------------------------------------------------
(* Natural numbers and sequences.                                          *)

\* A set of natural numbers with 0 and all successors has all of them.
LEMMA NaturalsByInduction ==
  ASSUME NEW T, 0 \in T, \A n \in Nat : n \in T => n + 1 \in T
  PROVE  \A n \in Nat : n \in T
<1> DEFINE U == {n \in Nat : n \notin T}
<1> SUFFICES ASSUME U # {} PROVE FALSE
  OBVIOUS
<1>1. PICK m \in U : \A n \in U : <<n, m>> \notin OpToRel(<, Nat)
  <2>1. U \subseteq Nat
    OBVIOUS
  <2> HIDE DEF U
  <2> QED BY <2>1, NatLessThanWellFounded, WFMin
<1>2. \A n \in U : ~(n < m)
  BY <1>1 DEF OpToRel
<1>3. m \in Nat /\ m # 0 /\ m \notin T
  OBVIOUS
<1>4. m - 1 \in Nat /\ m - 1 < m /\ (m - 1) + 1 = m
  BY <1>3
<1>5. m - 1 \notin U
  BY <1>2, <1>4
<1>6. m - 1 \in T
  BY <1>4, <1>5
<1> QED BY <1>3, <1>4, <1>6

\* p lists the places I in order.
Lists(p, m, I) ==
  /\ m \in Nat
  /\ p \in [1..m -> I]
  /\ \A k, l \in 1..m : k < l => p[k] < p[l]
  /\ \A i \in I : \E k \in 1..m : p[k] = i

\* The elements of s at the places listed.
Along(s, p, m) == [k \in 1..m |-> s[p[k]]]

\* Whatever lists the places tells what is picked.
LEMMA PickedInOrder ==
  ASSUME NEW I, I \subseteq Nat, NEW m, NEW p, Lists(p, m, I), NEW s
  PROVE  /\ IsFiniteSet(I) /\ Cardinality(I) = m
         /\ Picked(s, I) = Along(s, p, m)
<1> USE DEF Lists
<1>1. ASSUME NEW k \in 0..m
      PROVE  LET J == {p[l] : l \in 1..k} IN IsFiniteSet(J) /\ Cardinality(J) = k
  <2> DEFINE J == {p[l] : l \in 1..k}
             q == [l \in 1..k |-> p[l]]
  <2>1. k \in Nat /\ \A l \in 1..k : l \in 1..m
    OBVIOUS
  <2>2. q \in Bijection(1..k, J)
    <3>1. q \in [1..k -> J]
      OBVIOUS
    <3>2. \A a, b \in 1..k : q[a] = q[b] => a = b
      <4>1. \A a, b \in 1..k : a < b => p[a] < p[b]
        BY <2>1
      <4>2. \A a \in 1..k : p[a] \in Nat
        BY <2>1
      <4> QED BY <4>1, <4>2
    <3>3. \A j \in J : \E l \in 1..k : q[l] = j
      OBVIOUS
    <3> HIDE DEF q, J
    <3> QED BY <3>1, <3>2, <3>3 DEF Bijection, Injection, Surjection, IsInjective
  <2>3. IsFiniteSet(1..k) /\ Cardinality(1..k) = k
    BY FS_Interval, <2>1
  <2> HIDE DEF q, J
  <2>4. ExistsBijection(1..k, J)
    BY <2>2 DEF ExistsBijection
  <2>5. IsFiniteSet(J) /\ Cardinality(J) = k
    BY <2>3, <2>4, FS_Bijection
  <2> QED BY <2>5 DEF J
<1>2. I = {p[l] : l \in 1..m}
  OBVIOUS
<1>3. IsFiniteSet(I) /\ Cardinality(I) = m
  <2>1. m \in 0..m
    OBVIOUS
  <2> QED BY <2>1, <1>1, <1>2
<1> DEFINE Before(i) == {j \in I : j <= i}
           Nth(k) == CHOOSE i \in I : Cardinality(Before(i)) = k
<1>4. \A k \in 1..m : Cardinality(Before(p[k])) = k
  <2> SUFFICES ASSUME NEW k \in 1..m PROVE Cardinality(Before(p[k])) = k
    OBVIOUS
  <2>1. Before(p[k]) = {p[l] : l \in 1..k}
    <3>1. \A l \in 1..k : l \in 1..m /\ p[l] \in I /\ p[l] <= p[k]
      <4>1. \A l \in 1..k : l \in 1..m /\ (l = k \/ l < k)
        OBVIOUS
      <4>2. \A l \in 1..m : p[l] \in I /\ p[l] \in Nat
        OBVIOUS
      <4> QED BY <4>1, <4>2
    <3>2. \A j \in I : j <= p[k] => \E l \in 1..k : p[l] = j
      <4> SUFFICES ASSUME NEW j \in I, j <= p[k] PROVE \E l \in 1..k : p[l] = j
        OBVIOUS
      <4>1. PICK l \in 1..m : p[l] = j
        OBVIOUS
      <4>2. ~(k < l)
        <5>1. k < l => p[k] < p[l]
          OBVIOUS
        <5>2. p[k] \in Nat /\ p[l] \in Nat
          OBVIOUS
        <5> QED BY <5>1, <5>2, <4>1
      <4>3. l \in 1..k
        BY <4>2
      <4> QED BY <4>1, <4>3
    <3> QED BY <3>1, <3>2
  <2>2. k \in 0..m
    OBVIOUS
  <2> QED BY <2>1, <2>2, <1>1
<1>5. \A k \in 1..m : Nth(k) = p[k]
  <2> SUFFICES ASSUME NEW k \in 1..m PROVE Nth(k) = p[k]
    OBVIOUS
  <2>1. p[k] \in I /\ Cardinality(Before(p[k])) = k
    BY <1>4
  <2>2. \A i \in I : Cardinality(Before(i)) = k => i = p[k]
    <3> SUFFICES ASSUME NEW i \in I, Cardinality(Before(i)) = k PROVE i = p[k]
      OBVIOUS
    <3>1. PICK l \in 1..m : p[l] = i
      OBVIOUS
    <3>2. Cardinality(Before(p[l])) = l
      BY <1>4
    <3> QED BY <3>1, <3>2
  <2> HIDE DEF Before
  <2> QED BY <2>1, <2>2
<1>6. Picked(s, I) = [k \in 1..Cardinality(I) |-> s[Nth(k)]]
  BY DEF Picked
<1> HIDE DEF Nth
<1> QED BY <1>3, <1>5, <1>6 DEF Along

\* The places of a sequence can be listed.
LEMMA PlacesListed ==
  ASSUME NEW n \in Nat, NEW I, I \subseteq 1..n
  PROVE  \E m, p : Lists(p, m, I)
<1> DEFINE T == {i \in Nat : \A J \in SUBSET (1..i) : \E m, p : Lists(p, m, J)}
<1>1. 0 \in T
  <2> SUFFICES ASSUME NEW J \in SUBSET (1..0) PROVE \E m, p : Lists(p, m, J)
    OBVIOUS
  <2>1. J = {}
    OBVIOUS
  <2>2. Lists([k \in 1..0 |-> 0], 0, J)
    BY <2>1 DEF Lists
  <2> QED BY <2>2
<1>2. \A i \in Nat : i \in T => i + 1 \in T
  <2> SUFFICES ASSUME NEW i \in Nat, i \in T, NEW J \in SUBSET (1..(i + 1))
               PROVE  \E m, p : Lists(p, m, J)
    OBVIOUS
  <2>1. J \cap (1..i) \in SUBSET (1..i)
    OBVIOUS
  <2>2. PICK m, p : Lists(p, m, J \cap (1..i))
    BY <2>1
  <2>3. CASE i + 1 \notin J
    <3>1. \A j \in J : j \in 1..i
      <4> SUFFICES ASSUME NEW j \in J PROVE j \in 1..i
        OBVIOUS
      <4>1. j \in 1..(i + 1) /\ j # i + 1
        BY <2>3
      <4> QED BY <4>1
    <3>2. J \cap (1..i) = J
      BY <3>1
    <3> QED BY <2>2, <3>2
  <2>4. CASE i + 1 \in J
    <3> DEFINE q == [k \in 1..(m + 1) |-> IF k = m + 1 THEN i + 1 ELSE p[k]]
    <3>0. m \in Nat /\ p \in [1..m -> J \cap (1..i)]
      BY <2>2 DEF Lists
    <3>1. \A k \in 1..(m + 1) : k = m + 1 \/ k \in 1..m
      BY <3>0
    <3>2. q \in [1..(m + 1) -> J]
      BY <3>0, <3>1, <2>4
    <3>3. \A k, l \in 1..(m + 1) : k < l => q[k] < q[l]
      <4> SUFFICES ASSUME NEW k \in 1..(m + 1), NEW l \in 1..(m + 1), k < l PROVE q[k] < q[l]
        OBVIOUS
      <4>1. k \in 1..m /\ k # m + 1
        BY <3>0
      <4>2. p[k] \in 1..i
        BY <4>1, <3>0
      <4>3. CASE l = m + 1
        BY <4>1, <4>2, <4>3
      <4>4. CASE l \in 1..m
        BY <4>1, <4>4, <2>2, <3>0 DEF Lists
      <4> QED BY <4>3, <4>4, <3>1
    <3>4. \A j \in J : \E k \in 1..(m + 1) : q[k] = j
      <4> SUFFICES ASSUME NEW j \in J PROVE \E k \in 1..(m + 1) : q[k] = j
        OBVIOUS
      <4>1. CASE j = i + 1
        <5>1. m + 1 \in 1..(m + 1)
          BY <3>0
        <5> QED BY <4>1, <5>1
      <4>2. CASE j # i + 1
        <5>1. j \in J \cap (1..i)
          BY <4>2
        <5>2. PICK k \in 1..m : p[k] = j
          BY <5>1, <2>2 DEF Lists
        <5>3. k \in 1..(m + 1) /\ k # m + 1
          BY <3>0
        <5> QED BY <5>2, <5>3
      <4> QED BY <4>1, <4>2
    <3> HIDE DEF q
    <3>5. Lists(q, m + 1, J)
      BY <3>0, <3>2, <3>3, <3>4 DEF Lists
    <3> QED BY <3>5
  <2> QED BY <2>3, <2>4
<1> HIDE DEF T
<1>3. n \in T
  BY <1>1, <1>2, NaturalsByInduction
<1> QED BY <1>3 DEF T

\* What is picked are the elements at these places, in order.
LEMMA PickedElements ==
  ASSUME NEW X, NEW s \in Seq(X), NEW I, I \subseteq DOMAIN s
  PROVE  \E m, p : /\ Lists(p, m, I)
                   /\ Picked(s, I) = Along(s, p, m)
                   /\ Picked(s, I) \in Seq(X)
                   /\ Len(Picked(s, I)) = m
                   /\ DOMAIN Picked(s, I) = 1..m
<1>1. Len(s) \in Nat /\ DOMAIN s = 1..Len(s) /\ \A i \in 1..Len(s) : s[i] \in X
  OBVIOUS
<1>2. I \subseteq 1..Len(s) /\ I \subseteq Nat
  BY <1>1
<1>3. PICK m, p : Lists(p, m, I)
  BY <1>1, <1>2, PlacesListed
<1>4. Picked(s, I) = Along(s, p, m)
  BY <1>2, <1>3, PickedInOrder
<1>5. m \in Nat /\ \A k \in 1..m : s[p[k]] \in X
  BY <1>1, <1>2, <1>3 DEF Lists
<1>6. Along(s, p, m) \in Seq(X) /\ Len(Along(s, p, m)) = m /\ DOMAIN Along(s, p, m) = 1..m
  BY <1>5 DEF Along
<1> QED BY <1>3, <1>4, <1>6

\* What is picked is what was at the places picked.
LEMMA PickedSet ==
  ASSUME NEW X, NEW s \in Seq(X), NEW I, I \subseteq DOMAIN s
  PROVE  /\ Picked(s, I) \in Seq(X)
         /\ ToSet(Picked(s, I)) = {s[i] : i \in I}
<1>1. PICK m, p : /\ Lists(p, m, I)
                  /\ Picked(s, I) = Along(s, p, m)
                  /\ Picked(s, I) \in Seq(X)
                  /\ DOMAIN Picked(s, I) = 1..m
  BY PickedElements
<1>2. ToSet(Picked(s, I)) = {s[p[k]] : k \in 1..m}
  BY <1>1 DEF ToSet, Along
<1>3. {s[p[k]] : k \in 1..m} = {s[i] : i \in I}
  BY <1>1 DEF Lists
<1> QED BY <1>1, <1>2, <1>3

\* Two places of s hold elements related by R.
Clashes(s, R) == \E i, j \in DOMAIN s : i < j /\ <<s[i], s[j]>> \in R

\* Where what is picked clashes, two of the places picked do.
LEMMA PickedClash ==
  ASSUME NEW X, NEW s \in Seq(X), NEW I, I \subseteq DOMAIN s, NEW R,
         Clashes(Picked(s, I), R)
  PROVE  \E i, j \in I : i < j /\ <<s[i], s[j]>> \in R
<1>1. PICK m, p : /\ Lists(p, m, I)
                  /\ Picked(s, I) = Along(s, p, m)
                  /\ DOMAIN Picked(s, I) = 1..m
  BY PickedElements
<1>2. PICK k, l \in 1..m : k < l /\ <<Picked(s, I)[k], Picked(s, I)[l]>> \in R
  BY <1>1 DEF Clashes
<1>3. p[k] \in I /\ p[l] \in I /\ p[k] < p[l] /\ <<s[p[k]], s[p[l]]>> \in R
  BY <1>1, <1>2 DEF Lists, Along
<1> QED BY <1>3

\* Where keeps the elements it selects, and only those.
LEMMA WhereSet ==
  ASSUME NEW X, NEW s \in Seq(X), NEW T
  PROVE  /\ Where(s, T) \in Seq(X)
         /\ ToSet(Where(s, T)) = ToSet(s) \cap T
<1> DEFINE I == {i \in DOMAIN s : s[i] \in T}
<1>1. Where(s, T) \in Seq(X) /\ ToSet(Where(s, T)) = {s[i] : i \in I}
  BY PickedSet DEF Where
<1>2. {s[i] : i \in I} = ToSet(s) \cap T
  BY DEF ToSet
<1> QED BY <1>1, <1>2

\* Selected elements that clash did so where they came from.
LEMMA WhereClash ==
  ASSUME NEW X, NEW s \in Seq(X), NEW T, NEW R, Clashes(Where(s, T), R)
  PROVE  \E i, j \in DOMAIN s : i < j /\ s[i] \in T /\ s[j] \in T /\ <<s[i], s[j]>> \in R
<1> DEFINE I == {i \in DOMAIN s : s[i] \in T}
<1>1. Clashes(Picked(s, I), R)
  BY DEF Where
<1>2. I \subseteq DOMAIN s
  OBVIOUS
<1> HIDE DEF I
<1>3. \E i, j \in I : i < j /\ <<s[i], s[j]>> \in R
  BY <1>1, <1>2, PickedClash
<1> QED BY <1>3 DEF I

\* Every place picked, nothing changes.
LEMMA PickedAll ==
  ASSUME NEW X, NEW s \in Seq(X)
  PROVE  Picked(s, DOMAIN s) = s
<1> DEFINE p == [k \in 1..Len(s) |-> k]
<1>1. Len(s) \in Nat /\ DOMAIN s = 1..Len(s) /\ s = [k \in 1..Len(s) |-> s[k]]
  OBVIOUS
<1>2. Lists(p, Len(s), DOMAIN s)
  BY <1>1 DEF Lists
<1>3. Picked(s, DOMAIN s) = Along(s, p, Len(s))
  <2> HIDE DEF p
  <2>1. DOMAIN s \subseteq Nat
    BY <1>1
  <2> QED BY <2>1, <1>2, PickedInOrder
<1> QED BY <1>1, <1>3 DEF Along

\* Where changes nothing when it selects everything.
LEMMA WhereAll ==
  ASSUME NEW X, NEW s \in Seq(X), NEW T, ToSet(s) \subseteq T
  PROVE  Where(s, T) = s
<1>1. {i \in DOMAIN s : s[i] \in T} = DOMAIN s
  BY DEF ToSet
<1> QED BY <1>1, PickedAll DEF Where

\* Only the elements that occur matter.
LEMMA WhereSame ==
  ASSUME NEW s, NEW T, NEW U, ToSet(s) \cap T = ToSet(s) \cap U
  PROVE  Where(s, T) = Where(s, U)
<1>1. {i \in DOMAIN s : s[i] \in T} = {i \in DOMAIN s : s[i] \in U}
  BY DEF ToSet
<1> QED BY <1>1 DEF Where

\* No place picked, nothing is left.
LEMMA PickedNone == ASSUME NEW s PROVE Picked(s, {}) = <<>>
<1>1. Lists([k \in 1..0 |-> 0], 0, {})
  BY DEF Lists
<1>2. Picked(s, {}) = Along(s, [k \in 1..0 |-> 0], 0)
  BY <1>1, PickedInOrder
<1> QED BY <1>2 DEF Along

\* Where leaves nothing when it selects nothing.
LEMMA WhereNone ==
  ASSUME NEW s, NEW T, ToSet(s) \cap T = {}
  PROVE  Where(s, T) = <<>>
<1>1. {i \in DOMAIN s : s[i] \in T} = {}
  BY DEF ToSet
<1> QED BY <1>1, PickedNone DEF Where

\* A sequence is a function on its places.
LEMMA SequenceIs ==
  ASSUME NEW X, NEW s \in Seq(X)
  PROVE  /\ Len(s) \in Nat /\ DOMAIN s = 1..Len(s)
         /\ s = [k \in 1..Len(s) |-> s[k]]
OBVIOUS

\* Two sequences one after the other, place by place.
LEMMA ConcatIs ==
  ASSUME NEW X, NEW s \in Seq(X), NEW t \in Seq(X)
  PROVE  s \o t = [k \in 1..(Len(s) + Len(t)) |-> IF k <= Len(s) THEN s[k] ELSE t[k - Len(s)]]
<1>1. s \o t \in Seq(X) /\ Len(s \o t) = Len(s) + Len(t)
  OBVIOUS
<1>2. s \o t = [k \in 1..(Len(s) + Len(t)) |-> (s \o t)[k]]
  BY <1>1, SequenceIs
<1>3. \A k \in 1..(Len(s) + Len(t)) :
        (s \o t)[k] = IF k <= Len(s) THEN s[k] ELSE t[k - Len(s)]
  OBVIOUS
<1> QED BY <1>2, <1>3

\* They hold what both hold.
LEMMA ConcatSet ==
  ASSUME NEW X, NEW s \in Seq(X), NEW t \in Seq(X)
  PROVE  /\ s \o t \in Seq(X)
         /\ ToSet(s \o t) = ToSet(s) \cup ToSet(t)
<1>1. s \o t \in Seq(X) /\ Len(s \o t) = Len(s) + Len(t)
  OBVIOUS
<1>2. ToSet(s \o t) \subseteq ToSet(s) \cup ToSet(t)
  <2> SUFFICES ASSUME NEW i \in 1..(Len(s) + Len(t))
               PROVE  (s \o t)[i] \in ToSet(s) \cup ToSet(t)
    BY <1>1 DEF ToSet
  <2>1. CASE i \in 1..Len(s)
    BY <2>1 DEF ToSet
  <2>2. CASE i - Len(s) \in 1..Len(t)
    BY <2>2 DEF ToSet
  <2> QED BY <2>1, <2>2
<1>3. \A i \in 1..Len(s) : i \in DOMAIN (s \o t) /\ (s \o t)[i] = s[i]
  OBVIOUS
<1>4. \A i \in 1..Len(t) : Len(s) + i \in DOMAIN (s \o t) /\ (s \o t)[Len(s) + i] = t[i]
  OBVIOUS
<1>5. DOMAIN s = 1..Len(s) /\ DOMAIN t = 1..Len(t)
  OBVIOUS
<1>6. \A x \in ToSet(s) : x \in ToSet(s \o t)
  BY <1>3, <1>5 DEF ToSet
<1>7. \A x \in ToSet(t) : x \in ToSet(s \o t)
  BY <1>4, <1>5 DEF ToSet
<1> QED BY <1>1, <1>2, <1>6, <1>7

\* A concatenation clashes within a part or across.
LEMMA ConcatClash ==
  ASSUME NEW X, NEW s \in Seq(X), NEW t \in Seq(X), NEW R
  PROVE  Clashes(s \o t, R) <=> \/ Clashes(s, R)
                                \/ Clashes(t, R)
                                \/ \E x \in ToSet(s), y \in ToSet(t) : <<x, y>> \in R
<1>0. /\ Len(s) \in Nat /\ Len(t) \in Nat /\ DOMAIN s = 1..Len(s) /\ DOMAIN t = 1..Len(t)
      /\ DOMAIN (s \o t) = 1..(Len(s) + Len(t))
  OBVIOUS
<1>1. \A i \in 1..Len(s) : i \in DOMAIN (s \o t) /\ (s \o t)[i] = s[i]
  OBVIOUS
<1>2. \A i \in 1..Len(t) : Len(s) + i \in DOMAIN (s \o t) /\ (s \o t)[Len(s) + i] = t[i]
  OBVIOUS
<1>3. ASSUME Clashes(s \o t, R)
      PROVE  \/ Clashes(s, R) \/ Clashes(t, R)
             \/ \E x \in ToSet(s), y \in ToSet(t) : <<x, y>> \in R
  <2>1. PICK i, j \in 1..(Len(s) + Len(t)) : i < j /\ <<(s \o t)[i], (s \o t)[j]>> \in R
    BY <1>0, <1>3 DEF Clashes
  <2>2. CASE j \in 1..Len(s)
    <3>1. i \in 1..Len(s)
      BY <2>1, <2>2
    <3> QED BY <2>1, <2>2, <3>1, <1>0, <1>1 DEF Clashes
  <2>3. CASE i \in 1..Len(s) /\ j \notin 1..Len(s)
    <3>1. j - Len(s) \in 1..Len(t) /\ Len(s) + (j - Len(s)) = j
      BY <1>0, <2>3
    <3>2. (s \o t)[j] = t[j - Len(s)] /\ (s \o t)[i] = s[i]
      BY <1>1, <1>2, <2>3, <3>1
    <3> QED BY <2>1, <2>3, <3>1, <3>2, <1>0 DEF ToSet
  <2>4. CASE i \notin 1..Len(s)
    <3>1. /\ i - Len(s) \in 1..Len(t) /\ Len(s) + (i - Len(s)) = i
          /\ j - Len(s) \in 1..Len(t) /\ Len(s) + (j - Len(s)) = j
          /\ i - Len(s) < j - Len(s)
      BY <1>0, <2>1, <2>4
    <3>2. (s \o t)[j] = t[j - Len(s)] /\ (s \o t)[i] = t[i - Len(s)]
      BY <1>2, <3>1
    <3> QED BY <2>1, <3>1, <3>2, <1>0 DEF Clashes
  <2> QED BY <2>2, <2>3, <2>4
<1>4. ASSUME Clashes(s, R) PROVE Clashes(s \o t, R)
  <2>1. PICK i, j \in 1..Len(s) : i < j /\ <<s[i], s[j]>> \in R
    BY <1>0, <1>4 DEF Clashes
  <2> QED BY <2>1, <1>1 DEF Clashes
<1>5. ASSUME Clashes(t, R) PROVE Clashes(s \o t, R)
  <2>1. PICK i, j \in 1..Len(t) : i < j /\ <<t[i], t[j]>> \in R
    BY <1>0, <1>5 DEF Clashes
  <2>2. Len(s) + i < Len(s) + j
    BY <1>0, <2>1
  <2> QED BY <2>1, <2>2, <1>2 DEF Clashes
<1>6. ASSUME NEW x \in ToSet(s), NEW y \in ToSet(t), <<x, y>> \in R PROVE Clashes(s \o t, R)
  <2>1. PICK i \in 1..Len(s), j \in 1..Len(t) : x = s[i] /\ y = t[j]
    BY <1>0 DEF ToSet
  <2>2. i < Len(s) + j
    BY <1>0, <2>1
  <2> QED BY <1>1, <1>2, <1>6, <2>1, <2>2 DEF Clashes
<1> QED BY <1>3, <1>4, <1>5, <1>6

\* Picking from a concatenation, part by part.
LEMMA WhereConcat ==
  ASSUME NEW X, NEW s \in Seq(X), NEW t \in Seq(X), NEW T
  PROVE  Where(s \o t, T) = Where(s, T) \o Where(t, T)
<1> DEFINE I == {i \in DOMAIN s : s[i] \in T}
           J == {i \in DOMAIN t : t[i] \in T}
           K == {i \in DOMAIN (s \o t) : (s \o t)[i] \in T}
<1>0. /\ Len(s) \in Nat /\ Len(t) \in Nat /\ DOMAIN s = 1..Len(s) /\ DOMAIN t = 1..Len(t)
      /\ DOMAIN (s \o t) = 1..(Len(s) + Len(t)) /\ s \o t \in Seq(X)
  OBVIOUS
<1>1. PICK m, p : /\ Lists(p, m, I) /\ Where(s, T) = Along(s, p, m)
                  /\ Where(s, T) \in Seq(X) /\ Len(Where(s, T)) = m
  <2>1. I \subseteq DOMAIN s /\ Where(s, T) = Picked(s, I)
    BY DEF Where
  <2> HIDE DEF I
  <2> QED BY <2>1, PickedElements
<1>2. PICK n, q : /\ Lists(q, n, J) /\ Where(t, T) = Along(t, q, n)
                  /\ Where(t, T) \in Seq(X) /\ Len(Where(t, T)) = n
  <2>1. J \subseteq DOMAIN t /\ Where(t, T) = Picked(t, J)
    BY DEF Where
  <2> HIDE DEF J
  <2> QED BY <2>1, PickedElements
<1> DEFINE r == [k \in 1..(m + n) |-> IF k <= m THEN p[k] ELSE Len(s) + q[k - m]]
<1>3. /\ m \in Nat /\ n \in Nat
      /\ \A k \in 1..m : p[k] \in I
      /\ \A k \in 1..n : q[k] \in J
  BY <1>1, <1>2 DEF Lists
<1>4. \A i : i \in K <=> \/ i \in I
                         \/ i - Len(s) \in J /\ i \in Int
  <2> TAKE i
  <2>1. CASE i \in 1..Len(s)
    <3>1. (s \o t)[i] = s[i] /\ i \in DOMAIN (s \o t) /\ i - Len(s) \notin 1..Len(t)
      BY <2>1, <1>0
    <3> QED BY <2>1, <3>1, <1>0
  <2>2. CASE i \in (Len(s) + 1)..(Len(s) + Len(t))
    <3>1. /\ (s \o t)[i] = t[i - Len(s)] /\ i \in DOMAIN (s \o t)
          /\ i - Len(s) \in 1..Len(t) /\ i \notin 1..Len(s) /\ i \in Int
      BY <2>2, <1>0
    <3> QED BY <3>1, <1>0
  <2>3. CASE i \notin 1..(Len(s) + Len(t))
    <3>1. i \notin K /\ i \notin I
      BY <2>3, <1>0
    <3>2. ~(i - Len(s) \in 1..Len(t) /\ i \in Int)
      BY <2>3, <1>0
    <3> QED BY <3>1, <3>2, <1>0
  <2>4. i \in 1..(Len(s) + Len(t)) => i \in 1..Len(s) \/ i \in (Len(s) + 1)..(Len(s) + Len(t))
    BY <1>0
  <2> QED BY <2>1, <2>2, <2>3, <2>4
<1>5. /\ I \subseteq 1..Len(s) /\ J \subseteq 1..Len(t) /\ K \subseteq Nat
  BY <1>0
<1>a. Where(s \o t, T) = Picked(s \o t, K)
  BY DEF Where
<1>b. \A i \in I : (s \o t)[i] = s[i]
  BY <1>0, <1>5
<1>c. \A j \in J : (s \o t)[Len(s) + j] = t[j]
  BY <1>0, <1>5
<1> HIDE DEF I, J, K
<1>6. Lists(r, m + n, K)
  <2>1. m + n \in Nat
    BY <1>3
  <2>2. \A k \in 1..(m + n) : \/ k \in 1..m /\ r[k] = p[k]
                              \/ k \notin 1..m /\ k - m \in 1..n /\ r[k] = Len(s) + q[k - m]
    BY <1>3
  <2>3. r \in [1..(m + n) -> K]
    <3> SUFFICES ASSUME NEW k \in 1..(m + n) PROVE r[k] \in K
      OBVIOUS
    <3> HIDE DEF r
    <3>1. CASE k \in 1..m /\ r[k] = p[k]
      BY <3>1, <1>3, <1>4
    <3>2. CASE k - m \in 1..n /\ r[k] = Len(s) + q[k - m]
      <4>0. Len(s) + q[k - m] = r[k]
        BY <3>2
      <4>1. q[k - m] \in J
        BY <3>2, <1>3
      <4>2. q[k - m] \in Nat
        <5>1. q[k - m] \in 1..Len(t)
          BY <4>1, <1>5
        <5> HIDE <1>5
        <5> QED BY <5>1, <1>0
      <4>3. r[k] \in Int /\ r[k] - Len(s) = q[k - m]
        BY <4>0, <4>2, <1>0
      <4> QED BY <4>1, <4>3, <1>4
    <3> QED BY <2>2, <3>1, <3>2
  <2>4. \A k, l \in 1..(m + n) : k < l => r[k] < r[l]
    <3> SUFFICES ASSUME NEW k \in 1..(m + n), NEW l \in 1..(m + n), k < l PROVE r[k] < r[l]
      OBVIOUS
    <3> HIDE DEF r
    <3>1. CASE k \in 1..m /\ l \in 1..m
      BY <3>1, <1>1, <2>2 DEF Lists
    <3>2. CASE k \in 1..m /\ l \notin 1..m
      <4>1. r[k] = p[k] /\ r[l] = Len(s) + q[l - m] /\ l - m \in 1..n
        BY <3>2, <2>2
      <4>2. p[k] \in 1..Len(s) /\ q[l - m] \in 1..Len(t)
        BY <4>1, <3>2, <1>3, <1>5
      <4> QED BY <4>1, <4>2, <1>0
    <3>3. CASE k \notin 1..m
      <4>1. k - m \in 1..n /\ r[k] = Len(s) + q[k - m]
        BY <3>3, <2>2
      <4>2. l \notin 1..m
        BY <3>3, <1>3
      <4>3. l - m \in 1..n /\ r[l] = Len(s) + q[l - m]
        BY <4>2, <2>2
      <4>4. k - m < l - m
        BY <1>3
      <4>5. q[k - m] < q[l - m]
        BY <4>1, <4>3, <4>4, <1>2 DEF Lists
      <4>6. q[k - m] \in 1..Len(t) /\ q[l - m] \in 1..Len(t)
        BY <4>1, <4>3, <1>3, <1>5
      <4> QED BY <4>1, <4>3, <4>5, <4>6, <1>0
    <3> QED BY <3>1, <3>2, <3>3
  <2>5. \A i \in K : \E k \in 1..(m + n) : r[k] = i
    <3> SUFFICES ASSUME NEW i \in K PROVE \E k \in 1..(m + n) : r[k] = i
      OBVIOUS
    <3>1. CASE i \in I
      <4>1. PICK k \in 1..m : p[k] = i
        BY <3>1, <1>1 DEF Lists
      <4>2. k \in 1..(m + n) /\ r[k] = p[k]
        BY <1>3
      <4> QED BY <4>1, <4>2
    <3>2. CASE i - Len(s) \in J /\ i \in Int
      <4>1. PICK k \in 1..n : q[k] = i - Len(s)
        BY <3>2, <1>2 DEF Lists
      <4>2. m + k \in 1..(m + n) /\ r[m + k] = Len(s) + q[k]
        BY <1>3
      <4>3. r[m + k] = i
        BY <4>1, <4>2, <3>2, <1>0
      <4> QED BY <4>2, <4>3
    <3> QED BY <3>1, <3>2, <1>4
  <2> HIDE DEF r
  <2> QED BY <2>1, <2>3, <2>4, <2>5 DEF Lists
<1>7. Picked(s \o t, K) = Along(s \o t, r, m + n)
  <2> HIDE DEF r
  <2> QED BY <1>5, <1>6, PickedInOrder
<1>8. Where(s, T) \o Where(t, T) = [k \in 1..(m + n) |-> IF k <= m THEN s[p[k]] ELSE t[q[k - m]]]
  <2>1. Where(s, T) \o Where(t, T) =
          [k \in 1..(m + n) |-> IF k <= m THEN Where(s, T)[k] ELSE Where(t, T)[k - m]]
    <3> DEFINE a == Where(s, T)
               b == Where(t, T)
    <3>1. a \in Seq(X) /\ b \in Seq(X) /\ Len(a) = m /\ Len(b) = n
      BY <1>1, <1>2
    <3> HIDE DEF a, b
    <3>2. a \o b = [k \in 1..(m + n) |-> IF k <= m THEN a[k] ELSE b[k - m]]
      <4>1. a \o b = [k \in 1..(Len(a) + Len(b)) |-> IF k <= Len(a) THEN a[k] ELSE b[k - Len(a)]]
        BY <3>1, ConcatIs
      <4> QED BY <3>1, <4>1
    <3> QED BY <3>2 DEF a, b
  <2>2. \A k \in 1..(m + n) : k <= m => Where(s, T)[k] = s[p[k]]
    BY <1>1, <1>3 DEF Along
  <2>3. \A k \in 1..(m + n) : ~(k <= m) => Where(t, T)[k - m] = t[q[k - m]]
    BY <1>2, <1>3 DEF Along
  <2> QED BY <2>1, <2>2, <2>3
<1>9. \A k \in 1..(m + n) : (s \o t)[r[k]] = IF k <= m THEN s[p[k]] ELSE t[q[k - m]]
  <2> SUFFICES ASSUME NEW k \in 1..(m + n)
               PROVE  (s \o t)[r[k]] = IF k <= m THEN s[p[k]] ELSE t[q[k - m]]
    OBVIOUS
  <2>1. CASE k <= m
    <3>1. r[k] = p[k] /\ k \in 1..m
      BY <2>1, <1>3
    <3> QED BY <2>1, <3>1, <1>b, <1>3
  <2>2. CASE ~(k <= m)
    <3>1. k - m \in 1..n /\ r[k] = Len(s) + q[k - m]
      BY <2>2, <1>3
    <3> QED BY <2>2, <3>1, <1>c, <1>3
  <2> QED BY <2>1, <2>2
<1> HIDE DEF r
<1> QED BY <1>7, <1>8, <1>9, <1>a DEF Along

-----------------------------------------------------------------------------
(* Flattening a sequence of sequences.                                     *)

\* The function FlattenSeq is defined by exists.
LEMMA FlattenDefined ==
  ASSUME NEW ss, NEW n \in Nat
  PROVE  \E f : f = [i \in 1..n |-> IF i = 1 THEN ss[i] ELSE f[i - 1] \o ss[i]]
<1> DEFINE T == {m \in Nat : \E f : f = [i \in 1..m |-> IF i = 1 THEN ss[i]
                                                        ELSE f[i - 1] \o ss[i]]}
<1>1. 0 \in T
  <2> DEFINE f == [i \in 1..0 |-> ss[i]]
  <2>1. f = [i \in 1..0 |-> IF i = 1 THEN ss[i] ELSE f[i - 1] \o ss[i]]
    <3>1. \A i \in 1..0 : ss[i] = IF i = 1 THEN ss[i] ELSE f[i - 1] \o ss[i]
      <4>1. \A i \in 1..0 : FALSE
        OBVIOUS
      <4> QED BY <4>1
    <3> QED BY <3>1
  <2> HIDE DEF f
  <2> QED BY <2>1
<1>2. \A m \in Nat : m \in T => m + 1 \in T
  <2> SUFFICES ASSUME NEW m \in Nat, m \in T PROVE m + 1 \in T
    OBVIOUS
  <2>1. PICK f : f = [i \in 1..m |-> IF i = 1 THEN ss[i] ELSE f[i - 1] \o ss[i]]
    OBVIOUS
  <2> DEFINE g == [i \in 1..(m + 1) |-> IF i \in 1..m THEN f[i]
                                        ELSE IF i = 1 THEN ss[i] ELSE f[i - 1] \o ss[i]]
  <2>2. \A i \in 1..(m + 1) : i # 1 => i - 1 \in 1..m /\ i - 1 \in 1..(m + 1)
    OBVIOUS
  <2>3. \A i \in 1..(m + 1) : i # 1 => g[i - 1] = f[i - 1]
    BY <2>2
  <2>4. \A i \in 1..(m + 1) : g[i] = IF i = 1 THEN ss[i] ELSE f[i - 1] \o ss[i]
    <3> SUFFICES ASSUME NEW i \in 1..(m + 1)
                 PROVE  g[i] = IF i = 1 THEN ss[i] ELSE f[i - 1] \o ss[i]
      OBVIOUS
    <3>1. CASE i \in 1..m
      <4>1. g[i] = f[i]
        BY <3>1
      <4>2. f[i] = IF i = 1 THEN ss[i] ELSE f[i - 1] \o ss[i]
        BY <2>1, <3>1
      <4> QED BY <4>1, <4>2
    <3>2. CASE i \notin 1..m
      BY <3>2
    <3> QED BY <3>1, <3>2
  <2>5. g = [i \in 1..(m + 1) |-> g[i]]
    OBVIOUS
  <2> HIDE DEF g
  <2>6. \A i \in 1..(m + 1) : g[i] = IF i = 1 THEN ss[i] ELSE g[i - 1] \o ss[i]
    BY <2>3, <2>4
  <2>7. g = [i \in 1..(m + 1) |-> IF i = 1 THEN ss[i] ELSE g[i - 1] \o ss[i]]
    BY <2>5, <2>6
  <2>8. \E h : h = [i \in 1..(m + 1) |-> IF i = 1 THEN ss[i] ELSE h[i - 1] \o ss[i]]
    <3> WITNESS g
    <3> QED BY <2>7
  <2>9. m + 1 \in Nat
    OBVIOUS
  <2> QED BY <2>8, <2>9, Zenon
<1> HIDE DEF T
<1>3. n \in T
  BY <1>1, <1>2, NaturalsByInduction
<1> QED BY <1>3 DEF T

\* f[i] is the concatenation of the first i.
Accumulates(f, ss) ==
  /\ f[1] = ss[1]
  /\ \A i \in Nat \ {0} : i < Len(ss) => f[i + 1] = f[i] \o ss[i + 1]

\* FlattenSeq is the last of its partial results.
LEMMA FlattenAccumulates ==
  ASSUME NEW X, NEW ss \in Seq(X), ss # <<>>
  PROVE  \E f : Accumulates(f, ss) /\ FlattenSeq(ss) = f[Len(ss)]
<1>1. Len(ss) \in Nat /\ Len(ss) # 0
  OBVIOUS
<1> DEFINE Is(f) == f = [i \in 1..Len(ss) |-> IF i = 1 THEN ss[i] ELSE f[i - 1] \o ss[i]]
           f == CHOOSE f : Is(f)
<1>2. FlattenSeq(ss) = f[Len(ss)]
  BY <1>1 DEF FlattenSeq
<1>3. \E g : Is(g)
  BY <1>1, FlattenDefined
<1>4. Is(f)
  BY <1>3
<1> HIDE DEF f
<1>5. \A i \in 1..Len(ss) : f[i] = IF i = 1 THEN ss[i] ELSE f[i - 1] \o ss[i]
  BY <1>4
<1>6. f[1] = ss[1]
  BY <1>1, <1>5
<1>7. ASSUME NEW i \in Nat \ {0}, i < Len(ss) PROVE f[i + 1] = f[i] \o ss[i + 1]
  <2>1. i + 1 \in 1..Len(ss) /\ i + 1 # 1 /\ (i + 1) - 1 = i
    BY <1>1, <1>7
  <2> QED BY <2>1, <1>5
<1> QED BY <1>2, <1>6, <1>7 DEF Accumulates

\* What a flattened sequence holds, and when it clashes: within a part or
\* between two.
LEMMA FlattenFacts ==
  ASSUME NEW X, NEW ss \in Seq(Seq(X)), NEW R
  PROVE  /\ FlattenSeq(ss) \in Seq(X)
         /\ ToSet(FlattenSeq(ss)) = UNION {ToSet(ss[i]) : i \in DOMAIN ss}
         /\ Clashes(FlattenSeq(ss), R) <=>
              \/ \E i \in DOMAIN ss : Clashes(ss[i], R)
              \/ \E i, j \in DOMAIN ss : /\ i < j
                                         /\ \E x \in ToSet(ss[i]), y \in ToSet(ss[j]) :
                                              <<x, y>> \in R
<1>1. CASE ss = <<>>
  <2>1. FlattenSeq(ss) = <<>>
    BY <1>1 DEF FlattenSeq
  <2>2. DOMAIN ss = {} /\ ~Clashes(<<>>, R) /\ ToSet(<<>>) = {} /\ <<>> \in Seq(X)
    BY <1>1 DEF Clashes, ToSet
  <2> QED BY <2>1, <2>2
<1>2. CASE ss # <<>>
  <2>0. Len(ss) \in Nat /\ Len(ss) # 0 /\ DOMAIN ss = 1..Len(ss)
        /\ \A i \in 1..Len(ss) : ss[i] \in Seq(X)
    BY <1>2
  <2>1. PICK f : Accumulates(f, ss) /\ FlattenSeq(ss) = f[Len(ss)]
    BY <1>2, FlattenAccumulates
  <2> DEFINE Sound(i) ==
        /\ f[i] \in Seq(X)
        /\ ToSet(f[i]) = UNION {ToSet(ss[j]) : j \in 1..i}
        /\ Clashes(f[i], R) <=>
             \/ \E j \in 1..i : Clashes(ss[j], R)
             \/ \E j, k \in 1..i : /\ j < k
                                   /\ \E x \in ToSet(ss[j]), y \in ToSet(ss[k]) : <<x, y>> \in R
             T == {i \in Nat : i < Len(ss) => Sound(i + 1)}
  <2>2. Sound(1)
    <3>1. f[1] = ss[1] /\ ss[1] \in Seq(X)
      BY <2>0, <2>1 DEF Accumulates
    <3>2. 1..1 = {1}
      OBVIOUS
    <3>3. UNION {ToSet(ss[j]) : j \in {1}} = ToSet(ss[1])
      OBVIOUS
    <3> QED BY <3>1, <3>2, <3>3
  <2>3. ASSUME NEW i \in Nat \ {0}, i < Len(ss), Sound(i) PROVE Sound(i + 1)
    <3>1. f[i + 1] = f[i] \o ss[i + 1] /\ ss[i + 1] \in Seq(X)
      <4>1. i + 1 \in 1..Len(ss)
        BY <2>0, <2>3
      <4> QED BY <4>1, <2>0, <2>1, <2>3 DEF Accumulates
    <3>2. \A j : j \in 1..(i + 1) <=> j \in 1..i \/ j = i + 1
      OBVIOUS
    <3>3. f[i + 1] \in Seq(X) /\ ToSet(f[i + 1]) = ToSet(f[i]) \cup ToSet(ss[i + 1])
      BY <3>1, <2>3, ConcatSet
    <3>4. Clashes(f[i + 1], R) <=> \/ Clashes(f[i], R) \/ Clashes(ss[i + 1], R)
                                   \/ \E x \in ToSet(f[i]), y \in ToSet(ss[i + 1]) : <<x, y>> \in R
      <4>1. f[i] \in Seq(X)
        BY <2>3
      <4> HIDE DEF Sound, T
      <4> QED BY <3>1, <4>1, ConcatClash
    <3>5. ToSet(f[i + 1]) = UNION {ToSet(ss[j]) : j \in 1..(i + 1)}
      BY <3>2, <3>3, <2>3
    <3>6. (\E x \in ToSet(f[i]), y \in ToSet(ss[i + 1]) : <<x, y>> \in R) <=>
            \E j \in 1..i : \E x \in ToSet(ss[j]), y \in ToSet(ss[i + 1]) : <<x, y>> \in R
      BY <2>3
    <3>7. (\E j, k \in 1..(i + 1) : /\ j < k
                                   /\ \E x \in ToSet(ss[j]), y \in ToSet(ss[k]) : <<x, y>> \in R)
          <=> \/ \E j, k \in 1..i : /\ j < k
                                    /\ \E x \in ToSet(ss[j]), y \in ToSet(ss[k]) : <<x, y>> \in R
              \/ \E j \in 1..i : \E x \in ToSet(ss[j]), y \in ToSet(ss[i + 1]) : <<x, y>> \in R
      <4>1. \A j \in 1..i : j < i + 1 /\ j \in 1..(i + 1)
        OBVIOUS
      <4>2. \A j, k \in 1..(i + 1) : j < k => j \in 1..i /\ (k \in 1..i \/ k = i + 1)
        OBVIOUS
      <4>3. i + 1 \in 1..(i + 1)
        OBVIOUS
      <4> QED BY <4>1, <4>2, <4>3
    <3> QED BY <3>2, <3>3, <3>4, <3>5, <3>6, <3>7, <2>3
  <2>4. 0 \in T
    <3>1. 0 + 1 = 1 /\ 0 \in Nat
      OBVIOUS
    <3>2. Sound(0 + 1)
      BY <2>2, <3>1
    <3> HIDE DEF Sound
    <3> QED BY <3>1, <3>2, Zenon
  <2>5. \A i \in Nat : i \in T => i + 1 \in T
    <3> SUFFICES ASSUME NEW i \in Nat, i \in T PROVE i + 1 \in T
      OBVIOUS
    <3> SUFFICES ASSUME i + 1 < Len(ss) PROVE Sound((i + 1) + 1)
      <4>1. i + 1 \in Nat
        OBVIOUS
      <4> HIDE DEF Sound
      <4> QED BY <4>1, Zenon
    <3>1. i < Len(ss) /\ i + 1 \in Nat \ {0}
      BY <2>0
    <3>2. Sound(i + 1)
      BY <3>1
    <3> QED BY <3>1, <3>2, <2>3
  <2>6. Len(ss) - 1 \in T
    <3> HIDE DEF T
    <3>1. \A i \in Nat : i \in T
      BY <2>4, <2>5, NaturalsByInduction
    <3>2. Len(ss) - 1 \in Nat
      BY <2>0
    <3> QED BY <3>1, <3>2
  <2>7. Sound(Len(ss))
    <3>1. Len(ss) - 1 < Len(ss) /\ (Len(ss) - 1) + 1 = Len(ss)
      BY <2>0
    <3> QED BY <3>1, <2>6
  <2> QED BY <2>0, <2>1, <2>7 DEF Sound
<1> QED BY <1>1, <1>2

\* Where one part only has elements in T, these are what T picks.
LEMMA WhereFlatten ==
  ASSUME NEW X, NEW ss \in Seq(Seq(X)), NEW T, NEW a \in DOMAIN ss,
         \A i \in DOMAIN ss : i # a => ToSet(ss[i]) \cap T = {}
  PROVE  Where(FlattenSeq(ss), T) = Where(ss[a], T)
<1>0. Len(ss) \in Nat /\ Len(ss) # 0 /\ DOMAIN ss = 1..Len(ss) /\ ss # <<>>
      /\ \A i \in 1..Len(ss) : ss[i] \in Seq(X)
  OBVIOUS
<1>1. PICK f : Accumulates(f, ss) /\ FlattenSeq(ss) = f[Len(ss)]
  BY <1>0, FlattenAccumulates
<1> DEFINE Sound(i) == /\ f[i] \in Seq(X)
                       /\ Where(f[i], T) = IF a <= i THEN Where(ss[a], T) ELSE <<>>
           U == {i \in Nat : i < Len(ss) => Sound(i + 1)}
<1>2. Sound(1)
  <2>1. f[1] = ss[1] /\ ss[1] \in Seq(X) /\ 1 \in DOMAIN ss /\ a \in 1..Len(ss)
    BY <1>0, <1>1 DEF Accumulates
  <2>2. CASE a = 1
    BY <2>1, <2>2
  <2>3. CASE a # 1
    <3>1. ToSet(ss[1]) \cap T = {} /\ ~(a <= 1)
      BY <2>1, <2>3
    <3> QED BY <3>1, <2>1, WhereNone
  <2> QED BY <2>2, <2>3
<1>3. ASSUME NEW i \in Nat \ {0}, i < Len(ss), Sound(i) PROVE Sound(i + 1)
  <2>0. i + 1 \in 1..Len(ss) /\ a \in 1..Len(ss)
    BY <1>0, <1>3
  <2>1. f[i + 1] = f[i] \o ss[i + 1] /\ ss[i + 1] \in Seq(X)
    BY <2>0, <1>0, <1>1, <1>3 DEF Accumulates
  <2>2. f[i + 1] \in Seq(X) /\ Where(f[i + 1], T) = Where(f[i], T) \o Where(ss[i + 1], T)
    <3>1. f[i] \in Seq(X)
      BY <1>3
    <3> HIDE DEF Sound, U
    <3>2. f[i + 1] \in Seq(X)
      BY <2>1, <3>1, ConcatSet
    <3>3. Where(f[i] \o ss[i + 1], T) = Where(f[i], T) \o Where(ss[i + 1], T)
      <4> DEFINE g == f[i]
                 t == ss[i + 1]
      <4>1. g \in Seq(X) /\ t \in Seq(X)
        BY <2>1, <3>1
      <4> HIDE DEF g, t
      <4>2. Where(g \o t, T) = Where(g, T) \o Where(t, T)
        BY <4>1, WhereConcat, SMTT(60)
      <4> QED BY <4>2 DEF g, t
    <3> QED BY <2>1, <3>2, <3>3
  <2>3. Where(ss[a], T) \in Seq(X)
    BY <1>0, <2>0, WhereSet
  <2>4. CASE a = i + 1
    <3>1. ~(a <= i) /\ a <= i + 1
      BY <2>4
    <3>2. Where(f[i], T) = <<>>
      BY <3>1, <1>3
    <3> QED BY <2>2, <2>3, <2>4, <3>1, <3>2
  <2>5. CASE a # i + 1
    <3>1. Where(ss[i + 1], T) = <<>>
      BY <2>0, <2>5, <1>0, WhereNone
    <3>2. a <= i <=> a <= i + 1
      BY <2>0, <2>5
    <3>3. Where(f[i], T) \in Seq(X)
      BY <1>3, WhereSet
    <3>4. Where(f[i + 1], T) = Where(f[i], T)
      BY <2>2, <3>1, <3>3
    <3> QED BY <2>2, <3>2, <3>4, <1>3
  <2> QED BY <2>4, <2>5
<1>4. 0 \in U
  <2>1. 0 + 1 = 1 /\ 0 \in Nat
    OBVIOUS
  <2>2. Sound(0 + 1)
    BY <1>2, <2>1
  <2> HIDE DEF Sound
  <2> QED BY <2>1, <2>2, Zenon
<1>5. \A i \in Nat : i \in U => i + 1 \in U
  <2> SUFFICES ASSUME NEW i \in Nat, i \in U PROVE i + 1 \in U
    OBVIOUS
  <2> SUFFICES ASSUME i + 1 < Len(ss) PROVE Sound((i + 1) + 1)
    <3>1. i + 1 \in Nat
      OBVIOUS
    <3> HIDE DEF Sound
    <3> QED BY <3>1, Zenon
  <2>1. i < Len(ss) /\ i + 1 \in Nat \ {0}
    BY <1>0
  <2>2. Sound(i + 1)
    BY <2>1
  <2> QED BY <2>1, <2>2, <1>3
<1>6. Len(ss) - 1 \in U
  <2> HIDE DEF U
  <2>1. \A i \in Nat : i \in U
    BY <1>4, <1>5, NaturalsByInduction
  <2>2. Len(ss) - 1 \in Nat
    BY <1>0
  <2> QED BY <2>1, <2>2
<1>7. Sound(Len(ss)) /\ a <= Len(ss)
  <2>1. Len(ss) - 1 < Len(ss) /\ (Len(ss) - 1) + 1 = Len(ss) /\ a <= Len(ss)
    BY <1>0
  <2> QED BY <2>1, <1>6
<1> QED BY <1>1, <1>7 DEF Sound

-----------------------------------------------------------------------------
(* The types of what composing a configuration yields.                     *)

\* The check_sets of one file or of all.
SetsOK(sets) == DOMAIN sets \subseteq SetNames /\ \A n \in DOMAIN sets : sets[n] \in CheckSet

\* Contents of all files.
FilesOK(fs) == \A f \in Files : IsFile(fs[f])

\* Fields of a file.
LEMMA FileFields ==
  ASSUME NEW x, IsFile(x)
  PROVE  /\ x.checks \in Seq(FlatCheck)
         /\ x.tables \in Seq(Entry)
         /\ SetsOK(x.sets)
         /\ x = [checks |-> x.checks, tables |-> x.tables, sets |-> x.sets]
<1>1. x \in [checks : Seq(FlatCheck), tables : Seq(Entry), sets : {x.sets}]
  BY DEF IsFile
<1>2. x.checks \in Seq(FlatCheck) /\ x.tables \in Seq(Entry)
      /\ x = [checks |-> x.checks, tables |-> x.tables, sets |-> x.sets]
  BY <1>1
<1>3. SetsOK(x.sets)
  BY DEF IsFile, SetsOK
<1> QED BY <1>2, <1>3

\* A file from its three parts.
LEMMA FileMade ==
  ASSUME NEW c \in Seq(FlatCheck), NEW t \in Seq(Entry), NEW s, SetsOK(s),
         s = [n \in DOMAIN s |-> s[n]]
  PROVE  IsFile([checks |-> c, tables |-> t, sets |-> s])
BY DEF IsFile, SetsOK

\* A block is a flat check when its fields are those of one.
LEMMA FlatCheckFields ==
  ASSUME NEW b
  PROVE  b \in FlatCheck <=>
           /\ b = [table |-> b.table, metric |-> b.metric, id |-> b.id,
                   active |-> b.active, arg |-> b.arg, body |-> b.body]
           /\ b.table \in Tables /\ b.table # None /\ b.metric \in Metrics
           /\ b.id \in Ids \cup {None} /\ b.active \in Activity
           /\ b.arg = None /\ b.body \in Bodies /\ b.body # "restating"
BY DEF FlatCheck, Block

\* Replacing ${VAR}s leaves a table a table, and its absence its absence.
LEMMA ResolvedTable ==
  ASSUME NEW U, NEW t \in Tables \cup {None}
  PROVE  /\ Resolved(t, U) \in Tables \cup {None}
         /\ Resolved(t, U) = None <=> t = None
BY ConfigAssumption DEF Resolved

\* A file as read is a file, with the tables replaced and nothing else.
LEMMA InterpolatedFile ==
  ASSUME NEW x, IsFile(x), NEW U
  PROVE  /\ IsFile(InterpolateEnv(x, U))
         /\ InterpolateEnv(x, U).checks =
              [i \in DOMAIN x.checks |->
                 [x.checks[i] EXCEPT !.table = Resolved(x.checks[i].table, U)]]
         /\ InterpolateEnv(x, U).tables =
              [i \in DOMAIN x.tables |->
                 [x.tables[i] EXCEPT !.table = Resolved(x.tables[i].table, U)]]
         /\ InterpolateEnv(x, U).sets = x.sets
<1> DEFINE c == [i \in DOMAIN x.checks |->
                   [x.checks[i] EXCEPT !.table = Resolved(x.checks[i].table, U)]]
           t == [i \in DOMAIN x.tables |->
                   [x.tables[i] EXCEPT !.table = Resolved(x.tables[i].table, U)]]
<1>1. /\ x.checks \in Seq(FlatCheck) /\ x.tables \in Seq(Entry) /\ SetsOK(x.sets)
      /\ x = [checks |-> x.checks, tables |-> x.tables, sets |-> x.sets]
  BY FileFields
<1>2. InterpolateEnv(x, U) = [x EXCEPT !.checks = c, !.tables = t]
  BY DEF InterpolateEnv
<1>3. c \in Seq(FlatCheck)
  <2>1. \A i \in DOMAIN x.checks :
          [x.checks[i] EXCEPT !.table = Resolved(x.checks[i].table, U)] \in FlatCheck
    <3> SUFFICES ASSUME NEW b \in FlatCheck
                 PROVE  [b EXCEPT !.table = Resolved(b.table, U)] \in FlatCheck
      BY <1>1
    <3>1. Resolved(b.table, U) \in Tables /\ Resolved(b.table, U) # None
      BY FlatCheckFields, ResolvedTable
    <3>2. b \in Block /\ b.arg = None /\ b.body # "restating"
      BY DEF FlatCheck
    <3> QED BY <3>1, <3>2 DEF FlatCheck, Block
  <2>2. DOMAIN x.checks = 1..Len(x.checks) /\ Len(x.checks) \in Nat
    BY <1>1
  <2> QED BY <2>1, <2>2
<1>4. t \in Seq(Entry)
  <2>1. \A i \in DOMAIN x.tables :
          [x.tables[i] EXCEPT !.table = Resolved(x.tables[i].table, U)] \in Entry
    <3> SUFFICES ASSUME NEW e \in Entry
                 PROVE  [e EXCEPT !.table = Resolved(e.table, U)] \in Entry
      BY <1>1
    <3>1. e.table \in Tables \cup {None}
      BY DEF Entry
    <3>2. Resolved(e.table, U) \in Tables \cup {None}
      BY <3>1, ResolvedTable
    <3> QED BY <3>2 DEF Entry
  <2>2. DOMAIN x.tables = 1..Len(x.tables) /\ Len(x.tables) \in Nat
    BY <1>1
  <2> QED BY <2>1, <2>2
<1> HIDE DEF c, t
<1> DEFINE y == [x EXCEPT !.checks = c, !.tables = t]
<1>5. x \in [checks : Seq(FlatCheck), tables : Seq(Entry), sets : {x.sets}]
  BY DEF IsFile
<1>6. y.checks = c /\ y.tables = t /\ y.sets = x.sets
  BY <1>5
<1>7. y \in [checks : Seq(FlatCheck), tables : Seq(Entry), sets : {x.sets}]
  BY <1>3, <1>4, <1>5
<1> HIDE DEF y
<1>8. IsFile(y)
  BY <1>6, <1>7 DEF IsFile
<1> QED BY <1>2, <1>6, <1>8 DEF c, t, y

\* The files as read are files.
Read(fs, U) == [f \in Files |-> InterpolateEnv(fs[f], U)]

\* Files as read are files.
LEMMA ReadFiles ==
  ASSUME NEW fs, FilesOK(fs), NEW U
  PROVE  FilesOK(Read(fs, U))
BY InterpolatedFile DEF FilesOK, Read

\* A set of natural numbers has its minimum.
LEMMA MinIsLeast ==
  ASSUME NEW S, S \subseteq Nat, S # {}
  PROVE  Min(S) \in S /\ \A x \in S : Min(S) <= x
<1>1. PICK m \in S : \A n \in S : <<n, m>> \notin OpToRel(<, Nat)
  BY NatLessThanWellFounded, WFMin
<1>2. \A n \in S : m <= n
  <2>1. \A n \in S : ~(n < m)
    BY <1>1 DEF OpToRel
  <2>2. m \in Nat /\ \A n \in S : n \in Nat
    OBVIOUS
  <2> QED BY <2>1, <2>2
<1> QED BY <1>2 DEF Min

\* The sets of all files are sets.
LEMMA ComposedSetsType ==
  ASSUME NEW fs, FilesOK(fs), NEW o \in Seq(Files)
  PROVE  SetsOK(ComposedSets(fs, o))
<1> SUFFICES ASSUME NEW n \in SetNames, Definers(fs, o, n) # {}
             PROVE  fs[o[Min(Definers(fs, o, n))]].sets[n] \in CheckSet
  BY DEF ComposedSets, SetsOK
<1> DEFINE i == Min(Definers(fs, o, n))
<1>1. i \in Definers(fs, o, n)
  <2>1. Definers(fs, o, n) \subseteq Nat
    BY DEF Definers
  <2> QED BY <2>1, MinIsLeast
<1> HIDE DEF i
<1>2. i \in DOMAIN o /\ o[i] \in Files /\ n \in DOMAIN fs[o[i]].sets
  BY <1>1 DEF Definers
<1>3. SetsOK(fs[o[i]].sets)
  BY <1>2, FileFields DEF FilesOK
<1> QED BY <1>2, <1>3 DEF SetsOK, i

\* What an entry expands a set to.
LEMMA ExpandedType ==
  ASSUME NEW e \in Entry, NEW sets, SetsOK(sets)
  PROVE  /\ Expanded(e, sets) \in Seq(SetItem)
         /\ ToSet(Expanded(e, sets)) = IF e.use \notin DOMAIN sets THEN {} ELSE
              {b \in ToSet(sets[e.use].checks) :
                 Placeable(b) /\ ~Skipped(b, e) /\ Supplied(b, e, sets)}
<1>1. CASE e.use \notin DOMAIN sets
  <2>1. Expanded(e, sets) = <<>>
    BY <1>1 DEF Expanded
  <2> QED BY <1>1, <2>1 DEF ToSet
<1>2. CASE e.use \in DOMAIN sets
  <2> DEFINE items == sets[e.use].checks
             yields == {b \in ToSet(items) :
                          Placeable(b) /\ ~Skipped(b, e) /\ Supplied(b, e, sets)}
  <2>1. items \in Seq(SetItem)
    BY <1>2 DEF SetsOK, CheckSet
  <2>2. Expanded(e, sets) = Where(items, yields)
    BY <1>2 DEF Expanded
  <2>3. yields \subseteq ToSet(items)
    OBVIOUS
  <2> HIDE DEF items, yields
  <2>4. Where(items, yields) \in Seq(SetItem) /\ ToSet(Where(items, yields)) = yields
    <3>1. Where(items, yields) \in Seq(SetItem)
      BY <2>1, WhereSet
    <3>2. ToSet(Where(items, yields)) = ToSet(items) \cap yields
      BY <2>1, WhereSet
    <3> QED BY <3>1, <3>2, <2>3
  <2> QED BY <1>2, <2>2, <2>4 DEF items, yields
<1> QED BY <1>1, <1>2

\* A block as its entry flattens it.
Flat(b, e) == [b EXCEPT !.table = e.table, !.arg = None, !.active = WithEntryActive(b, e)]

\* A flattened block is a flat check that keeps its metric, id and body.
LEMMA FlatFields ==
  ASSUME NEW b \in SetItem, NEW e \in Entry, e.table # None, Placeable(b)
  PROVE  /\ Flat(b, e) \in FlatCheck
         /\ Flat(b, e).table = e.table
         /\ Flat(b, e).metric = b.metric
         /\ Flat(b, e).id = b.id
         /\ Flat(b, e).active = WithEntryActive(b, e)
         /\ Flat(b, e).arg = None
         /\ Flat(b, e).body = b.body
<1>1. b \in Block
  BY DEF SetItem
<1>2. e.table \in Tables /\ e.active \in Activity
  BY DEF Entry
<1>3. WithEntryActive(b, e) \in Activity
  BY <1>1, <1>2 DEF WithEntryActive, Block
<1>4. /\ Flat(b, e).table = e.table
      /\ Flat(b, e).metric = b.metric
      /\ Flat(b, e).id = b.id
      /\ Flat(b, e).active = WithEntryActive(b, e)
      /\ Flat(b, e).arg = None
      /\ Flat(b, e).body = b.body
  BY <1>1 DEF Flat, Block
<1>5. Flat(b, e) \in Block
  <2> HIDE DEF WithEntryActive
  <2> QED BY <1>1, <1>2, <1>3 DEF Flat, Block
<1>6. b.body # "restating"
  BY DEF Placeable
<1> QED BY <1>4, <1>5, <1>6 DEF FlatCheck

\* The blocks one entry contributes.
Contributed(e, sets) ==
  ToSet(Expanded(e, sets)) \cup {b \in ToSet(e.checks) : Placeable(b)}

\* An entry flattens to flat checks, one for each block it contributes.
LEMMA FlattenEntryType ==
  ASSUME NEW e \in Entry, NEW sets, SetsOK(sets)
  PROVE  /\ FlattenEntry(e, sets) \in Seq(FlatCheck)
         /\ ToSet(FlattenEntry(e, sets)) =
              IF e.table = None \/ Meaningless(e) THEN {}
              ELSE {Flat(b, e) : b \in Contributed(e, sets)}
         /\ \A b \in Contributed(e, sets) : b \in SetItem /\ Placeable(b)
         /\ Expanded(e, sets) \o Where(e.checks, {b \in ToSet(e.checks) : Placeable(b)})
              \in Seq(SetItem)
<1> DEFINE yields == {b \in ToSet(e.checks) : Placeable(b)}
           bs == Expanded(e, sets) \o Where(e.checks, yields)
<1>1. e.checks \in Seq(SetItem)
  <2>1. e.checks \in Seq(EntryCheck)
    BY DEF Entry
  <2>2. EntryCheck \subseteq SetItem
    BY DEF EntryCheck
  <2> QED BY <2>1, <2>2
<1>2. /\ Where(e.checks, yields) \in Seq(SetItem)
      /\ ToSet(Where(e.checks, yields)) = yields
  <2>1. yields \subseteq ToSet(e.checks)
    OBVIOUS
  <2> HIDE DEF yields
  <2>2. Where(e.checks, yields) \in Seq(SetItem)
    BY <1>1, WhereSet
  <2>3. ToSet(Where(e.checks, yields)) = ToSet(e.checks) \cap yields
    BY <1>1, WhereSet
  <2> QED BY <2>1, <2>2, <2>3
<1>3. /\ Expanded(e, sets) \in Seq(SetItem)
      /\ \A b \in ToSet(Expanded(e, sets)) : Placeable(b)
  BY ExpandedType
<1>4. bs \in Seq(SetItem) /\ ToSet(bs) = Contributed(e, sets)
  <2> HIDE DEF yields
  <2>1. bs \in Seq(SetItem)
    BY <1>2, <1>3, ConcatSet
  <2>2. ToSet(bs) = ToSet(Expanded(e, sets)) \cup yields
    BY <1>2, <1>3, ConcatSet
  <2> QED BY <2>1, <2>2 DEF Contributed, yields
<1>5. \A b \in Contributed(e, sets) : b \in SetItem /\ Placeable(b)
  <2>1. \A b \in ToSet(e.checks) : b \in SetItem
    BY <1>1 DEF ToSet
  <2>2. \A b \in ToSet(Expanded(e, sets)) : b \in SetItem
    BY <1>3 DEF ToSet
  <2> QED BY <1>3, <2>1, <2>2 DEF Contributed
<1>6. CASE e.table = None \/ Meaningless(e)
  <2>1. FlattenEntry(e, sets) = <<>>
    BY <1>6 DEF FlattenEntry
  <2>2. ToSet(<<>>) = {}
    BY DEF ToSet
  <2> QED BY <1>4, <1>5, <1>6, <2>1, <2>2
<1>7. CASE ~(e.table = None \/ Meaningless(e))
  <2>1. FlattenEntry(e, sets) = [i \in DOMAIN bs |-> Flat(bs[i], e)]
    BY <1>7 DEF FlattenEntry, Flat
  <2>2. \A i \in DOMAIN bs : bs[i] \in Contributed(e, sets)
    BY <1>4 DEF ToSet
  <2> HIDE DEF bs
  <2>3. \A i \in DOMAIN bs : Flat(bs[i], e) \in FlatCheck
    BY <2>2, <1>5, <1>7, FlatFields
  <2>4. DOMAIN bs = 1..Len(bs) /\ Len(bs) \in Nat
    BY <1>4
  <2>5. FlattenEntry(e, sets) \in Seq(FlatCheck)
    BY <2>1, <2>3, <2>4
  <2>6. ToSet(FlattenEntry(e, sets)) = {Flat(bs[i], e) : i \in DOMAIN bs}
    BY <2>1 DEF ToSet
  <2>7. {Flat(bs[i], e) : i \in DOMAIN bs} = {Flat(b, e) : b \in ToSet(bs)}
    BY DEF ToSet
  <2>8. ToSet(FlattenEntry(e, sets)) = {Flat(b, e) : b \in Contributed(e, sets)}
    BY <1>4, <2>6, <2>7
  <2> QED BY <1>4, <1>5, <1>7, <2>5, <2>8 DEF bs
<1> QED BY <1>6, <1>7

\* What the entries of a file contribute, and when their checks clash.
LEMMA FlattenTablesType ==
  ASSUME NEW tables \in Seq(Entry), NEW sets, SetsOK(sets), NEW R
  PROVE  /\ FlattenTableChecks(tables, sets) \in Seq(FlatCheck)
         /\ ToSet(FlattenTableChecks(tables, sets)) =
              UNION {ToSet(FlattenEntry(tables[i], sets)) : i \in DOMAIN tables}
         /\ Clashes(FlattenTableChecks(tables, sets), R) <=>
              \/ \E i \in DOMAIN tables : Clashes(FlattenEntry(tables[i], sets), R)
              \/ \E i, j \in DOMAIN tables :
                   /\ i < j
                   /\ \E x \in ToSet(FlattenEntry(tables[i], sets)),
                         y \in ToSet(FlattenEntry(tables[j], sets)) : <<x, y>> \in R
<1> DEFINE ss == [i \in DOMAIN tables |-> FlattenEntry(tables[i], sets)]
<1>1. ss \in Seq(Seq(FlatCheck))
  <2>1. \A i \in DOMAIN tables : FlattenEntry(tables[i], sets) \in Seq(FlatCheck)
    <3>1. \A i \in DOMAIN tables : tables[i] \in Entry
      OBVIOUS
    <3> QED BY <3>1, FlattenEntryType
  <2>2. DOMAIN tables = 1..Len(tables) /\ Len(tables) \in Nat
    OBVIOUS
  <2> QED BY <2>1, <2>2
<1>2. FlattenTableChecks(tables, sets) = FlattenSeq(ss)
  BY DEF FlattenTableChecks
<1>3. DOMAIN ss = DOMAIN tables /\ \A i \in DOMAIN tables : ss[i] = FlattenEntry(tables[i], sets)
  OBVIOUS
<1> HIDE DEF ss
<1>4. /\ FlattenSeq(ss) \in Seq(FlatCheck)
      /\ ToSet(FlattenSeq(ss)) = UNION {ToSet(ss[i]) : i \in DOMAIN ss}
      /\ Clashes(FlattenSeq(ss), R) <=>
           \/ \E i \in DOMAIN ss : Clashes(ss[i], R)
           \/ \E i, j \in DOMAIN ss : /\ i < j
                                      /\ \E x \in ToSet(ss[i]), y \in ToSet(ss[j]) :
                                           <<x, y>> \in R
  BY <1>1, FlattenFacts
<1> QED BY <1>2, <1>3, <1>4

\* What a file contributes: its checks, and what its entries flatten to.
Portion(file, sets) == file.checks \o FlattenTableChecks(file.tables, sets)

\* The composed list holds what the files hold, and clashes within a file or between two.
LEMMA RawChecksType ==
  ASSUME NEW fs, FilesOK(fs), NEW o \in Seq(Files), NEW sets, SetsOK(sets), NEW R
  PROVE  /\ \A f \in Files : Portion(fs[f], sets) \in Seq(FlatCheck)
         /\ RawChecks(fs, o, sets) \in Seq(FlatCheck)
         /\ ToSet(RawChecks(fs, o, sets)) =
              UNION {ToSet(Portion(fs[o[i]], sets)) : i \in DOMAIN o}
         /\ Clashes(RawChecks(fs, o, sets), R) <=>
              \/ \E i \in DOMAIN o : Clashes(Portion(fs[o[i]], sets), R)
              \/ \E i, j \in DOMAIN o :
                   /\ i < j
                   /\ \E x \in ToSet(Portion(fs[o[i]], sets)),
                         y \in ToSet(Portion(fs[o[j]], sets)) : <<x, y>> \in R
<1> DEFINE ss == [i \in DOMAIN o |-> Portion(fs[o[i]], sets)]
<1>1. \A f \in Files : Portion(fs[f], sets) \in Seq(FlatCheck)
  <2> SUFFICES ASSUME NEW f \in Files PROVE Portion(fs[f], sets) \in Seq(FlatCheck)
    OBVIOUS
  <2>1. fs[f].checks \in Seq(FlatCheck) /\ fs[f].tables \in Seq(Entry)
    BY FileFields DEF FilesOK
  <2>2. FlattenTableChecks(fs[f].tables, sets) \in Seq(FlatCheck)
    BY <2>1, FlattenTablesType
  <2> QED BY <2>1, <2>2, ConcatSet DEF Portion
<1>2. ss \in Seq(Seq(FlatCheck))
  <2>1. DOMAIN o = 1..Len(o) /\ Len(o) \in Nat /\ \A i \in DOMAIN o : o[i] \in Files
    OBVIOUS
  <2> QED BY <1>1, <2>1
<1>3. RawChecks(fs, o, sets) = FlattenSeq(ss)
  BY DEF RawChecks, Portion
<1>4. DOMAIN ss = DOMAIN o /\ \A i \in DOMAIN o : ss[i] = Portion(fs[o[i]], sets)
  OBVIOUS
<1> HIDE DEF ss
<1>5. /\ FlattenSeq(ss) \in Seq(FlatCheck)
      /\ ToSet(FlattenSeq(ss)) = UNION {ToSet(ss[i]) : i \in DOMAIN ss}
      /\ Clashes(FlattenSeq(ss), R) <=>
           \/ \E i \in DOMAIN ss : Clashes(ss[i], R)
           \/ \E i, j \in DOMAIN ss : /\ i < j
                                      /\ \E x \in ToSet(ss[i]), y \in ToSet(ss[j]) :
                                           <<x, y>> \in R
  BY <1>2, FlattenFacts
<1>6. UNION {ToSet(ss[i]) : i \in DOMAIN ss} = UNION {ToSet(Portion(fs[o[i]], sets)) : i \in DOMAIN o}
  BY <1>4
<1>7. (\E i \in DOMAIN ss : Clashes(ss[i], R)) <=> \E i \in DOMAIN o : Clashes(Portion(fs[o[i]], sets), R)
  BY <1>4
<1>8. (\E i, j \in DOMAIN ss : /\ i < j
                               /\ \E x \in ToSet(ss[i]), y \in ToSet(ss[j]) : <<x, y>> \in R)
      <=> \E i, j \in DOMAIN o :
                   /\ i < j
                   /\ \E x \in ToSet(Portion(fs[o[i]], sets)),
                         y \in ToSet(Portion(fs[o[j]], sets)) : <<x, y>> \in R
  BY <1>4
<1> QED BY <1>1, <1>3, <1>5, <1>6, <1>7, <1>8

\* So do the entries of all files.
LEMMA AllTablesType ==
  ASSUME NEW fs, FilesOK(fs), NEW o \in Seq(Files), NEW R
  PROVE  /\ AllTables(fs, o) \in Seq(Entry)
         /\ ToSet(AllTables(fs, o)) = UNION {ToSet(fs[o[i]].tables) : i \in DOMAIN o}
         /\ Clashes(AllTables(fs, o), R) <=>
              \/ \E i \in DOMAIN o : Clashes(fs[o[i]].tables, R)
              \/ \E i, j \in DOMAIN o :
                   /\ i < j
                   /\ \E x \in ToSet(fs[o[i]].tables),
                         y \in ToSet(fs[o[j]].tables) : <<x, y>> \in R
<1> DEFINE ss == [i \in DOMAIN o |-> fs[o[i]].tables]
<1>1. \A f \in Files : fs[f].tables \in Seq(Entry)
  BY FileFields DEF FilesOK
<1>2. ss \in Seq(Seq(Entry))
  <2>1. DOMAIN o = 1..Len(o) /\ Len(o) \in Nat /\ \A i \in DOMAIN o : o[i] \in Files
    OBVIOUS
  <2> QED BY <1>1, <2>1
<1>3. AllTables(fs, o) = FlattenSeq(ss)
  BY DEF AllTables
<1>4. DOMAIN ss = DOMAIN o /\ \A i \in DOMAIN o : ss[i] = fs[o[i]].tables
  OBVIOUS
<1> HIDE DEF ss
<1>5. /\ FlattenSeq(ss) \in Seq(Entry)
      /\ ToSet(FlattenSeq(ss)) = UNION {ToSet(ss[i]) : i \in DOMAIN ss}
      /\ Clashes(FlattenSeq(ss), R) <=>
           \/ \E i \in DOMAIN ss : Clashes(ss[i], R)
           \/ \E i, j \in DOMAIN ss : /\ i < j
                                      /\ \E x \in ToSet(ss[i]), y \in ToSet(ss[j]) :
                                           <<x, y>> \in R
  BY <1>2, FlattenFacts
<1>6. UNION {ToSet(ss[i]) : i \in DOMAIN ss} = UNION {ToSet(fs[o[i]].tables) : i \in DOMAIN o}
  BY <1>4
<1>7. (\E i \in DOMAIN ss : Clashes(ss[i], R)) <=> \E i \in DOMAIN o : Clashes(fs[o[i]].tables, R)
  BY <1>4
<1>8. (\E i, j \in DOMAIN ss : /\ i < j
                               /\ \E x \in ToSet(ss[i]), y \in ToSet(ss[j]) : <<x, y>> \in R)
      <=> \E i, j \in DOMAIN o :
                   /\ i < j
                   /\ \E x \in ToSet(fs[o[i]].tables), y \in ToSet(fs[o[j]].tables) : <<x, y>> \in R
  BY <1>4
<1> QED BY <1>3, <1>5, <1>6, <1>7, <1>8

-----------------------------------------------------------------------------
(* Grouping.                                                               *)

\* Every element once, and the same elements.
LEMMA DistinctFacts ==
  ASSUME NEW X, NEW s \in Seq(X)
  PROVE  /\ Distinct(s) \in Seq(X)
         /\ ToSet(Distinct(s)) = ToSet(s)
         /\ IsInjective(Distinct(s))
<1> DEFINE I == FirstPlaces(s)
           d == Distinct(s)
<1>1. I \subseteq DOMAIN s /\ DOMAIN s = 1..Len(s) /\ Len(s) \in Nat
  BY DEF FirstPlaces
<1>2. Distinct(s) \in Seq(X) /\ ToSet(Distinct(s)) = {s[i] : i \in I}
  <2> HIDE DEF I
  <2>1. Picked(s, I) \in Seq(X) /\ ToSet(Picked(s, I)) = {s[i] : i \in I}
    BY <1>1, PickedSet
  <2> QED BY <2>1 DEF Distinct, I
<1>3. ASSUME NEW k \in DOMAIN s PROVE s[k] \in {s[i] : i \in I}
  <2> DEFINE J == {j \in DOMAIN s : s[j] = s[k]}
  <2>1. J \subseteq Nat /\ J # {}
    BY <1>1
  <2>2. Min(J) \in J /\ \A j \in J : Min(J) <= j
    <3> HIDE DEF J
    <3> QED BY <2>1, MinIsLeast
  <2>3. \A j \in 1..(Min(J) - 1) : s[j] # s[Min(J)]
    <3> SUFFICES ASSUME NEW j \in 1..(Min(J) - 1), s[j] = s[Min(J)] PROVE FALSE
      OBVIOUS
    <3>1. Min(J) \in 1..Len(s) /\ s[Min(J)] = s[k]
      BY <1>1, <2>2
    <3>2. j \in DOMAIN s /\ j < Min(J)
      BY <1>1, <3>1
    <3>3. j \in J
      BY <3>1, <3>2
    <3> HIDE DEF J
    <3> QED BY <2>2, <3>1, <3>2, <3>3
  <2>4. Min(J) \in I /\ s[Min(J)] = s[k]
    <3>1. Min(J) \in DOMAIN s /\ s[Min(J)] = s[k]
      BY <2>2
    <3> HIDE DEF J
    <3> QED BY <2>3, <3>1 DEF FirstPlaces
  <2> QED BY <2>4
<1>4. ToSet(s) = {s[i] : i \in I}
  BY <1>1, <1>3 DEF ToSet
<1>5. IsInjective(d)
  <2> DEFINE R == {<<x, x>> : x \in X}
  <2> SUFFICES ASSUME NEW a \in DOMAIN d, NEW b \in DOMAIN d, d[a] = d[b], a # b PROVE FALSE
    BY DEF IsInjective
  <2>0. d \in Seq(X) /\ \A i \in DOMAIN s : s[i] \in X
    BY <1>2
  <2>1. d = Picked(s, I)
    BY DEF Distinct
  <2> HIDE DEF d, I
  <2>2. a \in Int /\ b \in Int /\ d[a] \in X
    BY <2>0
  <2>3. Clashes(d, R)
    <3>1. CASE a < b
      BY <3>1, <2>2 DEF Clashes
    <3>2. CASE b < a
      BY <3>2, <2>2 DEF Clashes
    <3> QED BY <2>2, <3>1, <3>2
  <2>4. PICK i, j \in I : i < j /\ <<s[i], s[j]>> \in R
    <3> HIDE DEF R
    <3> QED BY <1>1, <2>1, <2>3, PickedClash
  <2>5. s[i] = s[j]
    BY <2>4
  <2>6. i \in 1..(j - 1) /\ j \in FirstPlaces(s)
    BY <2>4, <1>1 DEF I
  <2> QED BY <2>5, <2>6 DEF FirstPlaces
<1> QED BY <1>2, <1>4, <1>5

\* A block without the table its entry names.
Nested(b) == [b EXCEPT !.table = None]

\* Such a block is an entry's own.
LEMMA NestedFields ==
  ASSUME NEW b \in FlatCheck
  PROVE  /\ Nested(b) \in EntryCheck
         /\ Nested(b).metric = b.metric /\ Nested(b).id = b.id
         /\ Nested(b).active = b.active /\ Nested(b).body = b.body
         /\ Nested(b).table = None /\ Nested(b).arg = None
BY DEF FlatCheck, EntryCheck, SetItem, Block, Nested

\* The nested checks of a table, from its flat ones.
LEMMA NestedChecksFacts ==
  ASSUME NEW checks \in Seq(FlatCheck), NEW t
  PROVE  /\ NestedChecks(checks, t) \in Seq(EntryCheck)
         /\ ToSet(NestedChecks(checks, t)) =
              {Nested(b) : b \in {c \in ToSet(checks) : c.table = t}}
         /\ NestedChecks(checks, t) = <<>> <=> \A b \in ToSet(checks) : b.table # t
<1> DEFINE T == {b \in ToSet(checks) : b.table = t}
           own == Where(checks, T)
<1>1. own \in Seq(FlatCheck) /\ ToSet(own) = T
  <2>1. T \subseteq ToSet(checks)
    OBVIOUS
  <2> HIDE DEF T
  <2>2. own \in Seq(FlatCheck)
    BY WhereSet
  <2>3. ToSet(own) = ToSet(checks) \cap T
    BY WhereSet
  <2> QED BY <2>1, <2>2, <2>3
<1>2. NestedChecks(checks, t) = [i \in DOMAIN own |-> Nested(own[i])]
  BY DEF NestedChecks, Nested
<1> HIDE DEF own
<1>3. DOMAIN own = 1..Len(own) /\ Len(own) \in Nat /\ \A i \in DOMAIN own : own[i] \in FlatCheck
  BY <1>1
<1>4. NestedChecks(checks, t) \in Seq(EntryCheck)
  <2>1. \A i \in DOMAIN own : Nested(own[i]) \in EntryCheck
    BY <1>3, NestedFields
  <2> QED BY <1>2, <1>3, <2>1
<1>5. ToSet(NestedChecks(checks, t)) = {Nested(b) : b \in ToSet(own)}
  BY <1>2 DEF ToSet
<1>6. NestedChecks(checks, t) = <<>> <=> T = {}
  <2>1. T = {} <=> DOMAIN own = {}
    BY <1>1 DEF ToSet
  <2>2. DOMAIN NestedChecks(checks, t) = DOMAIN own
    BY <1>2
  <2>3. NestedChecks(checks, t) = <<>> <=> DOMAIN NestedChecks(checks, t) = {}
    BY <1>4
  <2> QED BY <2>1, <2>2, <2>3
<1> QED BY <1>1, <1>4, <1>5, <1>6

\* The entry GroupChecksByTable makes for t, and the tables it makes one for.
GroupEntry(checks, active, about, t) ==
  [table |-> t, use |-> None, with |-> {}, skip |-> {},
   active |-> IF t \in DOMAIN active THEN active[t] ELSE "unset",
   about |-> IF t \in about THEN "text" ELSE None,
   checks |-> NestedChecks(checks, t)]

\* The tables grouping keeps an entry for.
KeptTables(checks, active, about, order) ==
  {t \in ToSet(order) \cup ToSet(TablesOf(checks)) :
     NestedChecks(checks, t) # <<>> \/ t \in about \cup DOMAIN active}

\* TablesOf names the tables of a sequence.
LEMMA TablesOfType ==
  ASSUME NEW X, NEW s, NEW n \in Nat, DOMAIN s = 1..n, \A i \in 1..n : s[i].table \in X
  PROVE  /\ TablesOf(s) \in Seq(X)
         /\ ToSet(TablesOf(s)) = {s[i].table : i \in DOMAIN s}
<1>1. TablesOf(s) = [i \in 1..n |-> s[i].table]
  BY DEF TablesOf
<1>2. TablesOf(s) \in Seq(X)
  BY <1>1
<1> QED BY <1>1, <1>2 DEF ToSet

\* One entry for each table kept.
GroupedAs(kept, checks, active, about) ==
  [i \in DOMAIN kept |-> GroupEntry(checks, active, about, kept[i])]

\* The tables kept, in the order of their entries.
KeptInOrder(checks, active, about, order) ==
  Where(Distinct(order \o TablesOf(checks)),
        {t \in ToSet(Distinct(order \o TablesOf(checks))) :
           NestedChecks(checks, t) # <<>> \/ t \in about \cup DOMAIN active})

\* Grouping makes one entry for each of its tables.
LEMMA GroupFacts ==
  ASSUME NEW checks \in Seq(FlatCheck), NEW active, NEW about, NEW order \in Seq(Tables)
  PROVE  /\ GroupChecksByTable(checks, active, about, order) =
              GroupedAs(KeptInOrder(checks, active, about, order), checks, active, about)
         /\ KeptInOrder(checks, active, about, order) \in Seq(Tables)
         /\ ToSet(KeptInOrder(checks, active, about, order)) =
              KeptTables(checks, active, about, order)
         /\ IsInjective(KeptInOrder(checks, active, about, order))
<1> DEFINE all == order \o TablesOf(checks)
           named == Distinct(all)
           T == {t \in ToSet(named) : NestedChecks(checks, t) # <<>> \/ t \in about \cup DOMAIN active}
           kept == Where(named, T)
<1>1. TablesOf(checks) \in Seq(Tables)
  <2>1. Len(checks) \in Nat /\ DOMAIN checks = 1..Len(checks)
        /\ \A i \in 1..Len(checks) : checks[i] \in FlatCheck
    OBVIOUS
  <2>2. \A i \in 1..Len(checks) : checks[i].table \in Tables
    BY <2>1, FlatCheckFields
  <2> QED BY <2>1, <2>2, TablesOfType
<1>2. all \in Seq(Tables) /\ ToSet(all) = ToSet(order) \cup ToSet(TablesOf(checks))
  <2> HIDE DEF all
  <2>1. order \o TablesOf(checks) \in Seq(Tables)
    BY <1>1, ConcatSet
  <2>2. ToSet(order \o TablesOf(checks)) = ToSet(order) \cup ToSet(TablesOf(checks))
    BY <1>1, ConcatSet
  <2> QED BY <2>1, <2>2 DEF all
<1> HIDE DEF all
<1>3. named \in Seq(Tables) /\ ToSet(named) = ToSet(all) /\ IsInjective(named)
  BY <1>2, DistinctFacts
<1>4. GroupChecksByTable(checks, active, about, order) = GroupedAs(kept, checks, active, about)
  BY DEF GroupChecksByTable, GroupEntry, GroupedAs, all
<1>a. T \subseteq ToSet(named) /\ T = KeptTables(checks, active, about, order)
  BY <1>2, <1>3 DEF KeptTables
<1> HIDE DEF named, T
<1>5. kept \in Seq(Tables) /\ ToSet(kept) = T
  <2>1. Where(named, T) \in Seq(Tables)
    BY <1>3, WhereSet
  <2>2. ToSet(Where(named, T)) = ToSet(named) \cap T
    BY <1>3, WhereSet
  <2> QED BY <1>a, <2>1, <2>2
<1>6. IsInjective(kept)
  <2> DEFINE R == {<<x, x>> : x \in Tables}
  <2> SUFFICES ASSUME NEW a \in DOMAIN kept, NEW b \in DOMAIN kept, kept[a] = kept[b], a # b
               PROVE  FALSE
    BY DEF IsInjective
  <2>1. kept = Where(named, T)
    OBVIOUS
  <2> HIDE DEF kept
  <2>2. a \in Int /\ b \in Int /\ kept[a] \in Tables
    BY <1>5
  <2>3. Clashes(kept, R)
    <3>1. CASE a < b
      BY <3>1, <2>2 DEF Clashes
    <3>2. CASE b < a
      BY <3>2, <2>2 DEF Clashes
    <3> QED BY <2>2, <3>1, <3>2
  <2>4. PICK i, j \in DOMAIN named : i < j /\ <<named[i], named[j]>> \in R
    <3> HIDE DEF R
    <3> QED BY <1>3, <2>1, <2>3, WhereClash
  <2>5. named[i] = named[j] /\ i # j
    <3>1. i \in Int /\ j \in Int
      BY <1>3
    <3> QED BY <2>4, <3>1
  <2> QED BY <2>5, <1>3 DEF IsInjective
<1>7. kept = KeptInOrder(checks, active, about, order)
  BY DEF kept, named, T, all, KeptInOrder
<1> HIDE DEF kept
<1> QED BY <1>4, <1>5, <1>6, <1>7, <1>a

\* Entries' actives to keep: an "on" or "off" for each of some tables.
OnOffAt(active, t) == t \in DOMAIN active => active[t] \in {"on", "off"}
OnOff(active) == \A t \in DOMAIN active : OnOffAt(active, t)

\* A grouped entry is an entry.
LEMMA GroupEntryType ==
  ASSUME NEW checks \in Seq(FlatCheck), NEW active, NEW about, NEW t \in Tables,
         OnOffAt(active, t)
  PROVE  GroupEntry(checks, active, about, t) \in Entry
<1>1. NestedChecks(checks, t) \in Seq(EntryCheck)
  BY NestedChecksFacts
<1> QED BY <1>1 DEF GroupEntry, Entry, Activity, OnOffAt

\* Grouping makes entries.
LEMMA GroupType ==
  ASSUME NEW checks \in Seq(FlatCheck), NEW active, NEW about, NEW order \in Seq(Tables),
         OnOff(active)
  PROVE  GroupChecksByTable(checks, active, about, order) \in Seq(Entry)
<1> DEFINE kept == KeptInOrder(checks, active, about, order)
<1>1. /\ kept \in Seq(Tables)
      /\ GroupChecksByTable(checks, active, about, order) = GroupedAs(kept, checks, active, about)
  BY GroupFacts
<1> HIDE DEF kept
<1>2. \A i \in DOMAIN kept : GroupEntry(checks, active, about, kept[i]) \in Entry
  <2>1. \A i \in DOMAIN kept : kept[i] \in Tables
    BY <1>1
  <2>2. \A t : OnOffAt(active, t)
    BY DEF OnOff, OnOffAt
  <2> QED BY <2>1, <2>2, GroupEntryType
<1>3. DOMAIN kept = 1..Len(kept) /\ Len(kept) \in Nat
  BY <1>1
<1> QED BY <1>1, <1>2, <1>3 DEF GroupedAs

-----------------------------------------------------------------------------
(* Migrating a file.                                                       *)

\* The parts of MigratedTables.
Unhoisted(file) ==
  [i \in DOMAIN Plain(file) |->
     [Plain(file)[i] EXCEPT !.active = IF Plain(file)[i].table \in Hoisted(file)
                                       THEN "unset" ELSE @]]
Flattened(file) == FlattenTableChecks(Unhoisted(file), <<>>)
ActiveOf(file) == [t \in Hoisted(file) |-> CHOOSE v \in Actives(file, t) : TRUE]
AboutOf(file) == {Plain(file)[i].table : i \in Described(Plain(file))}
Regrouped(file, first) ==
  IF first = "checks" THEN file.checks \o Flattened(file) ELSE Flattened(file) \o file.checks
OrderOf(file, first) ==
  IF first = "checks" THEN TablesOf(file.checks) \o TablesOf(Plain(file))
  ELSE TablesOf(Plain(file)) \o TablesOf(file.checks)

\* MigratedTables in those parts.
LEMMA MigratedTablesIs ==
  ASSUME NEW file, NEW first
  PROVE  MigratedTables(file, first) =
           GroupChecksByTable(Regrouped(file, first), ActiveOf(file), AboutOf(file),
                              OrderOf(file, first)) \o SetBacked(file)
BY DEF MigratedTables, Regrouped, ActiveOf, AboutOf, OrderOf, Flattened, Unhoisted

\* A file's entries, those without use: and those with it.
LEMMA PlainFacts ==
  ASSUME NEW x, IsFile(x)
  PROVE  /\ Plain(x) \in Seq(Entry)
         /\ ToSet(Plain(x)) = {e \in ToSet(x.tables) : e.use = None}
         /\ SetBacked(x) \in Seq(Entry)
         /\ ToSet(SetBacked(x)) = {e \in ToSet(x.tables) : e.use # None}
<1>1. x.tables \in Seq(Entry)
  BY FileFields
<1>2. ASSUME NEW T, T \subseteq ToSet(x.tables)
      PROVE  Where(x.tables, T) \in Seq(Entry) /\ ToSet(Where(x.tables, T)) = T
  <2>1. Where(x.tables, T) \in Seq(Entry)
    BY <1>1, WhereSet
  <2>2. ToSet(Where(x.tables, T)) = ToSet(x.tables) \cap T
    BY <1>1, WhereSet
  <2> QED BY <1>2, <2>1, <2>2
<1> QED BY <1>2 DEF Plain, SetBacked

\* What is known of a file migrate takes.
LEMMA Migratable ==
  ASSUME NEW x, IsFile(x), MigrateProblems(x) = {}
  PROVE  /\ \A b \in ToSet(x.checks) : b.body # "not a mapping"
         /\ \A e \in ToSet(Plain(x)) : /\ e.table \in Tables /\ e.table # None
                                       /\ ~Meaningless(e)
                                       /\ \A b \in ToSet(e.checks) : Placeable(b)
         /\ \A i, j \in Described(x.tables) : i # j => x.tables[i].table # x.tables[j].table
<1>1. /\ {"misplaced check" : b \in {c \in ToSet(x.checks) : c.body = "not a mapping"}} = {}
      /\ MetaProblems(x.tables) = {}
      /\ TableProblems(Plain(x), <<>>) = {}
  BY DEF MigrateProblems
<1>2. \A b \in ToSet(x.checks) : b.body # "not a mapping"
  BY <1>1
<1>3. ASSUME NEW i \in Described(x.tables), NEW j \in Described(x.tables), i # j
      PROVE  x.tables[i].table # x.tables[j].table
  <2>1. <<i, j>> \in Described(x.tables) \X Described(x.tables)
        /\ <<i, j>>[1] = i /\ <<i, j>>[2] = j
    OBVIOUS
  <2>2. \A q \in Described(x.tables) \X Described(x.tables) :
          ~(q[1] # q[2] /\ x.tables[q[1]].table = x.tables[q[2]].table)
    BY <1>1 DEF MetaProblems
  <2> QED BY <1>3, <2>1, <2>2
<1>4. ASSUME NEW e \in ToSet(Plain(x))
      PROVE  /\ e.table \in Tables /\ e.table # None /\ ~Meaningless(e)
             /\ \A b \in ToSet(e.checks) : Placeable(b)
  <2>1. EntryProblems(e, <<>>) = {}
    BY <1>1 DEF TableProblems
  <2>2. e \in Entry
    <3>1. Plain(x) \in Seq(Entry)
      BY PlainFacts
    <3> QED BY <3>1 DEF ToSet
  <2>3. e.table # None
    BY <2>1 DEF EntryProblems
  <2>4. ~Meaningless(e)
    BY <2>1, <2>3 DEF EntryProblems
  <2>5. BlockProblems(ToSet(e.checks)) = {}
    BY <2>1, <2>3, <2>4 DEF EntryProblems
  <2>6. \A b \in ToSet(e.checks) : Placeable(b)
    BY <2>5 DEF BlockProblems
  <2> QED BY <2>2, <2>3, <2>4, <2>6 DEF Entry
<1> QED BY <1>2, <1>3, <1>4

\* No sets are sets.
LEMMA EmptySetsOK == SetsOK(<<>>) /\ DOMAIN <<>> = {}
BY DEF SetsOK

\* The parts of a migration are what they should be.
LEMMA MigrateTypes ==
  ASSUME NEW x, IsFile(x), MigrateProblems(x) = {}, NEW first
  PROVE  /\ Unhoisted(x) \in Seq(Entry)
         /\ Flattened(x) \in Seq(FlatCheck)
         /\ Regrouped(x, first) \in Seq(FlatCheck)
         /\ ToSet(Regrouped(x, first)) = ToSet(x.checks) \cup ToSet(Flattened(x))
         /\ OrderOf(x, first) \in Seq(Tables)
         /\ ToSet(OrderOf(x, first)) =
              {b.table : b \in ToSet(x.checks)} \cup {e.table : e \in ToSet(Plain(x))}
         /\ OnOff(ActiveOf(x))
         /\ MigratedTables(x, first) \in Seq(Entry)
<1>0. /\ x.checks \in Seq(FlatCheck) /\ Plain(x) \in Seq(Entry) /\ SetBacked(x) \in Seq(Entry)
  BY FileFields, PlainFacts
<1>1. Unhoisted(x) \in Seq(Entry)
  <2> DEFINE v(i) == IF Plain(x)[i].table \in Hoisted(x) THEN "unset" ELSE Plain(x)[i].active
  <2>1. \A i \in DOMAIN Plain(x) : [Plain(x)[i] EXCEPT !.active = v(i)] \in Entry
    <3> SUFFICES ASSUME NEW i \in DOMAIN Plain(x)
                 PROVE  [Plain(x)[i] EXCEPT !.active = v(i)] \in Entry
      OBVIOUS
    <3>1. Plain(x)[i] \in Entry
      BY <1>0
    <3>2. v(i) \in Activity
      BY <3>1 DEF Entry, Activity
    <3> HIDE DEF v
    <3> QED BY <3>1, <3>2 DEF Entry
  <2>2. Unhoisted(x) = [i \in DOMAIN Plain(x) |-> [Plain(x)[i] EXCEPT !.active = v(i)]]
    BY DEF Unhoisted
  <2>3. DOMAIN Plain(x) = 1..Len(Plain(x)) /\ Len(Plain(x)) \in Nat
    BY <1>0
  <2> HIDE DEF v
  <2> QED BY <2>1, <2>2, <2>3
<1>2. Flattened(x) \in Seq(FlatCheck)
  BY <1>1, EmptySetsOK, FlattenTablesType DEF Flattened
<1>3. /\ Regrouped(x, first) \in Seq(FlatCheck)
      /\ ToSet(Regrouped(x, first)) = ToSet(x.checks) \cup ToSet(Flattened(x))
  <2>1. CASE first = "checks"
    BY <1>0, <1>2, <2>1, ConcatSet DEF Regrouped
  <2>2. CASE first # "checks"
    <3>1. /\ Regrouped(x, first) \in Seq(FlatCheck)
          /\ ToSet(Regrouped(x, first)) = ToSet(Flattened(x)) \cup ToSet(x.checks)
      BY <1>0, <1>2, <2>2, ConcatSet DEF Regrouped
    <3> QED BY <3>1
  <2> QED BY <2>1, <2>2
<1>4. /\ TablesOf(x.checks) \in Seq(Tables)
      /\ ToSet(TablesOf(x.checks)) = {b.table : b \in ToSet(x.checks)}
  <2>1. Len(x.checks) \in Nat /\ DOMAIN x.checks = 1..Len(x.checks)
        /\ \A i \in 1..Len(x.checks) : x.checks[i].table \in Tables
    BY <1>0, FlatCheckFields
  <2>2. TablesOf(x.checks) \in Seq(Tables)
        /\ ToSet(TablesOf(x.checks)) = {x.checks[i].table : i \in DOMAIN x.checks}
    BY <2>1, TablesOfType
  <2> QED BY <2>2 DEF ToSet
<1>5. /\ TablesOf(Plain(x)) \in Seq(Tables)
      /\ ToSet(TablesOf(Plain(x))) = {e.table : e \in ToSet(Plain(x))}
  <2>1. Len(Plain(x)) \in Nat /\ DOMAIN Plain(x) = 1..Len(Plain(x))
    BY <1>0
  <2>2. \A i \in 1..Len(Plain(x)) : Plain(x)[i].table \in Tables
    <3>1. \A i \in 1..Len(Plain(x)) : Plain(x)[i] \in ToSet(Plain(x))
      BY <2>1 DEF ToSet
    <3> QED BY <3>1, Migratable
  <2>3. TablesOf(Plain(x)) \in Seq(Tables)
        /\ ToSet(TablesOf(Plain(x))) = {Plain(x)[i].table : i \in DOMAIN Plain(x)}
    BY <2>1, <2>2, TablesOfType
  <2> QED BY <2>3 DEF ToSet
<1>6. /\ OrderOf(x, first) \in Seq(Tables)
      /\ ToSet(OrderOf(x, first)) = ToSet(TablesOf(x.checks)) \cup ToSet(TablesOf(Plain(x)))
  <2>1. CASE first = "checks"
    BY <1>4, <1>5, <2>1, ConcatSet DEF OrderOf
  <2>2. CASE first # "checks"
    <3>1. /\ OrderOf(x, first) \in Seq(Tables)
          /\ ToSet(OrderOf(x, first)) = ToSet(TablesOf(Plain(x))) \cup ToSet(TablesOf(x.checks))
      BY <1>4, <1>5, <2>2, ConcatSet DEF OrderOf
    <3> QED BY <3>1
  <2> QED BY <2>1, <2>2
<1>7. OnOff(ActiveOf(x))
  <2> SUFFICES ASSUME NEW t \in Hoisted(x)
               PROVE  (CHOOSE v \in Actives(x, t) : TRUE) \in {"on", "off"}
    BY DEF ActiveOf, OnOff, OnOffAt
  <2>1. PICK v \in {"on", "off"} : Actives(x, t) = {v}
    BY DEF Hoisted
  <2> QED BY <2>1
<1>8. MigratedTables(x, first) \in Seq(Entry)
  <2> DEFINE g == GroupChecksByTable(Regrouped(x, first), ActiveOf(x), AboutOf(x),
                                     OrderOf(x, first))
  <2>1. g \in Seq(Entry)
    BY <1>3, <1>6, <1>7, GroupType
  <2> HIDE DEF g
  <2>2. g \o SetBacked(x) \in Seq(Entry)
    BY <1>0, <2>1, ConcatSet
  <2> QED BY <2>2, MigratedTablesIs DEF g
<1> QED BY <1>1, <1>2, <1>3, <1>4, <1>5, <1>6, <1>7, <1>8

-----------------------------------------------------------------------------
(* Proposals.                                                              *)

\* What dbfresh add prints: the proposed blocks whose id is new, once each.
LEMMA PartitionFacts ==
  ASSUME NEW fs, NEW blocks \in Seq(FlatCheck)
  PROVE  /\ PartitionNewChecks(fs, blocks) \in Seq(FlatCheck)
         /\ \A b \in ToSet(PartitionNewChecks(fs, blocks)) :
              b \in ToSet(blocks) /\ CheckId(b) \notin DefinedIds(fs)
         /\ \A b \in ToSet(blocks) :
              \/ CheckId(b) \in DefinedIds(fs)
              \/ \E c \in ToSet(PartitionNewChecks(fs, blocks)) : CheckId(c) = CheckId(b)
         /\ \A R : Clashes(PartitionNewChecks(fs, blocks), R) =>
              \E b, c \in ToSet(blocks) : CheckId(b) # CheckId(c) /\ <<b, c>> \in R
<1> DEFINE ids == [i \in DOMAIN blocks |-> CheckId(blocks[i])]
           I == {i \in FirstPlaces(ids) : ids[i] \notin DefinedIds(fs)}
<1>0. Len(blocks) \in Nat /\ DOMAIN blocks = 1..Len(blocks)
  OBVIOUS
<1>1. PartitionNewChecks(fs, blocks) = Picked(blocks, I)
  BY DEF PartitionNewChecks
<1>2. I \subseteq DOMAIN blocks
  BY DEF FirstPlaces
<1>3. /\ Picked(blocks, I) \in Seq(FlatCheck)
      /\ ToSet(Picked(blocks, I)) = {blocks[i] : i \in I}
  <2> HIDE DEF I
  <2> QED BY <1>2, PickedSet
<1>4. \A i \in I : blocks[i] \in ToSet(blocks) /\ CheckId(blocks[i]) \notin DefinedIds(fs)
  BY <1>2 DEF ToSet
<1>5. ASSUME NEW k \in DOMAIN blocks, CheckId(blocks[k]) \notin DefinedIds(fs)
      PROVE  \E i \in I : CheckId(blocks[i]) = CheckId(blocks[k])
  <2> DEFINE J == {j \in DOMAIN blocks : ids[j] = ids[k]}
  <2>1. J \subseteq Nat /\ J # {}
    BY <1>0
  <2>2. Min(J) \in J /\ \A j \in J : Min(J) <= j
    <3> HIDE DEF J
    <3> QED BY <2>1, MinIsLeast
  <2>3. Min(J) \in DOMAIN blocks /\ ids[Min(J)] = ids[k]
    BY <2>2
  <2>4. \A j \in 1..(Min(J) - 1) : ids[j] # ids[Min(J)]
    <3> SUFFICES ASSUME NEW j \in 1..(Min(J) - 1), ids[j] = ids[Min(J)] PROVE FALSE
      OBVIOUS
    <3>1. j \in DOMAIN blocks /\ j < Min(J) /\ Min(J) \in Nat
      BY <1>0, <2>3
    <3>2. j \in J
      BY <3>1, <2>3
    <3> HIDE DEF J
    <3> QED BY <2>2, <3>1, <3>2
  <2>5. Min(J) \in FirstPlaces(ids)
    <3>1. Min(J) \in DOMAIN ids
      BY <2>3
    <3> HIDE DEF J, ids
    <3> QED BY <2>4, <3>1 DEF FirstPlaces
  <2>6. ids[k] = CheckId(blocks[k]) /\ ids[Min(J)] = CheckId(blocks[Min(J)])
    BY <2>3
  <2>7. Min(J) \in I
    BY <2>3, <2>5, <2>6, <1>5
  <2> HIDE DEF J, I, ids
  <2> QED BY <2>3, <2>6, <2>7
<1>6. ASSUME NEW b \in ToSet(blocks), CheckId(b) \notin DefinedIds(fs)
      PROVE  \E c \in {blocks[i] : i \in I} : CheckId(c) = CheckId(b)
  <2>1. PICK k \in DOMAIN blocks : b = blocks[k]
    BY DEF ToSet
  <2>2. PICK i \in I : CheckId(blocks[i]) = CheckId(blocks[k])
    BY <1>5, <1>6, <2>1
  <2> QED BY <2>1, <2>2
<1>7. ASSUME NEW R, Clashes(Picked(blocks, I), R)
      PROVE  \E b, c \in ToSet(blocks) : CheckId(b) # CheckId(c) /\ <<b, c>> \in R
  <2>1. PICK i, j \in I : i < j /\ <<blocks[i], blocks[j]>> \in R
    <3> HIDE DEF I
    <3> QED BY <1>2, <1>7, PickedClash
  <2>2. i \in DOMAIN blocks /\ j \in DOMAIN blocks
    BY <1>2
  <2>3. i \in 1..(j - 1) /\ j \in FirstPlaces(ids)
    BY <1>0, <2>1, <2>2
  <2>4. ids[i] # ids[j]
    <3> HIDE DEF ids
    <3> QED BY <2>3 DEF FirstPlaces
  <2> QED BY <2>1, <2>2, <2>4 DEF ToSet
<1> HIDE DEF I
<1> QED BY <1>1, <1>3, <1>4, <1>6, <1>7

\* What the wizard proposes is flat checks of its table.
LEMMA ProposedType ==
  ASSUME NEW t \in Objects, NEW metrics \in Proposals
  PROVE  /\ Proposed(t, metrics) \in Seq(FlatCheck)
         /\ \A b \in ToSet(Proposed(t, metrics)) :
              b.table = t /\ b.id = None /\ b.body = "good" /\ b.active = "unset"
<1>1. metrics \in Seq(Metrics) /\ t \in Tables /\ t # None
  BY ConfigEditsAssumption, ConfigAssumption
<1>2. DOMAIN metrics = 1..Len(metrics) /\ Len(metrics) \in Nat
      /\ \A i \in DOMAIN metrics : metrics[i] \in Metrics
  BY <1>1
<1>3. \A i \in DOMAIN metrics :
        [table |-> t, metric |-> metrics[i], id |-> None,
         active |-> "unset", arg |-> None, body |-> "good"] \in FlatCheck
  BY <1>1, <1>2 DEF FlatCheck, Block, Activity, Bodies
<1> QED BY <1>2, <1>3 DEF Proposed, ToSet

\* The printed block of new checks is entries.
LEMMA AddedGroup ==
  ASSUME NEW new \in Seq(FlatCheck)
  PROVE  GroupChecksByTable(new, <<>>, {}, <<>>) \in Seq(Entry)
<1>1. DOMAIN <<>> = {} /\ <<>> \in Seq(Tables)
  OBVIOUS
<1>2. OnOff(<<>>)
  BY <1>1 DEF OnOff
<1> QED BY <1>1, <1>2, GroupType

\* The root is one of the files.
LEMMA RootIsFile == Root \in Files
<1>1. LoadOrder \in Seq(Files) /\ LoadOrder # <<>>
  BY ConfigAssumption
<1>2. 1 \in DOMAIN LoadOrder
  BY <1>1
<1> QED BY <1>2 DEF Root, ToSet, Files

\* Two fields of a file replaced.
LEMMA FileWith ==
  ASSUME NEW x, IsFile(x), NEW c \in Seq(FlatCheck), NEW t \in Seq(Entry)
  PROVE  /\ IsFile([x EXCEPT !.checks = c])
         /\ IsFile([x EXCEPT !.tables = t])
         /\ IsFile([x EXCEPT !.checks = c, !.tables = t])
         /\ [x EXCEPT !.tables = t].checks = x.checks
         /\ [x EXCEPT !.tables = t].tables = t
         /\ [x EXCEPT !.tables = t].sets = x.sets
         /\ [x EXCEPT !.checks = c, !.tables = t].checks = c
         /\ [x EXCEPT !.checks = c, !.tables = t].tables = t
         /\ [x EXCEPT !.checks = c, !.tables = t].sets = x.sets
<1>1. x \in [checks : Seq(FlatCheck), tables : Seq(Entry), sets : {x.sets}]
  BY DEF IsFile
<1>2. x.sets \in [DOMAIN x.sets -> CheckSet] /\ DOMAIN x.sets \subseteq SetNames
  BY DEF IsFile
<1> DEFINE a == [x EXCEPT !.checks = c]
           b == [x EXCEPT !.tables = t]
           d == [x EXCEPT !.checks = c, !.tables = t]
<1>3. a \in [checks : Seq(FlatCheck), tables : Seq(Entry), sets : {x.sets}] /\ a.sets = x.sets
  BY <1>1
<1>4. b \in [checks : Seq(FlatCheck), tables : Seq(Entry), sets : {x.sets}] /\ b.sets = x.sets
  BY <1>1
<1>5. d \in [checks : Seq(FlatCheck), tables : Seq(Entry), sets : {x.sets}] /\ d.sets = x.sets
  BY <1>1
<1>6. b.checks = x.checks /\ b.tables = t /\ d.checks = c /\ d.tables = t
  BY <1>1
<1> HIDE DEF a, b, d
<1>7. IsFile(a) /\ IsFile(b) /\ IsFile(d)
  BY <1>2, <1>3, <1>4, <1>5 DEF IsFile
<1> QED BY <1>3, <1>4, <1>5, <1>6, <1>7 DEF a, b, d

\* Defining a set leaves a file a file.
LEMMA FileWithSet ==
  ASSUME NEW x, IsFile(x), NEW n \in SetNames, NEW d \in CheckSet
  PROVE  IsFile([x EXCEPT !.sets = [m \in DOMAIN @ \cup {n} |-> IF m = n THEN d ELSE @[m]]])
<1> DEFINE s == [m \in DOMAIN x.sets \cup {n} |-> IF m = n THEN d ELSE x.sets[m]]
           y == [x EXCEPT !.sets = s]
<1>1. x \in [checks : Seq(FlatCheck), tables : Seq(Entry), sets : {x.sets}]
  BY DEF IsFile
<1>2. x.sets \in [DOMAIN x.sets -> CheckSet] /\ DOMAIN x.sets \subseteq SetNames
  BY DEF IsFile
<1>3. s \in [DOMAIN s -> CheckSet] /\ DOMAIN s \subseteq SetNames
  BY <1>2
<1> HIDE DEF s
<1>4. y.sets = s /\ y \in [checks : Seq(FlatCheck), tables : Seq(Entry), sets : {s}]
  BY <1>1
<1> HIDE DEF y
<1>5. IsFile(y)
  BY <1>3, <1>4 DEF IsFile
<1> QED BY <1>5 DEF y, s

\* An edit that leaves a file keeps the files well-typed.
LEMMA EditType ==
  ASSUME TypeOK, NEW f \in Files, NEW y, IsFile(y), Edit(f, y)
  PROVE  TypeOK'
<1>1. files' = [files EXCEPT ![f] = y] /\ files = [g \in Files |-> files[g]]
  BY DEF TypeOK, Edit
<1>2. files' = [g \in Files |-> IF g = f THEN y ELSE files[g]]
  BY <1>1
<1>3. files' = [g \in Files |-> files'[g]] /\ \A g \in Files : IsFile(files'[g])
  BY <1>2 DEF TypeOK
<1>5. edits' \in 0..MaxEdits
  BY ConfigEditsAssumption DEF TypeOK, Edit
<1> QED BY <1>3, <1>5 DEF TypeOK

\* The files hold what files can hold, whatever is edited, added or migrated
\* (config.py, cli.py).
THEOREM TypeCorrect == Spec => []TypeOK
<1>1. Init => TypeOK
  <2> SUFFICES ASSUME Init PROVE TypeOK
    OBVIOUS
  <2>1. IsFile([checks |-> <<>>, tables |-> <<>>, sets |-> <<>>])
    <3>1. <<>> \in Seq(FlatCheck) /\ <<>> \in Seq(Entry)
      OBVIOUS
    <3>2. <<>> \in [DOMAIN <<>> -> CheckSet] /\ DOMAIN <<>> \subseteq SetNames
      OBVIOUS
    <3> QED BY <3>1, <3>2 DEF IsFile
  <2>2. edits \in 0..MaxEdits
    BY ConfigEditsAssumption DEF Init
  <2> QED BY <2>1, <2>2 DEF Init, TypeOK
<1>2. TypeOK /\ [Next]_vars => TypeOK'
  <2> SUFFICES ASSUME TypeOK, [Next]_vars PROVE TypeOK'
    OBVIOUS
  <2>1. CASE UNCHANGED vars
    BY <2>1 DEF vars, TypeOK
  <2>2. CASE Next
    <3> PICK f \in Files : \/ WriteCheck(f) \/ WriteEntry(f) \/ DefineSet(f)
                           \/ AddChecks(f)
                           \/ Migrate(f, "checks") \/ Migrate(f, "tables")
      BY <2>2 DEF Next
    <3>0. IsFile(files[f])
      BY DEF TypeOK
    <3>f. files[f].checks \in Seq(FlatCheck) /\ files[f].tables \in Seq(Entry)
      BY <3>0, FileFields
    <3>1. CASE WriteCheck(f)
      <4>1. PICK b \in CheckForms : Edit(f, [files[f] EXCEPT !.checks = Append(@, b)])
        BY <3>1 DEF WriteCheck
      <4>2. b \in FlatCheck
        BY ConfigEditsAssumption
      <4>3. Append(files[f].checks, b) \in Seq(FlatCheck)
        BY <3>f, <4>2
      <4>4. IsFile([files[f] EXCEPT !.checks = Append(files[f].checks, b)])
        BY <3>0, <3>f, <4>3, FileWith
      <4> QED BY <4>1, <4>4, EditType
    <3>2. CASE WriteEntry(f)
      <4>1. PICK e \in EntryForms : Edit(f, [files[f] EXCEPT !.tables = Append(@, e)])
        BY <3>2 DEF WriteEntry
      <4>2. e \in Entry
        BY ConfigEditsAssumption
      <4>3. Append(files[f].tables, e) \in Seq(Entry)
        BY <3>f, <4>2
      <4>4. IsFile([files[f] EXCEPT !.tables = Append(files[f].tables, e)])
        BY <3>0, <3>f, <4>3, FileWith
      <4> QED BY <4>1, <4>4, EditType
    <3>3. CASE DefineSet(f)
      <4>1. PICK n \in SetNames, d \in SetForms :
              Edit(f, [files[f] EXCEPT !.sets =
                         [m \in DOMAIN @ \cup {n} |-> IF m = n THEN d ELSE @[m]]])
        BY <3>3 DEF DefineSet
      <4>2. d \in CheckSet
        BY ConfigEditsAssumption
      <4> DEFINE y == [files[f] EXCEPT !.sets =
                         [m \in DOMAIN @ \cup {n} |-> IF m = n THEN d ELSE @[m]]]
      <4>3. IsFile(y)
        BY <3>0, <4>2, FileWithSet
      <4>4. Edit(f, y)
        BY <4>1
      <4> HIDE DEF y
      <4> QED BY <4>3, <4>4, EditType
    <3>4. CASE AddChecks(f)
      <4>1. PICK t \in Objects, metrics \in Proposals :
              Edit(f, Pasted(f, PartitionNewChecks(files, Proposed(t, metrics)))[f])
        BY <3>4 DEF AddChecks
      <4> DEFINE new == PartitionNewChecks(files, Proposed(t, metrics))
                 g == GroupChecksByTable(new, <<>>, {}, <<>>)
      <4>2. new \in Seq(FlatCheck)
        BY ProposedType, PartitionFacts
      <4>3. g \in Seq(Entry)
        <5> HIDE DEF new
        <5> QED BY <4>2, AddedGroup
      <4>4. Pasted(f, new)[f] = [files[f] EXCEPT !.tables = files[f].tables \o g]
        BY DEF Pasted, TypeOK
      <4> HIDE DEF g
      <4>5. files[f].tables \o g \in Seq(Entry)
        BY <3>f, <4>3
      <4>6. IsFile(Pasted(f, new)[f])
        <5> DEFINE u == files[f].tables \o g
        <5> HIDE DEF u
        <5>1. IsFile([files[f] EXCEPT !.tables = u])
          BY <3>0, <3>f, <4>5, FileWith DEF u
        <5> QED BY <4>4, <5>1 DEF u
      <4> QED BY <4>1, <4>6, EditType
    <3>5. ASSUME NEW first, Migrate(f, first) PROVE TypeOK'
      <4>1. MigratedTables(files[f], first) \in Seq(Entry)
        BY <3>0, <3>5, MigrateTypes DEF Migrate
      <4> DEFINE y == [files[f] EXCEPT !.checks = <<>>, !.tables = MigratedTables(files[f], first)]
      <4>2. IsFile(y)
        <5> DEFINE u == MigratedTables(files[f], first)
        <5>1. <<>> \in Seq(FlatCheck) /\ u \in Seq(Entry)
          BY <4>1
        <5> HIDE DEF u
        <5>2. IsFile([files[f] EXCEPT !.checks = <<>>, !.tables = u])
          BY <3>0, <5>1, FileWith
        <5> QED BY <5>2 DEF u
      <4>3. files' = [files EXCEPT ![f].checks = <<>>, ![f].tables = MigratedTables(files[f], first)]
            /\ edits' = edits
        BY <3>5 DEF Migrate, Migrated
      <4>4. files = [g \in Files |-> files[g]]
        BY DEF TypeOK
      <4>5. files' = [g \in Files |-> IF g = f THEN y ELSE files[g]]
        BY <4>3, <4>4
      <4> HIDE DEF y
      <4> QED BY <4>2, <4>3, <4>5 DEF TypeOK
    <3> QED BY <3>1, <3>2, <3>3, <3>4, <3>5
  <2> QED BY <2>1, <2>2
<1> QED BY <1>1, <1>2, PTL DEF Spec

\* The composed checks are well-typed.
LEMMA ComposeType ==
  ASSUME NEW fs, FilesOK(fs), NEW U, NEW o \in Seq(Files)
  PROVE  Compose(fs, U, o).raw \in Seq(FlatCheck)
<1> DEFINE r == Read(fs, U)
           sets == ComposedSets(r, o)
<1>1. FilesOK(r)
  BY ReadFiles
<1>2. SetsOK(sets)
  <2> HIDE DEF r
  <2> QED BY <1>1, ComposedSetsType
<1>3. RawChecks(r, o, sets) \in Seq(FlatCheck)
  <2> HIDE DEF r, sets
  <2> QED BY <1>1, <1>2, RawChecksType
<1>4. Compose(fs, U, o).raw = RawChecks(r, o, sets)
  BY DEF Compose, Read
<1> QED BY <1>3, <1>4

\* When a load succeeds.
LEMMA LoadedWhen ==
  ASSUME NEW fs, NEW U, NEW o, NEW tolerant \in BOOLEAN,
         NEW c, c = Compose(fs, U, o), c.raw \in Seq(FlatCheck)
  PROVE  LoadOutcome(fs, U, o, tolerant) = "loaded" <=>
           /\ tolerant \/ Missing(fs, U) = {}
           /\ c.problems = {}
           /\ Unbuilt(c.raw) = {}
           /\ ValidateChecks(c.raw) = {}
           /\ MetaSourceProblems(c.tables, c.raw) = {}
<1>1. ASSUME Unbuilt(c.raw) # {}
      PROVE  BuildFailure(c.raw[Min(Unbuilt(c.raw))]) # "loaded"
  <2>1. Unbuilt(c.raw) \subseteq Nat
    BY DEF Unbuilt
  <2>2. Min(Unbuilt(c.raw)) \in Unbuilt(c.raw)
    BY <1>1, <2>1, MinIsLeast
  <2> QED BY <2>2 DEF Unbuilt
<1>2. ValidateChecks(c.raw) \cup MetaSourceProblems(c.tables, c.raw) = {} <=>
        ValidateChecks(c.raw) = {} /\ MetaSourceProblems(c.tables, c.raw) = {}
  OBVIOUS
<1>3. LoadOutcome(fs, U, o, tolerant) =
        IF (Missing(fs, U) # {} /\ ~tolerant) \/ c.problems # {} THEN "ConfigError"
        ELSE IF Unbuilt(c.raw) # {} THEN BuildFailure(c.raw[Min(Unbuilt(c.raw))])
        ELSE IF ValidateChecks(c.raw) \cup MetaSourceProblems(c.tables, c.raw) # {}
             THEN "ConfigError"
        ELSE "loaded"
  BY DEF LoadOutcome
<1> QED BY <1>1, <1>2, <1>3

\* When a validation has no problem to report.
LEMMA ValidatedWhen ==
  ASSUME NEW fs, NEW U, NEW c, c = Compose(fs, U, LoadOrder), c.raw \in Seq(FlatCheck), NEW m
  PROVE  ValidateOutcome(fs, U) = [end |-> "validated", missing |-> m, problems |-> {}] <=>
           /\ m = Missing(fs, U)
           /\ c.problems = {}
           /\ Unbuilt(c.raw) = {}
           /\ ValidateChecks(c.raw) = {}
           /\ MetaSourceProblems(c.tables, c.raw) = {}
<1> DEFINE built == Where(c.raw, {b \in ToSet(c.raw) : BuildFailure(b) = "loaded"})
           raised == \E b \in ToSet(c.raw) : BuildFailure(b) = "AttributeError"
           all == c.problems \cup BuildProblems(c.raw)
                  \cup ValidateChecks(built) \cup MetaSourceProblems(c.tables, c.raw)
<1>1. ValidateOutcome(fs, U) =
        IF raised THEN [end |-> "AttributeError", missing |-> {}, problems |-> {}]
        ELSE [end |-> "validated", missing |-> Missing(fs, U), problems |-> all]
  BY DEF ValidateOutcome
<1>2. BuildProblems(c.raw) = {} <=> Unbuilt(c.raw) = {}
  BY DEF BuildProblems
<1>3. Unbuilt(c.raw) = {} <=> \A b \in ToSet(c.raw) : BuildFailure(b) = "loaded"
  BY DEF Unbuilt, ToSet
<1>4. Unbuilt(c.raw) = {} => ~raised
  BY <1>3
<1>5. Unbuilt(c.raw) = {} => built = c.raw
  <2> SUFFICES ASSUME Unbuilt(c.raw) = {} PROVE built = c.raw
    OBVIOUS
  <2>1. ToSet(c.raw) \subseteq {b \in ToSet(c.raw) : BuildFailure(b) = "loaded"}
    BY <1>3
  <2> QED BY <2>1, WhereAll
<1>6. all = {} <=> /\ c.problems = {} /\ BuildProblems(c.raw) = {}
                   /\ ValidateChecks(built) = {} /\ MetaSourceProblems(c.tables, c.raw) = {}
  OBVIOUS
<1> HIDE DEF raised, all, built
<1>7. [end |-> "validated", missing |-> Missing(fs, U), problems |-> all]
        = [end |-> "validated", missing |-> m, problems |-> {}] <=>
        m = Missing(fs, U) /\ all = {}
  OBVIOUS
<1>8. [end |-> "AttributeError", missing |-> {}, problems |-> {}]
        # [end |-> "validated", missing |-> m, problems |-> {}]
  OBVIOUS
<1> QED BY <1>1, <1>2, <1>4, <1>5, <1>6, <1>7, <1>8

\* The load order is a sequence of files.
LEMMA LoadOrderType == LoadOrder \in Seq(Files)
BY ConfigAssumption

\* Whatever the files hold, a load ends as validation says.
LEMMA ForeseenWhenTyped == ASSUME TypeOK PROVE ValidateForeseesLoad
<1> SUFFICES ASSUME NEW undefined
             PROVE  LET v == ValidateOutcome(files, undefined)
                    IN  /\ LoadOutcome(files, undefined, LoadOrder, FALSE) = "loaded" <=>
                             v = [end |-> "validated", missing |-> {}, problems |-> {}]
                        /\ LoadOutcome(files, undefined, LoadOrder, TRUE) = "loaded" <=>
                             v = [end |-> "validated", missing |-> Missing(files, undefined),
                                  problems |-> {}]
  BY DEF ValidateForeseesLoad
<1> DEFINE c == Compose(files, undefined, LoadOrder)
<1>1. FilesOK(files)
  BY DEF TypeOK, FilesOK
<1>2. c.raw \in Seq(FlatCheck)
  BY <1>1, LoadOrderType, ComposeType
<1>3. c = Compose(files, undefined, LoadOrder)
  OBVIOUS
<1> HIDE DEF c
<1> DEFINE fine == /\ c.problems = {}
                   /\ Unbuilt(c.raw) = {}
                   /\ ValidateChecks(c.raw) = {}
                   /\ MetaSourceProblems(c.tables, c.raw) = {}
<1>4. LoadOutcome(files, undefined, LoadOrder, FALSE) = "loaded" <=>
        Missing(files, undefined) = {} /\ fine
  BY <1>2, <1>3, LoadedWhen
<1>5. LoadOutcome(files, undefined, LoadOrder, TRUE) = "loaded" <=> fine
  BY <1>2, <1>3, LoadedWhen
<1>6. ValidateOutcome(files, undefined) =
        [end |-> "validated", missing |-> {}, problems |-> {}] <=>
        Missing(files, undefined) = {} /\ fine
  <2>1. ValidateOutcome(files, undefined) =
        [end |-> "validated", missing |-> {}, problems |-> {}] <=>
        {} = Missing(files, undefined) /\ fine
    BY <1>2, <1>3, ValidatedWhen
  <2> QED BY <2>1
<1>7. ValidateOutcome(files, undefined) =
        [end |-> "validated", missing |-> Missing(files, undefined), problems |-> {}] <=> fine
  BY <1>2, <1>3, ValidatedWhen
<1> HIDE DEF fine
<1> QED BY <1>4, <1>5, <1>6, <1>7

\* config validate finds no problem exactly when a load succeeds, with every
\* variable set or with some missing (validate_config against load_config and
\* load_config_tolerant).
THEOREM ValidationForeseesLoad == Spec => []ValidateForeseesLoad
<1>1. TypeOK => ValidateForeseesLoad
  BY ForeseenWhenTyped
<1> QED BY <1>1, TypeCorrect, PTL

-----------------------------------------------------------------------------
(* What loading depends on, whatever the order of the files.               *)

\* An order in which all files are read, each once.
Ordering(o) ==
  /\ o \in Seq(Files)
  /\ ToSet(o) = Files
  /\ \A i, j \in DOMAIN o : o[i] = o[j] => i = j

\* The load order is such an order.
LEMMA LoadOrderIsOrdering == Ordering(LoadOrder)
BY ConfigAssumption DEF Ordering, Files, IsInjective

\* So is every other order of the included files.
LEMMA OrdersAreOrderings == ASSUME NEW o \in Orders PROVE Ordering(o)
<1> DEFINE n == Len(LoadOrder)
<1>1. n \in Nat /\ DOMAIN LoadOrder = 1..n /\ LoadOrder \in [1..n -> Files]
  BY LoadOrderType
<1>2. IsInjective(LoadOrder) /\ ToSet(LoadOrder) = Files
  BY ConfigAssumption DEF Files
<1>3. o \in [1..n -> Files] /\ IsInjective(o)
  BY <1>1 DEF Orders
<1> HIDE DEF n
<1>4. LoadOrder \in Bijection(1..n, Files)
  BY <1>1, <1>2 DEF Bijection, Injection, Surjection, ToSet
<1>5. IsFiniteSet(1..n) /\ Cardinality(1..n) = n
  BY <1>1, FS_Interval
<1>6. ExistsBijection(1..n, Files)
  BY <1>4 DEF ExistsBijection
<1>7. IsFiniteSet(Files) /\ Cardinality(Files) = Cardinality(1..n)
  BY <1>5, <1>6, FS_Bijection
<1>8. o \in Injection(1..n, Files)
  BY <1>3 DEF Injection
<1>9. o \in Surjection(1..n, Files)
  BY <1>7, <1>8, FS_Injection
<1>10. ToSet(o) = Files
  BY <1>3, <1>9 DEF Surjection, ToSet
<1>11. o \in Seq(Files)
  BY <1>1, <1>3
<1> QED BY <1>3, <1>10, <1>11 DEF Ordering, IsInjective

\* An order has a place for each file, and two files have two places.
LEMMA Places ==
  ASSUME NEW o, Ordering(o)
  PROVE  /\ DOMAIN o \subseteq Nat
         /\ \A i \in DOMAIN o : o[i] \in Files
         /\ \A f \in Files : \E i \in DOMAIN o : o[i] = f
         /\ \A f, g \in Files : f # g =>
              \E i, j \in DOMAIN o : i < j /\ <<o[i], o[j]>> \in {<<f, g>>, <<g, f>>}
<1>1. /\ DOMAIN o \subseteq Nat
      /\ \A i \in DOMAIN o : o[i] \in Files
      /\ \A f \in Files : \E i \in DOMAIN o : o[i] = f
  BY DEF Ordering, ToSet
<1>2. ASSUME NEW f \in Files, NEW g \in Files, f # g
      PROVE  \E i, j \in DOMAIN o : i < j /\ <<o[i], o[j]>> \in {<<f, g>>, <<g, f>>}
  <2>1. PICK i \in DOMAIN o : o[i] = f
    BY <1>1
  <2>2. PICK j \in DOMAIN o : o[j] = g
    BY <1>1
  <2>3. i # j /\ i \in Nat /\ j \in Nat
    BY <1>1, <1>2, <2>1, <2>2
  <2>4. i < j \/ j < i
    BY <2>3
  <2> QED BY <2>1, <2>2, <2>4
<1> QED BY <1>1, <1>2

\* No element of S is related to one of T.
Unrelated(S, T, R) == \A x \in S, y \in T : <<x, y>> \notin R

\* A relation that does not look at the order.
Symmetric(R) == \A x, y : <<x, y>> \in R => <<y, x>> \in R

\* Sequences per file, put together in order, clash within one file or between two.
LEMMA AcrossFiles ==
  ASSUME NEW o, Ordering(o), NEW R, Symmetric(R), NEW p
  PROVE  (\E i, j \in DOMAIN o : /\ i < j
                                 /\ \E x \in ToSet(p[o[i]]), y \in ToSet(p[o[j]]) :
                                      <<x, y>> \in R)
         <=> \E f, g \in Files : f # g /\ ~Unrelated(ToSet(p[f]), ToSet(p[g]), R)
<1>1. ASSUME NEW i \in DOMAIN o, NEW j \in DOMAIN o, i < j,
             NEW x \in ToSet(p[o[i]]), NEW y \in ToSet(p[o[j]]), <<x, y>> \in R
      PROVE  \E f, g \in Files : f # g /\ ~Unrelated(ToSet(p[f]), ToSet(p[g]), R)
  <2>1. i # j
    BY <1>1, Places
  <2>2. o[i] # o[j] /\ o[i] \in Files /\ o[j] \in Files
    BY <2>1, Places DEF Ordering
  <2> QED BY <1>1, <2>2 DEF Unrelated
<1>2. ASSUME NEW f \in Files, NEW g \in Files, f # g, ~Unrelated(ToSet(p[f]), ToSet(p[g]), R)
      PROVE  \E i, j \in DOMAIN o : /\ i < j
                                    /\ \E x \in ToSet(p[o[i]]), y \in ToSet(p[o[j]]) :
                                         <<x, y>> \in R
  <2>1. PICK x \in ToSet(p[f]), y \in ToSet(p[g]) : <<x, y>> \in R
    BY <1>2 DEF Unrelated
  <2>2. <<y, x>> \in R
    BY <2>1 DEF Symmetric
  <2>3. PICK i, j \in DOMAIN o : i < j /\ <<o[i], o[j]>> \in {<<f, g>>, <<g, f>>}
    BY <1>2, Places
  <2> QED BY <2>1, <2>2, <2>3
<1> QED BY <1>1, <1>2

-----------------------------------------------------------------------------
(* check_sets:                                                             *)

\* Every set is well-formed and defined in one file.
SetsOnce(fs) ==
  /\ \A f \in Files : \A n \in DOMAIN fs[f].sets : fs[f].sets[n].ok
  /\ \A f, g \in Files : \A n \in SetNames :
       n \in DOMAIN fs[f].sets /\ n \in DOMAIN fs[g].sets => f = g

\* SetProblems finds none exactly when every set is well formed and defined once.
LEMMA SetProblemsOrNone ==
  ASSUME NEW fs, FilesOK(fs), NEW o, Ordering(o)
  PROVE  SetProblems(fs, o) = {} <=> SetsOnce(fs)
<1>1. SetProblems(fs, o) = {} <=>
        /\ \A m \in SetNames : \A f \in Files : m \in DOMAIN fs[f].sets => fs[f].sets[m].ok
        /\ \A m \in SetNames : ~(Cardinality(Definers(fs, o, m)) > 1)
  BY DEF SetProblems
<1>2. \A f \in Files : DOMAIN fs[f].sets \subseteq SetNames
  BY FileFields DEF FilesOK, SetsOK
<1>3. ASSUME NEW m \in SetNames,
             \A f \in Files : m \in DOMAIN fs[f].sets => fs[f].sets[m].ok
      PROVE  ~(Cardinality(Definers(fs, o, m)) > 1) <=>
               \A f, g \in Files : m \in DOMAIN fs[f].sets /\ m \in DOMAIN fs[g].sets => f = g
  <2> DEFINE D == Definers(fs, o, m)
  <2>1. \A i : i \in D <=> i \in DOMAIN o /\ m \in DOMAIN fs[o[i]].sets
    BY <1>3, Places DEF Definers
  <2>2. IsFiniteSet(D)
    <3>1. DOMAIN o = 1..Len(o) /\ Len(o) \in Nat
      BY DEF Ordering
    <3>2. IsFiniteSet(DOMAIN o) /\ D \subseteq DOMAIN o
      BY <3>1, FS_Interval DEF Definers
    <3> HIDE DEF D
    <3> QED BY <3>2, FS_Subset
  <2> HIDE DEF D
  <2>3. Cardinality(D) \in Nat /\ (Cardinality(D) = 0 <=> D = {})
        /\ (Cardinality(D) = 1 <=> \E x : D = {x})
    BY <2>2, FS_CardinalityType, FS_EmptySet, FS_Singleton
  <2>4. ~(Cardinality(D) > 1) <=> \A i, j \in D : i = j
    <3>1. ~(Cardinality(D) > 1) <=> D = {} \/ \E x : D = {x}
      BY <2>3
    <3> QED BY <3>1
  <2>5. (\A i, j \in D : i = j) <=>
          \A f, g \in Files : m \in DOMAIN fs[f].sets /\ m \in DOMAIN fs[g].sets => f = g
    <3>1. ASSUME \A i, j \in D : i = j,
                 NEW f \in Files, NEW g \in Files, m \in DOMAIN fs[f].sets, m \in DOMAIN fs[g].sets
          PROVE  f = g
      <4>1. PICK i \in DOMAIN o : o[i] = f
        BY Places
      <4>2. PICK j \in DOMAIN o : o[j] = g
        BY Places
      <4> QED BY <2>1, <3>1, <4>1, <4>2
    <3>2. ASSUME \A f, g \in Files : m \in DOMAIN fs[f].sets /\ m \in DOMAIN fs[g].sets => f = g,
                 NEW i \in D, NEW j \in D
          PROVE  i = j
      <4>1. i \in DOMAIN o /\ j \in DOMAIN o /\ o[i] \in Files /\ o[j] \in Files
        BY <2>1, Places
      <4>2. o[i] = o[j]
        BY <2>1, <3>2, <4>1
      <4> QED BY <4>1, <4>2 DEF Ordering
    <3> QED BY <3>1, <3>2
  <2> QED BY <2>4, <2>5 DEF D
<1> QED BY <1>1, <1>2, <1>3 DEF SetsOnce

\* The sets of all files, where each is defined once.
SetsOfAll(fs, sets) ==
  /\ sets = [n \in DOMAIN sets |-> sets[n]]
  /\ \A n : n \in DOMAIN sets <=> \E f \in Files : n \in DOMAIN fs[f].sets
  /\ \A f \in Files : \A n \in DOMAIN fs[f].sets : sets[n] = fs[f].sets[n]

\* Sets defined once are composed alike in any order.
LEMMA ComposedOnce ==
  ASSUME NEW fs, FilesOK(fs), NEW o, Ordering(o), SetsOnce(fs)
  PROVE  SetsOfAll(fs, ComposedSets(fs, o))
<1>1. \A f \in Files : DOMAIN fs[f].sets \subseteq SetNames
  BY FileFields DEF FilesOK, SetsOK
<1>2. \A n \in SetNames : \A i : i \in Definers(fs, o, n) <=>
                               i \in DOMAIN o /\ n \in DOMAIN fs[o[i]].sets
  BY Places DEF Definers, SetsOnce
<1> DEFINE S == {m \in SetNames : Definers(fs, o, m) # {}}
           sets == [n \in S |-> fs[o[Min(Definers(fs, o, n))]].sets[n]]
<1>3. ComposedSets(fs, o) = sets
  BY DEF ComposedSets
<1>4. \A n : n \in S <=> \E f \in Files : n \in DOMAIN fs[f].sets
  <2> TAKE n
  <2>1. n \in S => \E f \in Files : n \in DOMAIN fs[f].sets
    BY <1>2, Places
  <2>2. ASSUME NEW f \in Files, n \in DOMAIN fs[f].sets PROVE n \in S
    <3>1. PICK i \in DOMAIN o : o[i] = f
      BY Places
    <3> QED BY <1>1, <1>2, <2>2, <3>1
  <2> QED BY <2>1, <2>2
<1>5. ASSUME NEW f \in Files, NEW n \in DOMAIN fs[f].sets
      PROVE  n \in S /\ sets[n] = fs[f].sets[n]
  <2>1. n \in SetNames /\ n \in S
    BY <1>1, <1>4
  <2> DEFINE i == Min(Definers(fs, o, n))
  <2>2. i \in Definers(fs, o, n)
    <3>1. Definers(fs, o, n) \subseteq Nat /\ Definers(fs, o, n) # {}
      BY <2>1, Places DEF Definers
    <3> QED BY <3>1, MinIsLeast
  <2> HIDE DEF i
  <2>3. i \in DOMAIN o /\ n \in DOMAIN fs[o[i]].sets /\ o[i] \in Files
    BY <1>2, <2>1, <2>2, Places
  <2>4. o[i] = f
    BY <2>1, <2>3 DEF SetsOnce
  <2>5. sets[n] = fs[o[i]].sets[n]
    BY <2>1 DEF i
  <2> QED BY <2>1, <2>4, <2>5
<1>6. DOMAIN sets = S /\ sets = [n \in S |-> sets[n]]
  OBVIOUS
<1> HIDE DEF S, sets
<1> QED BY <1>3, <1>4, <1>5, <1>6 DEF SetsOfAll

\* There is one such composition.
LEMMA SetsOfAllUnique ==
  ASSUME NEW fs, NEW s, NEW t, SetsOfAll(fs, s), SetsOfAll(fs, t)
  PROVE  s = t
<1>1. DOMAIN s = DOMAIN t
  BY DEF SetsOfAll
<1>2. \A n \in DOMAIN s : s[n] = t[n]
  BY DEF SetsOfAll
<1>3. s = [n \in DOMAIN s |-> s[n]] /\ t = [n \in DOMAIN t |-> t[n]]
  BY DEF SetsOfAll
<1> QED BY <1>1, <1>2, <1>3

-----------------------------------------------------------------------------
(* When a configuration loads, and what it means, whatever the order.      *)

\* An entry that describes a table.
Describes(e) == e.table # None /\ e.about # None

\* Entries describing one table; checks under one id.
SameTable == {p \in Entry \X Entry :
                Describes(p[1]) /\ Describes(p[2]) /\ p[1].table = p[2].table}
SameId == {p \in FlatCheck \X FlatCheck : CheckId(p[1]) = CheckId(p[2])}

\* What these relations say.
LEMMA Related ==
  /\ \A x, y : <<x, y>> \in SameTable <=> /\ x \in Entry /\ y \in Entry
                                          /\ Describes(x) /\ Describes(y) /\ x.table = y.table
  /\ \A x, y : <<x, y>> \in SameId <=> /\ x \in FlatCheck /\ y \in FlatCheck
                                       /\ CheckId(x) = CheckId(y)
  /\ Symmetric(SameTable) /\ Symmetric(SameId)
<1>1. \A x, y : <<x, y>> \in SameTable <=> /\ x \in Entry /\ y \in Entry
                                           /\ Describes(x) /\ Describes(y) /\ x.table = y.table
  BY DEF SameTable
<1>2. \A x, y : <<x, y>> \in SameId <=> /\ x \in FlatCheck /\ y \in FlatCheck
                                        /\ CheckId(x) = CheckId(y)
  BY DEF SameId
<1>3. Symmetric(SameTable)
  BY <1>1 DEF Symmetric
<1>4. Symmetric(SameId)
  BY <1>2 DEF Symmetric
<1> QED BY <1>1, <1>2, <1>3, <1>4

\* What makes the files load, given the sets of all files.
Sound(fs, sets) ==
  /\ \A f \in Files : \A e \in ToSet(fs[f].tables) :
       EntryProblems(e, sets) = {} /\ (Describes(e) => e.table \notin Unconfigured)
  /\ \A f \in Files : \A b \in ToSet(Portion(fs[f], sets)) :
       b.body = "good" /\ b.table \notin Unconfigured
  /\ \A f \in Files : ~Clashes(fs[f].tables, SameTable)
  /\ \A f \in Files : ~Clashes(Portion(fs[f], sets), SameId)
  /\ \A f, g \in Files : f # g =>
       Unrelated(ToSet(fs[f].tables), ToSet(fs[g].tables), SameTable)
  /\ \A f, g \in Files : f # g =>
       Unrelated(ToSet(Portion(fs[f], sets)), ToSet(Portion(fs[g], sets)), SameId)

\* MetaProblems finds none exactly when no table is described twice.
LEMMA MetaProblemsOrNone ==
  ASSUME NEW tables \in Seq(Entry)
  PROVE  MetaProblems(tables) = {} <=> ~Clashes(tables, SameTable)
<1>0. Len(tables) \in Nat /\ DOMAIN tables = 1..Len(tables) /\ \A i \in DOMAIN tables : tables[i] \in Entry
  OBVIOUS
<1>1. \A i : i \in Described(tables) <=> i \in DOMAIN tables /\ Describes(tables[i])
  BY DEF Described, Describes
<1>2. MetaProblems(tables) = {} <=>
        \A i, j \in Described(tables) : i # j => tables[i].table # tables[j].table
  <2>1. MetaProblems(tables) = {} <=> \A q \in Described(tables) \X Described(tables) :
                                        ~(q[1] # q[2] /\ tables[q[1]].table = tables[q[2]].table)
    BY DEF MetaProblems
  <2>2. (\A q \in Described(tables) \X Described(tables) :
           ~(q[1] # q[2] /\ tables[q[1]].table = tables[q[2]].table))
        <=> \A i, j \in Described(tables) : i # j => tables[i].table # tables[j].table
    <3> DEFINE D == Described(tables)
               B(i, j) == i # j /\ tables[i].table = tables[j].table
    <3> HIDE DEF D, B
    <3>1. (\A q \in D \X D : ~B(q[1], q[2])) => \A i, j \in D : ~B(i, j)
      <4> SUFFICES ASSUME \A q \in D \X D : ~B(q[1], q[2]), NEW i \in D, NEW j \in D
                   PROVE  ~B(i, j)
        OBVIOUS
      <4>1. <<i, j>> \in D \X D /\ <<i, j>>[1] = i /\ <<i, j>>[2] = j
        OBVIOUS
      <4>2. ~B(<<i, j>>[1], <<i, j>>[2])
        BY <4>1
      <4> QED BY <4>1, <4>2
    <3>2. (\A i, j \in D : ~B(i, j)) => \A q \in D \X D : ~B(q[1], q[2])
      <4>1. \A q \in D \X D : q[1] \in D /\ q[2] \in D
        OBVIOUS
      <4> QED BY <4>1
    <3> QED BY <3>1, <3>2 DEF B, D
  <2> QED BY <2>1, <2>2
<1>3. Clashes(tables, SameTable) <=>
        \E i, j \in DOMAIN tables : /\ i < j /\ Describes(tables[i]) /\ Describes(tables[j])
                                    /\ tables[i].table = tables[j].table
  <2>1. Clashes(tables, SameTable) <=>
          \E i, j \in DOMAIN tables : i < j /\ <<tables[i], tables[j]>> \in SameTable
    BY DEF Clashes
  <2>2. \A i, j \in DOMAIN tables : <<tables[i], tables[j]>> \in SameTable <=>
           /\ Describes(tables[i]) /\ Describes(tables[j])
           /\ tables[i].table = tables[j].table
    BY <1>0, Related
  <2> QED BY <2>1, <2>2
<1>4. \A i, j \in DOMAIN tables : i # j <=> i < j \/ j < i
  BY <1>0
<1> QED BY <1>1, <1>2, <1>3, <1>4

\* Checks build and validate exactly when each does, under ids of their own.
LEMMA ChecksValidOrNot ==
  ASSUME NEW raw \in Seq(FlatCheck)
  PROVE  Unbuilt(raw) = {} /\ ValidateChecks(raw) = {} <=>
           /\ \A b \in ToSet(raw) : b.body = "good" /\ b.table \notin Unconfigured
           /\ ~Clashes(raw, SameId)
<1>0. Len(raw) \in Nat /\ DOMAIN raw = 1..Len(raw) /\ \A i \in DOMAIN raw : raw[i] \in FlatCheck
  OBVIOUS
<1>1. Unbuilt(raw) = {} <=> \A b \in ToSet(raw) : BuildFailure(b) = "loaded"
  BY DEF Unbuilt, ToSet
<1>2. \A b \in ToSet(raw) : b \in FlatCheck
  BY <1>0 DEF ToSet
<1>3. ASSUME NEW b \in ToSet(raw)
      PROVE  BuildFailure(b) = "loaded" /\ b.body # "rejected" <=> b.body = "good"
  BY <1>2, FlatCheckFields DEF Bodies, BuildFailure
<1>4. ValidateChecks(raw) = {} <=>
        /\ \A b \in ToSet(raw) : b.body # "rejected"
        /\ \A b \in ToSet(raw) : b.table \notin Unconfigured
        /\ \A q \in (DOMAIN raw) \X (DOMAIN raw) :
             ~(q[1] < q[2] /\ CheckId(raw[q[1]]) = CheckId(raw[q[2]]))
  BY DEF ValidateChecks
<1>5. (\A q \in (DOMAIN raw) \X (DOMAIN raw) :
         ~(q[1] < q[2] /\ CheckId(raw[q[1]]) = CheckId(raw[q[2]])))
      <=> \A i, j \in DOMAIN raw : ~(i < j /\ CheckId(raw[i]) = CheckId(raw[j]))
  <2> DEFINE D == DOMAIN raw
             B(i, j) == i < j /\ CheckId(raw[i]) = CheckId(raw[j])
  <2> HIDE DEF D, B
  <2>1. (\A q \in D \X D : ~B(q[1], q[2])) => \A i, j \in D : ~B(i, j)
    <3> SUFFICES ASSUME \A q \in D \X D : ~B(q[1], q[2]), NEW i \in D, NEW j \in D
                 PROVE  ~B(i, j)
      OBVIOUS
    <3>1. <<i, j>> \in D \X D /\ <<i, j>>[1] = i /\ <<i, j>>[2] = j
      OBVIOUS
    <3>2. ~B(<<i, j>>[1], <<i, j>>[2])
      BY <3>1
    <3> QED BY <3>1, <3>2
  <2>2. (\A i, j \in D : ~B(i, j)) => \A q \in D \X D : ~B(q[1], q[2])
    <3>1. \A q \in D \X D : q[1] \in D /\ q[2] \in D
      OBVIOUS
    <3> QED BY <3>1
  <2> QED BY <2>1, <2>2 DEF B, D
<1>6. Clashes(raw, SameId) <=>
        \E i, j \in DOMAIN raw : i < j /\ CheckId(raw[i]) = CheckId(raw[j])
  <2>1. \A i, j \in DOMAIN raw : <<raw[i], raw[j]>> \in SameId <=> CheckId(raw[i]) = CheckId(raw[j])
    BY <1>0, Related
  <2> QED BY <2>1 DEF Clashes
<1> QED BY <1>1, <1>3, <1>4, <1>5, <1>6

\* A described table's source is known.
LEMMA SourcesKnownOrNot ==
  ASSUME NEW raw \in Seq(FlatCheck), NEW tables \in Seq(Entry),
         \A b \in ToSet(raw) : b.table \notin Unconfigured
  PROVE  MetaSourceProblems(tables, raw) = {} <=>
           \A e \in ToSet(tables) : Describes(e) => e.table \notin Unconfigured
<1>1. \A i : i \in Described(tables) <=> i \in DOMAIN tables /\ Describes(tables[i])
  BY DEF Described, Describes
<1>2. MetaSourceProblems(tables, raw) = {} <=>
        \A i \in Described(tables) : ~(/\ tables[i].table \in Unconfigured
                                       /\ tables[i].table \notin {b.table : b \in ToSet(raw)})
  BY DEF MetaSourceProblems
<1>3. \A t : t \in {b.table : b \in ToSet(raw)} => t \notin Unconfigured
  OBVIOUS
<1> QED BY <1>1, <1>2, <1>3 DEF ToSet

\* What the files put together have, in whatever order they are read.
LEMMA Together ==
  ASSUME NEW fs, FilesOK(fs), NEW o, Ordering(o), NEW sets, SetsOK(sets)
  PROVE  /\ RawChecks(fs, o, sets) \in Seq(FlatCheck)
         /\ AllTables(fs, o) \in Seq(Entry)
         /\ ToSet(RawChecks(fs, o, sets)) = UNION {ToSet(Portion(fs[f], sets)) : f \in Files}
         /\ ToSet(AllTables(fs, o)) = UNION {ToSet(fs[f].tables) : f \in Files}
         /\ Clashes(RawChecks(fs, o, sets), SameId) <=>
              \/ \E f \in Files : Clashes(Portion(fs[f], sets), SameId)
              \/ \E f, g \in Files : f # g /\ ~Unrelated(ToSet(Portion(fs[f], sets)),
                                                     ToSet(Portion(fs[g], sets)), SameId)
         /\ Clashes(AllTables(fs, o), SameTable) <=>
              \/ \E f \in Files : Clashes(fs[f].tables, SameTable)
              \/ \E f, g \in Files : f # g /\ ~Unrelated(ToSet(fs[f].tables),
                                                     ToSet(fs[g].tables), SameTable)
<1>0. o \in Seq(Files) /\ Symmetric(SameId) /\ Symmetric(SameTable)
  BY Related DEF Ordering
<1>1. \A i \in DOMAIN o : o[i] \in Files
  BY Places
<1>2. \A f \in Files : \E i \in DOMAIN o : o[i] = f
  BY Places
<1>3. RawChecks(fs, o, sets) \in Seq(FlatCheck)
  BY <1>0, RawChecksType
<1>4. AllTables(fs, o) \in Seq(Entry)
  BY <1>0, AllTablesType
<1>5. ToSet(RawChecks(fs, o, sets)) = UNION {ToSet(Portion(fs[f], sets)) : f \in Files}
  <2>1. ToSet(RawChecks(fs, o, sets)) = UNION {ToSet(Portion(fs[o[i]], sets)) : i \in DOMAIN o}
    BY <1>0, RawChecksType
  <2> QED BY <1>1, <1>2, <2>1
<1>6. ToSet(AllTables(fs, o)) = UNION {ToSet(fs[f].tables) : f \in Files}
  <2>1. ToSet(AllTables(fs, o)) = UNION {ToSet(fs[o[i]].tables) : i \in DOMAIN o}
    BY <1>0, AllTablesType
  <2> QED BY <1>1, <1>2, <2>1
<1>7. Clashes(RawChecks(fs, o, sets), SameId) <=>
              \/ \E f \in Files : Clashes(Portion(fs[f], sets), SameId)
              \/ \E f, g \in Files : f # g /\ ~Unrelated(ToSet(Portion(fs[f], sets)),
                                                     ToSet(Portion(fs[g], sets)), SameId)
  <2> DEFINE p == [f \in Files |-> Portion(fs[f], sets)]
  <2>0. \A f \in Files : p[f] = Portion(fs[f], sets)
    OBVIOUS
  <2> HIDE DEF p
  <2>1. Clashes(RawChecks(fs, o, sets), SameId) <=>
              \/ \E i \in DOMAIN o : Clashes(Portion(fs[o[i]], sets), SameId)
              \/ \E i, j \in DOMAIN o :
                   /\ i < j
                   /\ \E x \in ToSet(Portion(fs[o[i]], sets)),
                         y \in ToSet(Portion(fs[o[j]], sets)) : <<x, y>> \in SameId
    BY <1>0, RawChecksType
  <2>2. (\E i, j \in DOMAIN o : /\ i < j
                                /\ \E x \in ToSet(p[o[i]]), y \in ToSet(p[o[j]]) :
                                     <<x, y>> \in SameId)
        <=> \E f, g \in Files : f # g /\ ~Unrelated(ToSet(p[f]), ToSet(p[g]), SameId)
    BY <1>0, AcrossFiles
  <2> QED BY <1>1, <1>2, <2>0, <2>1, <2>2
<1>8. Clashes(AllTables(fs, o), SameTable) <=>
              \/ \E f \in Files : Clashes(fs[f].tables, SameTable)
              \/ \E f, g \in Files : f # g /\ ~Unrelated(ToSet(fs[f].tables),
                                                     ToSet(fs[g].tables), SameTable)
  <2> DEFINE p == [f \in Files |-> fs[f].tables]
  <2>0. \A f \in Files : p[f] = fs[f].tables
    OBVIOUS
  <2> HIDE DEF p
  <2>1. Clashes(AllTables(fs, o), SameTable) <=>
              \/ \E i \in DOMAIN o : Clashes(fs[o[i]].tables, SameTable)
              \/ \E i, j \in DOMAIN o :
                   /\ i < j
                   /\ \E x \in ToSet(fs[o[i]].tables),
                         y \in ToSet(fs[o[j]].tables) : <<x, y>> \in SameTable
    BY <1>0, AllTablesType
  <2>2. (\E i, j \in DOMAIN o : /\ i < j
                                /\ \E x \in ToSet(p[o[i]]), y \in ToSet(p[o[j]]) :
                                     <<x, y>> \in SameTable)
        <=> \E f, g \in Files : f # g /\ ~Unrelated(ToSet(p[f]), ToSet(p[g]), SameTable)
    BY <1>0, AcrossFiles
  <2> QED BY <1>1, <1>2, <2>0, <2>1, <2>2
<1> QED BY <1>3, <1>4, <1>5, <1>6, <1>7, <1>8

\* A configuration loads when its sets are defined once and the rest is sound.
LEMMA LoadsWhenSound ==
  ASSUME NEW fs, FilesOK(fs), NEW o, Ordering(o)
  PROVE  LoadOutcome(fs, {}, o, FALSE) = "loaded" <=>
           /\ SetsOnce(Read(fs, {}))
           /\ Sound(Read(fs, {}), ComposedSets(Read(fs, {}), o))
<1> DEFINE r == Read(fs, {})
           sets == ComposedSets(r, o)
           c == Compose(fs, {}, o)
           raw == RawChecks(r, o, sets)
           tables == AllTables(r, o)
<1>0. o \in Seq(Files)
  BY DEF Ordering
<1>1. FilesOK(r)
  BY ReadFiles
<1>2. SetsOK(sets)
  <2> HIDE DEF r
  <2> QED BY <1>0, <1>1, ComposedSetsType
<1>3. /\ c.raw = raw /\ c.tables = tables
      /\ c.problems = SetProblems(r, o) \cup TableProblems(tables, sets) \cup MetaProblems(tables)
  BY DEF Compose, Read
<1>4. Missing(fs, {}) = {}
  BY DEF Missing
<1>5. c = Compose(fs, {}, o)
  OBVIOUS
<1> HIDE DEF c, r, sets
<1>6. raw \in Seq(FlatCheck) /\ tables \in Seq(Entry)
  BY <1>1, <1>2, Together
<1>7. LoadOutcome(fs, {}, o, FALSE) = "loaded" <=>
           /\ c.problems = {} /\ Unbuilt(raw) = {} /\ ValidateChecks(raw) = {}
           /\ MetaSourceProblems(tables, raw) = {}
  <2>1. c.raw \in Seq(FlatCheck)
    BY <1>3, <1>6
  <2>2. LoadOutcome(fs, {}, o, FALSE) = "loaded" <=>
           /\ FALSE \/ Missing(fs, {}) = {}
           /\ c.problems = {} /\ Unbuilt(c.raw) = {} /\ ValidateChecks(c.raw) = {}
           /\ MetaSourceProblems(c.tables, c.raw) = {}
    BY <1>5, <2>1, LoadedWhen
  <2> QED BY <1>3, <1>4, <2>2
<1>8. SetProblems(r, o) = {} <=> SetsOnce(r)
  BY <1>1, SetProblemsOrNone
<1>9. TableProblems(tables, sets) = {} <=>
        \A f \in Files : \A e \in ToSet(r[f].tables) : EntryProblems(e, sets) = {}
  <2>1. TableProblems(tables, sets) = {} <=> \A e \in ToSet(tables) : EntryProblems(e, sets) = {}
    BY DEF TableProblems
  <2>2. ToSet(tables) = UNION {ToSet(r[f].tables) : f \in Files}
    BY <1>1, <1>2, Together
  <2> QED BY <2>1, <2>2
<1>10. MetaProblems(tables) = {} <=>
         /\ \A f \in Files : ~Clashes(r[f].tables, SameTable)
         /\ \A f, g \in Files : f # g =>
              Unrelated(ToSet(r[f].tables), ToSet(r[g].tables), SameTable)
  <2>1. MetaProblems(tables) = {} <=> ~Clashes(tables, SameTable)
    BY <1>6, MetaProblemsOrNone
  <2>2. Clashes(tables, SameTable) <=>
              \/ \E f \in Files : Clashes(r[f].tables, SameTable)
              \/ \E f, g \in Files : f # g /\ ~Unrelated(ToSet(r[f].tables),
                                                     ToSet(r[g].tables), SameTable)
    BY <1>1, <1>2, Together
  <2> QED BY <2>1, <2>2
<1>11. Unbuilt(raw) = {} /\ ValidateChecks(raw) = {} <=>
         /\ \A f \in Files : \A b \in ToSet(Portion(r[f], sets)) :
              b.body = "good" /\ b.table \notin Unconfigured
         /\ \A f \in Files : ~Clashes(Portion(r[f], sets), SameId)
         /\ \A f, g \in Files : f # g =>
              Unrelated(ToSet(Portion(r[f], sets)), ToSet(Portion(r[g], sets)), SameId)
  <2>1. Unbuilt(raw) = {} /\ ValidateChecks(raw) = {} <=>
           /\ \A b \in ToSet(raw) : b.body = "good" /\ b.table \notin Unconfigured
           /\ ~Clashes(raw, SameId)
    BY <1>6, ChecksValidOrNot
  <2>2. Clashes(raw, SameId) <=>
              \/ \E f \in Files : Clashes(Portion(r[f], sets), SameId)
              \/ \E f, g \in Files : f # g /\ ~Unrelated(ToSet(Portion(r[f], sets)),
                                                     ToSet(Portion(r[g], sets)), SameId)
    BY <1>1, <1>2, Together
  <2>3. ToSet(raw) = UNION {ToSet(Portion(r[f], sets)) : f \in Files}
    BY <1>1, <1>2, Together
  <2>4. (\A b \in ToSet(raw) : b.body = "good" /\ b.table \notin Unconfigured) <=>
          \A f \in Files : \A b \in ToSet(Portion(r[f], sets)) :
            b.body = "good" /\ b.table \notin Unconfigured
    BY <2>3
  <2> HIDE DEF raw
  <2> QED BY <2>1, <2>2, <2>4
<1>12. ASSUME \A f \in Files : \A b \in ToSet(Portion(r[f], sets)) :
                b.body = "good" /\ b.table \notin Unconfigured
       PROVE  MetaSourceProblems(tables, raw) = {} <=>
                \A f \in Files : \A e \in ToSet(r[f].tables) :
                  Describes(e) => e.table \notin Unconfigured
  <2>1. ToSet(raw) = UNION {ToSet(Portion(r[f], sets)) : f \in Files}
    BY <1>1, <1>2, Together
  <2>2. \A b \in ToSet(raw) : b.table \notin Unconfigured
    BY <1>12, <2>1
  <2>3. MetaSourceProblems(tables, raw) = {} <=>
           \A e \in ToSet(tables) : Describes(e) => e.table \notin Unconfigured
    BY <1>6, <2>2, SourcesKnownOrNot
  <2>4. ToSet(tables) = UNION {ToSet(r[f].tables) : f \in Files}
    BY <1>1, <1>2, Together
  <2> QED BY <2>3, <2>4
<1> HIDE DEF raw, tables
<1>13. c.problems = {} <=> /\ SetProblems(r, o) = {} /\ TableProblems(tables, sets) = {}
                           /\ MetaProblems(tables) = {}
  BY <1>3
<1>14. LoadOutcome(fs, {}, o, FALSE) = "loaded" <=> SetsOnce(r) /\ Sound(r, sets)
  BY <1>7, <1>8, <1>9, <1>10, <1>11, <1>12, <1>13 DEF Sound
<1> QED BY <1>14 DEF r, sets

\* What a check is to the rest of the program.
CheckMeaning(b) ==
  [id |-> CheckId(b), table |-> b.table, metric |-> b.metric, runs |-> b.active # "off"]

\* What a configuration means, file by file.
LEMMA MeaningIs ==
  ASSUME NEW fs, FilesOK(fs), NEW o, Ordering(o)
  PROVE  LET r == Read(fs, {})
             sets == ComposedSets(r, o)
         IN  /\ Meaning(fs, o).checks =
                  {CheckMeaning(b) : b \in UNION {ToSet(Portion(r[f], sets)) : f \in Files}}
             /\ Meaning(fs, o).described =
                  {e.table : e \in {d \in UNION {ToSet(r[f].tables) : f \in Files} : Describes(d)}}
             /\ Meaning(fs, o) = [checks |-> Meaning(fs, o).checks,
                                  described |-> Meaning(fs, o).described]
<1> DEFINE r == Read(fs, {})
           sets == ComposedSets(r, o)
           raw == RawChecks(r, o, sets)
           tables == AllTables(r, o)
<1>0. o \in Seq(Files)
  BY DEF Ordering
<1>1. FilesOK(r)
  BY ReadFiles
<1>2. SetsOK(sets)
  <2> HIDE DEF r
  <2> QED BY <1>0, <1>1, ComposedSetsType
<1>3. Meaning(fs, o) =
        [checks |-> {CheckMeaning(b) : b \in ToSet(raw)},
         described |-> {tables[i].table : i \in Described(tables)}]
  BY DEF Meaning, Compose, Read, CheckMeaning
<1> HIDE DEF r, sets
<1>4. ToSet(raw) = UNION {ToSet(Portion(r[f], sets)) : f \in Files}
  BY <1>1, <1>2, Together
<1>5. ToSet(tables) = UNION {ToSet(r[f].tables) : f \in Files}
  BY <1>1, <1>2, Together
<1> HIDE DEF raw, tables
<1>6. {tables[i].table : i \in Described(tables)} =
        {e.table : e \in {d \in ToSet(tables) : Describes(d)}}
  BY DEF Described, Describes, ToSet
<1>7. /\ Meaning(fs, o).checks = {CheckMeaning(b) : b \in ToSet(raw)}
      /\ Meaning(fs, o).described = {tables[i].table : i \in Described(tables)}
      /\ Meaning(fs, o) = [checks |-> Meaning(fs, o).checks,
                           described |-> Meaning(fs, o).described]
  <2> DEFINE a == {CheckMeaning(b) : b \in ToSet(raw)}
             d == {tables[i].table : i \in Described(tables)}
  <2> HIDE DEF a, d
  <2>1. Meaning(fs, o) = [checks |-> a, described |-> d]
    BY <1>3 DEF a, d
  <2>2. Meaning(fs, o).checks = a /\ Meaning(fs, o).described = d
    BY <2>1
  <2>3. Meaning(fs, o) = [checks |-> Meaning(fs, o).checks,
                          described |-> Meaning(fs, o).described]
    BY <2>1, <2>2
  <2> QED BY <2>2, <2>3 DEF a, d
<1>8. Meaning(fs, o).checks =
        {CheckMeaning(b) : b \in UNION {ToSet(Portion(r[f], sets)) : f \in Files}}
  BY <1>4, <1>7
<1>9. Meaning(fs, o).described =
        {e.table : e \in {d \in UNION {ToSet(r[f].tables) : f \in Files} : Describes(d)}}
  BY <1>5, <1>6, <1>7
<1> QED BY <1>7, <1>8, <1>9 DEF r, sets

\* Whatever the files hold, the order they are read in does not matter.
LEMMA OrderIrrelevantWhenTyped == ASSUME TypeOK PROVE LoadOrderIsIrrelevant
<1> SUFFICES ASSUME NEW o \in Orders
             PROVE  /\ Loads(files) <=> LoadOutcome(files, {}, o, FALSE) = "loaded"
                    /\ Loads(files) => Meaning(files, o) = Meaning(files, LoadOrder)
  BY DEF LoadOrderIsIrrelevant
<1> DEFINE r == Read(files, {})
<1>1. FilesOK(files) /\ FilesOK(r)
  BY ReadFiles DEF TypeOK, FilesOK
<1>2. Ordering(o) /\ Ordering(LoadOrder)
  BY OrdersAreOrderings, LoadOrderIsOrdering
<1>3. Loads(files) <=> SetsOnce(r) /\ Sound(r, ComposedSets(r, LoadOrder))
  BY <1>1, <1>2, LoadsWhenSound DEF Loads
<1>4. LoadOutcome(files, {}, o, FALSE) = "loaded" <=>
        SetsOnce(r) /\ Sound(r, ComposedSets(r, o))
  BY <1>1, <1>2, LoadsWhenSound
<1>5. SetsOnce(r) => ComposedSets(r, LoadOrder) = ComposedSets(r, o)
  <2> HIDE DEF r
  <2> SUFFICES ASSUME SetsOnce(r) PROVE ComposedSets(r, LoadOrder) = ComposedSets(r, o)
    OBVIOUS
  <2>1. SetsOfAll(r, ComposedSets(r, LoadOrder)) /\ SetsOfAll(r, ComposedSets(r, o))
    BY <1>1, <1>2, ComposedOnce
  <2> QED BY <2>1, SetsOfAllUnique
<1>6. ASSUME SetsOnce(r) PROVE Meaning(files, o) = Meaning(files, LoadOrder)
  <2> DEFINE m == Meaning(files, o)
             n == Meaning(files, LoadOrder)
  <2>1. /\ m.checks = {CheckMeaning(b) :
                        b \in UNION {ToSet(Portion(r[f], ComposedSets(r, o))) : f \in Files}}
        /\ m.described =
             {e.table : e \in {d \in UNION {ToSet(r[f].tables) : f \in Files} : Describes(d)}}
        /\ m = [checks |-> m.checks, described |-> m.described]
    BY <1>1, <1>2, MeaningIs
  <2>2. /\ n.checks = {CheckMeaning(b) :
                        b \in UNION {ToSet(Portion(r[f], ComposedSets(r, LoadOrder))) : f \in Files}}
        /\ n.described =
             {e.table : e \in {d \in UNION {ToSet(r[f].tables) : f \in Files} : Describes(d)}}
        /\ n = [checks |-> n.checks, described |-> n.described]
    BY <1>1, <1>2, MeaningIs
  <2>3. ComposedSets(r, LoadOrder) = ComposedSets(r, o)
    BY <1>5, <1>6
  <2> HIDE DEF r, m, n
  <2>4. m.checks = n.checks /\ m.described = n.described
    BY <2>1, <2>2, <2>3
  <2>5. m = n
    BY <2>1, <2>2, <2>4
  <2> QED BY <2>5 DEF m, n
<1> HIDE DEF r
<1> QED BY <1>3, <1>4, <1>5, <1>6

\* Included files can be read in any order (resolve_includes).
THEOREM OrderIsIrrelevant == Spec => []FilesInv
<1>1. TypeOK => FilesInv
  BY OrderIrrelevantWhenTyped DEF FilesInv
<1> QED BY <1>1, TypeCorrect, PTL

-----------------------------------------------------------------------------
(* Loading, told of the files as they are written.                         *)

\* A block or entry with its ${VAR} replaced, and the id it has then.
Named(x) == [x EXCEPT !.table = Resolved(x.table, {})]
MeantId(b) == IF b.id # None THEN <<b.id>> ELSE <<Resolved(b.table, {}), b.metric>>

\* A check keeps all but its table.
LEMMA NamedCheck ==
  ASSUME NEW b \in FlatCheck
  PROVE  /\ Named(b) \in FlatCheck
         /\ Named(b).table = Resolved(b.table, {}) /\ Named(b).metric = b.metric
         /\ Named(b).id = b.id /\ Named(b).active = b.active /\ Named(b).body = b.body
         /\ CheckId(Named(b)) = MeantId(b)
<1>1. b \in Block /\ b.arg = None /\ b.body # "restating" /\ b.table \in Tables /\ b.table # None
  BY FlatCheckFields DEF FlatCheck
<1>2. Resolved(b.table, {}) \in Tables /\ Resolved(b.table, {}) # None
  BY <1>1, ResolvedTable
<1>3. /\ Named(b).table = Resolved(b.table, {}) /\ Named(b).metric = b.metric
      /\ Named(b).id = b.id /\ Named(b).active = b.active /\ Named(b).body = b.body
      /\ Named(b).arg = b.arg
  BY <1>1 DEF Named, Block
<1>4. Named(b) \in Block
  BY <1>1, <1>2 DEF Named, Block
<1>5. Named(b) \in FlatCheck
  BY <1>1, <1>2, <1>3, <1>4 DEF FlatCheck
<1>6. CheckId(Named(b)) = MeantId(b)
  BY <1>3 DEF CheckId, MeantId
<1> QED BY <1>3, <1>5, <1>6

\* So does an entry.
LEMMA NamedEntry ==
  ASSUME NEW e \in Entry
  PROVE  /\ Named(e) \in Entry
         /\ Named(e).table = Resolved(e.table, {}) /\ Named(e).active = e.active
         /\ Named(e).about = e.about /\ Named(e).use = e.use /\ Named(e).with = e.with
         /\ Named(e).skip = e.skip /\ Named(e).checks = e.checks
         /\ Named(e).table = None <=> e.table = None
<1>1. e.table \in Tables \cup {None}
  BY DEF Entry
<1>2. Resolved(e.table, {}) \in Tables \cup {None} /\ (Resolved(e.table, {}) = None <=> e.table = None)
  BY <1>1, ResolvedTable
<1> QED BY <1>2 DEF Named, Entry

\* UseProblems finds none in a proper use: of a known set.
LEMMA UseProblemsOrNone ==
  ASSUME NEW e, NEW sets
  PROVE  UseProblems(e, sets) = {} <=>
           /\ e.use \in DOMAIN sets
           /\ \A p \in Parameters(e, sets) : \E b \in ToSet(sets[e.use].checks) : p = b.arg
           /\ \A m \in e.skip : \E b \in ToSet(sets[e.use].checks) : Skipped(b, e) /\ m = b.metric
           /\ \A b \in ToSet(sets[e.use].checks) :
                ~Skipped(b, e) => Placeable(b) /\ Supplied(b, e, sets)
<1>1. CASE e.use \notin DOMAIN sets
  BY <1>1 DEF UseProblems
<1>2. CASE e.use \in DOMAIN sets
  <2> DEFINE items == ToSet(sets[e.use].checks)
             kept == {b \in items : ~Skipped(b, e)}
  <2>1. UseProblems(e, sets) = {} <=>
          /\ {"stray parameter" : p \in Parameters(e, sets) \ {b.arg : b \in items}} = {}
          /\ {"unknown skip" : m \in e.skip
                    \ {b.metric : b \in {c \in items : Skipped(c, e)}}} = {}
          /\ BlockProblems(kept) = {}
          /\ {"parameter without value" : b \in {c \in kept :
                    Placeable(c) /\ ~Supplied(c, e, sets)}} = {}
    BY <1>2 DEF UseProblems
  <2>2. {"stray parameter" : p \in Parameters(e, sets) \ {b.arg : b \in items}} = {} <=>
          \A p \in Parameters(e, sets) : \E b \in items : p = b.arg
    OBVIOUS
  <2>3. {"unknown skip" : m \in e.skip \ {b.metric : b \in {c \in items : Skipped(c, e)}}} = {} <=>
          \A m \in e.skip : \E b \in items : Skipped(b, e) /\ m = b.metric
    OBVIOUS
  <2>4. BlockProblems(kept) = {} <=> \A b \in items : ~Skipped(b, e) => Placeable(b)
    BY DEF BlockProblems
  <2>5. {"parameter without value" : b \in {c \in kept : Placeable(c) /\ ~Supplied(c, e, sets)}} = {}
          <=> \A b \in items : ~Skipped(b, e) /\ Placeable(b) => Supplied(b, e, sets)
    OBVIOUS
  <2> HIDE DEF items, kept
  <2> QED BY <1>2, <2>1, <2>2, <2>3, <2>4, <2>5 DEF items
<1> QED BY <1>1, <1>2

\* What an entry makes of its blocks does not depend on its table's name.
LEMMA NamedAlike ==
  ASSUME NEW e \in Entry, NEW sets
  PROVE  /\ \A b : Skipped(b, Named(e)) <=> Skipped(b, e)
         /\ \A b : Supplied(b, Named(e), sets) <=> Supplied(b, e, sets)
         /\ Parameters(Named(e), sets) = Parameters(e, sets)
         /\ Meaningless(Named(e)) <=> Meaningless(e)
         /\ \A b : WithEntryActive(b, Named(e)) = WithEntryActive(b, e)
         /\ Describes(Named(e)) <=> Describes(e)
<1>1. Parameters(Named(e), sets) = Parameters(e, sets)
  BY NamedEntry DEF Parameters
<1>2. \A b : Skipped(b, Named(e)) <=> Skipped(b, e)
  BY NamedEntry DEF Skipped
<1>3. \A b : Supplied(b, Named(e), sets) <=> Supplied(b, e, sets)
  BY <1>1 DEF Supplied
<1>4. Meaningless(Named(e)) <=> Meaningless(e)
  BY NamedEntry DEF Meaningless
<1>5. \A b : WithEntryActive(b, Named(e)) = WithEntryActive(b, e)
  BY NamedEntry DEF WithEntryActive
<1>6. Describes(Named(e)) <=> Describes(e)
  BY NamedEntry DEF Describes
<1> QED BY <1>1, <1>2, <1>3, <1>4, <1>5, <1>6

\* EntryProblems finds none in a proper entry.
LEMMA EntryProblemsOrNone ==
  ASSUME NEW e, NEW sets
  PROVE  EntryProblems(e, sets) = {} <=>
           /\ e.table # None /\ ~Meaningless(e)
           /\ e.use = None \/ UseProblems(e, sets) = {}
           /\ \A b \in ToSet(e.checks) : Placeable(b)
<1>1. BlockProblems(ToSet(e.checks)) = {} <=> \A b \in ToSet(e.checks) : Placeable(b)
  BY DEF BlockProblems
<1> HIDE DEF UseProblems
<1> QED BY <1>1 DEF EntryProblems

\* Its problems do not depend on its table's name.
LEMMA NamedProblems ==
  ASSUME NEW e \in Entry, NEW sets
  PROVE  EntryProblems(Named(e), sets) = {} <=> EntryProblems(e, sets) = {}
<1> DEFINE d == Named(e)
<1>1. /\ d.use = e.use /\ d.skip = e.skip /\ d.checks = e.checks
      /\ (d.table = None <=> e.table = None)
  BY NamedEntry
<1>2. /\ \A b : Skipped(b, d) <=> Skipped(b, e)
      /\ \A b : Supplied(b, d, sets) <=> Supplied(b, e, sets)
      /\ Parameters(d, sets) = Parameters(e, sets)
      /\ Meaningless(d) <=> Meaningless(e)
  BY NamedAlike
<1> HIDE DEF d
<1>3. UseProblems(d, sets) = {} <=> UseProblems(e, sets) = {}
  BY <1>1, <1>2, UseProblemsOrNone
<1>4. EntryProblems(d, sets) = {} <=> EntryProblems(e, sets) = {}
  BY <1>1, <1>2, <1>3, EntryProblemsOrNone
<1> QED BY <1>4 DEF d

\* The blocks an entry flattens, before they are flattened.
Blocks(e, sets) == Expanded(e, sets) \o Where(e.checks, {b \in ToSet(e.checks) : Placeable(b)})

\* FlattenEntry, block by block.
LEMMA FlattenEntryIs ==
  ASSUME NEW e \in Entry, NEW sets, SetsOK(sets)
  PROVE  /\ Blocks(e, sets) \in Seq(SetItem)
         /\ \A b \in ToSet(Blocks(e, sets)) : b \in SetItem /\ Placeable(b)
         /\ e.table = None \/ Meaningless(e) => FlattenEntry(e, sets) = <<>>
         /\ ~(e.table = None \/ Meaningless(e)) =>
              /\ DOMAIN FlattenEntry(e, sets) = DOMAIN Blocks(e, sets)
              /\ \A i \in DOMAIN Blocks(e, sets) :
                   FlattenEntry(e, sets)[i] = Flat(Blocks(e, sets)[i], e)
<1>1. Blocks(e, sets) \in Seq(SetItem)
  BY FlattenEntryType DEF Blocks
<1>2. \A b \in ToSet(Blocks(e, sets)) : b \in SetItem /\ Placeable(b)
  <2> DEFINE own == Where(e.checks, {b \in ToSet(e.checks) : Placeable(b)})
  <2>1. Expanded(e, sets) \in Seq(SetItem) /\ \A b \in ToSet(Expanded(e, sets)) : Placeable(b)
    BY ExpandedType
  <2>2. e.checks \in Seq(SetItem)
    <3>1. e.checks \in Seq(EntryCheck) /\ EntryCheck \subseteq SetItem
      BY DEF Entry, EntryCheck
    <3> QED BY <3>1
  <2>3. own \in Seq(SetItem)
    BY <2>2, WhereSet
  <2>4. ToSet(own) = ToSet(e.checks) \cap {b \in ToSet(e.checks) : Placeable(b)}
    BY <2>2, WhereSet
  <2>a. \A b \in ToSet(own) : Placeable(b)
    BY <2>4
  <2> HIDE DEF own
  <2>5. ToSet(Expanded(e, sets) \o own) = ToSet(Expanded(e, sets)) \cup ToSet(own)
    BY <2>1, <2>3, ConcatSet
  <2>6. \A b \in ToSet(Expanded(e, sets) \o own) : Placeable(b)
    BY <2>1, <2>a, <2>5
  <2>7. \A b \in ToSet(Blocks(e, sets)) : b \in SetItem
    BY <1>1 DEF ToSet
  <2> QED BY <2>6, <2>7 DEF own, Blocks
<1>3. e.table = None \/ Meaningless(e) => FlattenEntry(e, sets) = <<>>
  BY DEF FlattenEntry
<1>4. ~(e.table = None \/ Meaningless(e)) =>
        FlattenEntry(e, sets) = [i \in DOMAIN Blocks(e, sets) |-> Flat(Blocks(e, sets)[i], e)]
  BY DEF FlattenEntry, Flat, Blocks
<1> QED BY <1>1, <1>2, <1>3, <1>4

\* t is s with every table named as it is meant.
NamedAs(t, s) == DOMAIN t = DOMAIN s /\ \A i \in DOMAIN s : t[i] = Named(s[i])

\* Replacing the ${VAR}s before or after flattening comes to the same.
LEMMA NamedFlatten ==
  ASSUME NEW e \in Entry, NEW sets, SetsOK(sets)
  PROVE  NamedAs(FlattenEntry(Named(e), sets), FlattenEntry(e, sets))
<1> DEFINE d == Named(e)
<1>1. d \in Entry /\ d.use = e.use /\ d.checks = e.checks /\ (d.table = None <=> e.table = None)
      /\ d.table = Resolved(e.table, {})
  BY NamedEntry
<1>2. /\ \A b : Skipped(b, d) <=> Skipped(b, e)
      /\ \A b : Supplied(b, d, sets) <=> Supplied(b, e, sets)
      /\ Meaningless(d) <=> Meaningless(e)
      /\ \A b : WithEntryActive(b, d) = WithEntryActive(b, e)
  BY NamedAlike
<1> HIDE DEF d
<1>3. Expanded(d, sets) = Expanded(e, sets)
  <2>1. CASE e.use \notin DOMAIN sets
    BY <1>1, <2>1 DEF Expanded
  <2>2. CASE e.use \in DOMAIN sets
    <3> DEFINE items == sets[e.use].checks
               T(c) == {b \in ToSet(items) : Placeable(b) /\ ~Skipped(b, c) /\ Supplied(b, c, sets)}
    <3>1. Expanded(e, sets) = Where(items, T(e)) /\ Expanded(d, sets) = Where(items, T(d))
      BY <1>1, <2>2 DEF Expanded
    <3>2. T(d) = T(e)
      BY <1>2
    <3> QED BY <3>1, <3>2
  <2> QED BY <2>1, <2>2
<1>4. Blocks(d, sets) = Blocks(e, sets)
  BY <1>1, <1>3 DEF Blocks
<1>5. CASE e.table = None \/ Meaningless(e)
  <2>1. FlattenEntry(e, sets) = <<>> /\ FlattenEntry(d, sets) = <<>>
    BY <1>1, <1>2, <1>5 DEF FlattenEntry
  <2> QED BY <2>1 DEF NamedAs, d
<1>6. CASE ~(e.table = None \/ Meaningless(e))
  <2> DEFINE s == FlattenEntry(e, sets)
             t == FlattenEntry(d, sets)
             bs == Blocks(e, sets)
  <2>1. DOMAIN s = DOMAIN bs /\ \A i \in DOMAIN bs : s[i] = Flat(bs[i], e)
    BY <1>6, FlattenEntryIs
  <2>2. DOMAIN t = DOMAIN bs /\ \A i \in DOMAIN bs : t[i] = Flat(bs[i], d)
    BY <1>1, <1>2, <1>4, <1>6, FlattenEntryIs
  <2>3. \A i \in DOMAIN bs : bs[i] \in SetItem /\ Placeable(bs[i])
    BY FlattenEntryIs DEF ToSet
  <2>4. ASSUME NEW b \in SetItem, Placeable(b)
        PROVE  Flat(b, d) = Named(Flat(b, e))
    <3>1. b \in Block
      BY DEF SetItem
    <3>2. Flat(b, e).table = e.table
      BY <1>6, <2>4, FlatFields
    <3>3. Flat(b, d) = [b EXCEPT !.table = Resolved(e.table, {}), !.arg = None,
                                 !.active = WithEntryActive(b, e)]
      BY <1>1, <1>2 DEF Flat
    <3>4. Named(Flat(b, e)) = [Flat(b, e) EXCEPT !.table = Resolved(e.table, {})]
      BY <3>2 DEF Named
    <3> HIDE DEF Resolved, WithEntryActive
    <3> QED BY <3>1, <3>3, <3>4 DEF Flat, Block
  <2> HIDE DEF s, t, bs
  <2>5. \A i \in DOMAIN bs : t[i] = Named(s[i])
    BY <2>1, <2>2, <2>3, <2>4
  <2>6. NamedAs(t, s)
    BY <2>1, <2>2, <2>5 DEF NamedAs
  <2> QED BY <2>6 DEF s, t, d
<1> QED BY <1>5, <1>6

\* Checks whose ids, and entries whose tables, are the same once ${VAR}s are replaced.
SameMeantId == {p \in FlatCheck \X FlatCheck : MeantId(p[1]) = MeantId(p[2])}
SameMeantTable ==
  {p \in Entry \X Entry :
     Describes(p[1]) /\ Describes(p[2]) /\ Resolved(p[1].table, {}) = Resolved(p[2].table, {})}

\* What these relations say.
LEMMA MeantRelated ==
  /\ \A x, y : <<x, y>> \in SameMeantTable <=>
       /\ x \in Entry /\ y \in Entry /\ Describes(x) /\ Describes(y)
       /\ Resolved(x.table, {}) = Resolved(y.table, {})
  /\ \A x, y : <<x, y>> \in SameMeantId <=>
       x \in FlatCheck /\ y \in FlatCheck /\ MeantId(x) = MeantId(y)
BY DEF SameMeantTable, SameMeantId

\* Naming the tables turns one relation into the other.
LEMMA NamedRelated ==
  /\ \A x, y \in FlatCheck : <<Named(x), Named(y)>> \in SameId <=> <<x, y>> \in SameMeantId
  /\ \A x, y \in Entry : <<Named(x), Named(y)>> \in SameTable <=> <<x, y>> \in SameMeantTable
<1>1. ASSUME NEW x \in FlatCheck, NEW y \in FlatCheck
      PROVE  <<Named(x), Named(y)>> \in SameId <=> <<x, y>> \in SameMeantId
  <2>1. Named(x) \in FlatCheck /\ Named(y) \in FlatCheck
        /\ CheckId(Named(x)) = MeantId(x) /\ CheckId(Named(y)) = MeantId(y)
    BY NamedCheck
  <2> QED BY <2>1, Related, MeantRelated
<1>2. ASSUME NEW x \in Entry, NEW y \in Entry
      PROVE  <<Named(x), Named(y)>> \in SameTable <=> <<x, y>> \in SameMeantTable
  <2>1. Named(x) \in Entry /\ Named(y) \in Entry
        /\ Named(x).table = Resolved(x.table, {}) /\ Named(y).table = Resolved(y.table, {})
    BY NamedEntry
  <2>2. (Describes(Named(x)) <=> Describes(x)) /\ (Describes(Named(y)) <=> Describes(y))
    BY NamedAlike
  <2> QED BY <2>1, <2>2, Related, MeantRelated
<1> QED BY <1>1, <1>2

\* Blocks or entries with their ${VAR}s replaced.
NamedSet(S) == {Named(b) : b \in S}

\* Clashes as read are clashes as written.
LEMMA NamedClash ==
  ASSUME NEW X, NEW s \in Seq(X), NEW t, NamedAs(t, s), NEW R, NEW Q,
         \A x, y \in X : <<Named(x), Named(y)>> \in R <=> <<x, y>> \in Q
  PROVE  Clashes(t, R) <=> Clashes(s, Q)
<1>1. \A i \in DOMAIN s : s[i] \in X
  OBVIOUS
<1> QED BY <1>1 DEF Clashes, NamedAs

\* The elements as read are those as written, named.
LEMMA NamedElements ==
  ASSUME NEW s, NEW t, NamedAs(t, s)
  PROVE  ToSet(t) = NamedSet(ToSet(s))
BY DEF ToSet, NamedAs, NamedSet

\* Relations between sets of named things.
LEMMA NamedUnrelated ==
  ASSUME NEW X, NEW S \in SUBSET X, NEW T \in SUBSET X, NEW R, NEW Q,
         \A x, y \in X : <<Named(x), Named(y)>> \in R <=> <<x, y>> \in Q
  PROVE  Unrelated(NamedSet(S), NamedSet(T), R) <=> Unrelated(S, T, Q)
BY DEF Unrelated, NamedSet

\* A file as read, compared with it as written.
LEMMA NamedFile ==
  ASSUME NEW x, IsFile(x), NEW sets, SetsOK(sets)
  PROVE  LET r == InterpolateEnv(x, {})
         IN  /\ Portion(x, sets) \in Seq(FlatCheck)
             /\ ToSet(r.tables) = NamedSet(ToSet(x.tables))
             /\ ToSet(Portion(r, sets)) = NamedSet(ToSet(Portion(x, sets)))
             /\ Clashes(r.tables, SameTable) <=> Clashes(x.tables, SameMeantTable)
             /\ Clashes(Portion(r, sets), SameId) <=> Clashes(Portion(x, sets), SameMeantId)
<1> DEFINE r == InterpolateEnv(x, {})
           P(y) == FlattenTableChecks(y.tables, sets)
<1>1. /\ IsFile(r)
      /\ r.checks = [i \in DOMAIN x.checks |-> Named(x.checks[i])]
      /\ r.tables = [i \in DOMAIN x.tables |-> Named(x.tables[i])]
  BY InterpolatedFile DEF Named
<1>2. x.checks \in Seq(FlatCheck) /\ x.tables \in Seq(Entry)
      /\ r.checks \in Seq(FlatCheck) /\ r.tables \in Seq(Entry)
  <2> HIDE DEF r
  <2> QED BY <1>1, FileFields
<1> HIDE DEF r
<1>3. NamedAs(r.checks, x.checks) /\ NamedAs(r.tables, x.tables)
  BY <1>1 DEF NamedAs
<1>4. /\ Clashes(r.tables, SameTable) <=> Clashes(x.tables, SameMeantTable)
      /\ ToSet(r.tables) = NamedSet(ToSet(x.tables))
  <2>1. \A y, z \in Entry : <<Named(y), Named(z)>> \in SameTable <=> <<y, z>> \in SameMeantTable
    BY NamedRelated
  <2>2. Clashes(r.tables, SameTable) <=> Clashes(x.tables, SameMeantTable)
    BY <1>2, <1>3, <2>1, NamedClash
  <2>3. ToSet(r.tables) = NamedSet(ToSet(x.tables))
    BY <1>3, NamedElements
  <2> QED BY <2>2, <2>3
<1>5. /\ Clashes(r.checks, SameId) <=> Clashes(x.checks, SameMeantId)
      /\ ToSet(r.checks) = NamedSet(ToSet(x.checks))
  <2>1. \A y, z \in FlatCheck : <<Named(y), Named(z)>> \in SameId <=> <<y, z>> \in SameMeantId
    BY NamedRelated
  <2>2. Clashes(r.checks, SameId) <=> Clashes(x.checks, SameMeantId)
    BY <1>2, <1>3, <2>1, NamedClash
  <2>3. ToSet(r.checks) = NamedSet(ToSet(x.checks))
    BY <1>3, NamedElements
  <2> QED BY <2>2, <2>3
<1>6. ASSUME NEW i \in DOMAIN x.tables
      PROVE  /\ x.tables[i] \in Entry
             /\ FlattenEntry(x.tables[i], sets) \in Seq(FlatCheck)
             /\ Clashes(FlattenEntry(r.tables[i], sets), SameId) <=>
                  Clashes(FlattenEntry(x.tables[i], sets), SameMeantId)
             /\ ToSet(FlattenEntry(r.tables[i], sets)) =
                  NamedSet(ToSet(FlattenEntry(x.tables[i], sets)))
  <2>1. x.tables[i] \in Entry
    BY <1>2
  <2>2. FlattenEntry(x.tables[i], sets) \in Seq(FlatCheck)
    BY <2>1, FlattenEntryType
  <2>3. NamedAs(FlattenEntry(r.tables[i], sets), FlattenEntry(x.tables[i], sets))
    BY <1>1, <2>1, NamedFlatten
  <2>4. /\ Clashes(FlattenEntry(r.tables[i], sets), SameId) <=>
             Clashes(FlattenEntry(x.tables[i], sets), SameMeantId)
        /\ ToSet(FlattenEntry(r.tables[i], sets)) =
             NamedSet(ToSet(FlattenEntry(x.tables[i], sets)))
    <3>1. \A y, z \in FlatCheck : <<Named(y), Named(z)>> \in SameId <=> <<y, z>> \in SameMeantId
      BY NamedRelated
    <3>2. Clashes(FlattenEntry(r.tables[i], sets), SameId) <=>
             Clashes(FlattenEntry(x.tables[i], sets), SameMeantId)
      BY <2>2, <2>3, <3>1, NamedClash
    <3>3. ToSet(FlattenEntry(r.tables[i], sets)) =
             NamedSet(ToSet(FlattenEntry(x.tables[i], sets)))
      BY <2>3, NamedElements
    <3> QED BY <3>2, <3>3
  <2> QED BY <2>1, <2>2, <2>4
<1>7. DOMAIN r.tables = DOMAIN x.tables
  BY <1>1
<1>a. P(x) \in Seq(FlatCheck) /\ P(r) \in Seq(FlatCheck)
  BY <1>2, FlattenTablesType
<1>8. ToSet(P(r)) = NamedSet(ToSet(P(x)))
  <2>1. ToSet(P(r)) = UNION {ToSet(FlattenEntry(r.tables[i], sets)) : i \in DOMAIN r.tables}
    BY <1>2, FlattenTablesType
  <2>2. ToSet(P(x)) = UNION {ToSet(FlattenEntry(x.tables[i], sets)) : i \in DOMAIN x.tables}
    BY <1>2, FlattenTablesType
  <2> HIDE DEF P
  <2>3. \A i \in DOMAIN x.tables :
          ToSet(FlattenEntry(r.tables[i], sets)) = NamedSet(ToSet(FlattenEntry(x.tables[i], sets)))
    BY <1>6
  <2> HIDE <1>6
  <2>4. ToSet(P(r)) = UNION {NamedSet(ToSet(FlattenEntry(x.tables[i], sets))) : i \in DOMAIN x.tables}
    BY <1>7, <2>1, <2>3
  <2>5. \A y : y \in ToSet(P(r)) <=>
           \E i \in DOMAIN x.tables : \E b \in ToSet(FlattenEntry(x.tables[i], sets)) : y = Named(b)
    BY <2>4 DEF NamedSet
  <2> QED BY <2>2, <2>5 DEF NamedSet
<1>9. Clashes(P(r), SameId) <=> Clashes(P(x), SameMeantId)
  <2>1. Clashes(P(r), SameId) <=>
              \/ \E i \in DOMAIN r.tables : Clashes(FlattenEntry(r.tables[i], sets), SameId)
              \/ \E i, j \in DOMAIN r.tables :
                   /\ i < j
                   /\ \E y \in ToSet(FlattenEntry(r.tables[i], sets)),
                         z \in ToSet(FlattenEntry(r.tables[j], sets)) : <<y, z>> \in SameId
    BY <1>2, FlattenTablesType
  <2>2. Clashes(P(x), SameMeantId) <=>
              \/ \E i \in DOMAIN x.tables : Clashes(FlattenEntry(x.tables[i], sets), SameMeantId)
              \/ \E i, j \in DOMAIN x.tables :
                   /\ i < j
                   /\ \E y \in ToSet(FlattenEntry(x.tables[i], sets)),
                         z \in ToSet(FlattenEntry(x.tables[j], sets)) : <<y, z>> \in SameMeantId
    BY <1>2, FlattenTablesType
  <2>3. ASSUME NEW i \in DOMAIN x.tables, NEW j \in DOMAIN x.tables
        PROVE  (\E y \in ToSet(FlattenEntry(r.tables[i], sets)),
                   z \in ToSet(FlattenEntry(r.tables[j], sets)) : <<y, z>> \in SameId)
               <=> \E y \in ToSet(FlattenEntry(x.tables[i], sets)),
                      z \in ToSet(FlattenEntry(x.tables[j], sets)) : <<y, z>> \in SameMeantId
    <3>1. /\ ToSet(FlattenEntry(r.tables[i], sets)) =
               NamedSet(ToSet(FlattenEntry(x.tables[i], sets)))
          /\ ToSet(FlattenEntry(r.tables[j], sets)) =
               NamedSet(ToSet(FlattenEntry(x.tables[j], sets)))
      BY <1>6
    <3>2. /\ FlattenEntry(x.tables[i], sets) \in Seq(FlatCheck)
          /\ FlattenEntry(x.tables[j], sets) \in Seq(FlatCheck)
      BY <1>6
    <3> DEFINE S == ToSet(FlattenEntry(x.tables[i], sets))
               T == ToSet(FlattenEntry(x.tables[j], sets))
    <3>3. S \subseteq FlatCheck /\ T \subseteq FlatCheck
      BY <3>2 DEF ToSet
    <3> HIDE DEF S, T
    <3>4. (\E y \in NamedSet(S), z \in NamedSet(T) : <<y, z>> \in SameId) <=>
            \E y \in S, z \in T : <<y, z>> \in SameMeantId
      BY <3>3, NamedRelated DEF NamedSet
    <3> QED BY <3>1, <3>4 DEF S, T
  <2> HIDE DEF P
  <2> QED BY <1>6, <1>7, <2>1, <2>2, <2>3
<1>10. Portion(x, sets) = x.checks \o P(x) /\ Portion(r, sets) = r.checks \o P(r)
  BY DEF Portion
<1> HIDE DEF P
<1>11. Portion(x, sets) \in Seq(FlatCheck)
  BY <1>2, <1>a, <1>10, ConcatSet
<1>12. /\ ToSet(Portion(x, sets)) = ToSet(x.checks) \cup ToSet(P(x))
       /\ ToSet(Portion(r, sets)) = ToSet(r.checks) \cup ToSet(P(r))
  BY <1>2, <1>a, <1>10, ConcatSet
<1>13. ToSet(Portion(r, sets)) = NamedSet(ToSet(Portion(x, sets)))
  BY <1>5, <1>8, <1>12 DEF NamedSet
<1>14. Clashes(Portion(r, sets), SameId) <=> Clashes(Portion(x, sets), SameMeantId)
  <2>1. Clashes(Portion(r, sets), SameId) <=>
             \/ Clashes(r.checks, SameId) \/ Clashes(P(r), SameId)
             \/ \E y \in ToSet(r.checks), z \in ToSet(P(r)) : <<y, z>> \in SameId
    BY <1>2, <1>a, <1>10, ConcatClash
  <2>2. Clashes(Portion(x, sets), SameMeantId) <=>
             \/ Clashes(x.checks, SameMeantId) \/ Clashes(P(x), SameMeantId)
             \/ \E y \in ToSet(x.checks), z \in ToSet(P(x)) : <<y, z>> \in SameMeantId
    BY <1>2, <1>a, <1>10, ConcatClash
  <2>3. (\E y \in ToSet(r.checks), z \in ToSet(P(r)) : <<y, z>> \in SameId) <=>
          \E y \in ToSet(x.checks), z \in ToSet(P(x)) : <<y, z>> \in SameMeantId
    <3>1. /\ \A b \in ToSet(x.checks) : b \in FlatCheck
          /\ \A b \in ToSet(P(x)) : b \in FlatCheck
      BY <1>2, <1>a DEF ToSet
    <3> QED BY <1>5, <1>8, <3>1, NamedRelated DEF NamedSet
  <2> QED BY <1>5, <1>9, <2>1, <2>2, <2>3
<1> QED BY <1>4, <1>11, <1>13, <1>14 DEF r

\* Sound, of the files as they are written.
SoundAsWritten(fs, sets) ==
  /\ \A f \in Files : \A e \in ToSet(fs[f].tables) :
       /\ EntryProblems(e, sets) = {}
       /\ Describes(e) => Resolved(e.table, {}) \notin Unconfigured
  /\ \A f \in Files : \A b \in ToSet(Portion(fs[f], sets)) :
       b.body = "good" /\ Resolved(b.table, {}) \notin Unconfigured
  /\ \A f \in Files : ~Clashes(fs[f].tables, SameMeantTable)
  /\ \A f \in Files : ~Clashes(Portion(fs[f], sets), SameMeantId)
  /\ \A f, g \in Files : f # g =>
       Unrelated(ToSet(fs[f].tables), ToSet(fs[g].tables), SameMeantTable)
  /\ \A f, g \in Files : f # g =>
       Unrelated(ToSet(Portion(fs[f], sets)), ToSet(Portion(fs[g], sets)), SameMeantId)

\* Soundness can be told from the files as they are written.
LEMMA SoundAsReadOrWritten ==
  ASSUME NEW fs, FilesOK(fs), NEW sets, SetsOK(sets)
  PROVE  Sound(Read(fs, {}), sets) <=> SoundAsWritten(fs, sets)
<1> DEFINE r == Read(fs, {})
<1>1. ASSUME NEW f \in Files
      PROVE  /\ Portion(fs[f], sets) \in Seq(FlatCheck)
             /\ ToSet(r[f].tables) = NamedSet(ToSet(fs[f].tables))
             /\ ToSet(Portion(r[f], sets)) = NamedSet(ToSet(Portion(fs[f], sets)))
             /\ Clashes(r[f].tables, SameTable) <=> Clashes(fs[f].tables, SameMeantTable)
             /\ Clashes(Portion(r[f], sets), SameId) <=> Clashes(Portion(fs[f], sets), SameMeantId)
  <2>1. IsFile(fs[f]) /\ r[f] = InterpolateEnv(fs[f], {})
    BY DEF FilesOK, Read
  <2> QED BY <2>1, NamedFile
<1> HIDE DEF r
<1>2. \A f \in Files : \A b \in ToSet(Portion(fs[f], sets)) : b \in FlatCheck
  BY <1>1 DEF ToSet
<1>3. \A f \in Files : \A e \in ToSet(fs[f].tables) : e \in Entry
  <2>1. \A f \in Files : fs[f].tables \in Seq(Entry)
    BY FileFields DEF FilesOK
  <2> QED BY <2>1 DEF ToSet
<1>4. ASSUME NEW f \in Files
      PROVE  (\A e \in ToSet(r[f].tables) :
                EntryProblems(e, sets) = {} /\ (Describes(e) => e.table \notin Unconfigured))
             <=> \A e \in ToSet(fs[f].tables) :
                   /\ EntryProblems(e, sets) = {}
                   /\ Describes(e) => Resolved(e.table, {}) \notin Unconfigured
  <2>1. \A e \in ToSet(fs[f].tables) :
          /\ EntryProblems(Named(e), sets) = {} <=> EntryProblems(e, sets) = {}
          /\ Describes(Named(e)) <=> Describes(e)
          /\ Named(e).table = Resolved(e.table, {})
    <3> SUFFICES ASSUME NEW e \in Entry
                 PROVE  /\ EntryProblems(Named(e), sets) = {} <=> EntryProblems(e, sets) = {}
                        /\ Describes(Named(e)) <=> Describes(e)
                        /\ Named(e).table = Resolved(e.table, {})
      BY <1>3
    <3>1. EntryProblems(Named(e), sets) = {} <=> EntryProblems(e, sets) = {}
      BY NamedProblems
    <3>2. Describes(Named(e)) <=> Describes(e)
      BY NamedAlike
    <3>3. Named(e).table = Resolved(e.table, {})
      BY NamedEntry
    <3> QED BY <3>1, <3>2, <3>3
  <2>2. ToSet(r[f].tables) = NamedSet(ToSet(fs[f].tables))
    BY <1>1
  <2> QED BY <2>1, <2>2 DEF NamedSet
<1>5. ASSUME NEW f \in Files
      PROVE  (\A b \in ToSet(Portion(r[f], sets)) : b.body = "good" /\ b.table \notin Unconfigured)
             <=> \A b \in ToSet(Portion(fs[f], sets)) :
                   b.body = "good" /\ Resolved(b.table, {}) \notin Unconfigured
  <2>1. \A b \in ToSet(Portion(fs[f], sets)) :
          Named(b).body = b.body /\ Named(b).table = Resolved(b.table, {})
    BY <1>2, NamedCheck
  <2>2. ToSet(Portion(r[f], sets)) = NamedSet(ToSet(Portion(fs[f], sets)))
    BY <1>1
  <2> QED BY <2>1, <2>2 DEF NamedSet
<1>6. ASSUME NEW f \in Files, NEW g \in Files
      PROVE  Unrelated(ToSet(r[f].tables), ToSet(r[g].tables), SameTable) <=>
             Unrelated(ToSet(fs[f].tables), ToSet(fs[g].tables), SameMeantTable)
  <2> DEFINE S == ToSet(fs[f].tables)
             T == ToSet(fs[g].tables)
  <2>1. S \in SUBSET Entry /\ T \in SUBSET Entry
    BY <1>3
  <2>2. ToSet(r[f].tables) = NamedSet(S) /\ ToSet(r[g].tables) = NamedSet(T)
    BY <1>1
  <2> HIDE DEF S, T
  <2>3. Unrelated(NamedSet(S), NamedSet(T), SameTable) <=>
          Unrelated(S, T, SameMeantTable)
    BY <2>1, NamedRelated, NamedUnrelated
  <2> QED BY <2>2, <2>3 DEF S, T
<1>7. ASSUME NEW f \in Files, NEW g \in Files
      PROVE  Unrelated(ToSet(Portion(r[f], sets)), ToSet(Portion(r[g], sets)), SameId) <=>
             Unrelated(ToSet(Portion(fs[f], sets)), ToSet(Portion(fs[g], sets)), SameMeantId)
  <2> DEFINE S == ToSet(Portion(fs[f], sets))
             T == ToSet(Portion(fs[g], sets))
  <2>1. S \in SUBSET FlatCheck /\ T \in SUBSET FlatCheck
    BY <1>2
  <2>2. /\ ToSet(Portion(r[f], sets)) = NamedSet(S)
        /\ ToSet(Portion(r[g], sets)) = NamedSet(T)
    BY <1>1
  <2> HIDE DEF S, T
  <2>3. Unrelated(NamedSet(S), NamedSet(T), SameId) <=>
          Unrelated(S, T, SameMeantId)
    BY <2>1, NamedRelated, NamedUnrelated
  <2> QED BY <2>2, <2>3 DEF S, T
<1>8. Sound(r, sets) <=> SoundAsWritten(fs, sets)
  BY <1>1, <1>4, <1>5, <1>6, <1>7 DEF Sound, SoundAsWritten
<1> QED BY <1>8 DEF r

\* The sets are those of the files as written.
LEMMA ReadSets ==
  ASSUME NEW fs, FilesOK(fs)
  PROVE  /\ SetsOnce(Read(fs, {})) <=> SetsOnce(fs)
         /\ SetsOnce(fs) =>
              /\ ComposedSets(Read(fs, {}), LoadOrder) = ComposedSets(fs, LoadOrder)
              /\ SetsOfAll(fs, ComposedSets(fs, LoadOrder))
              /\ SetsOK(ComposedSets(fs, LoadOrder))
<1> DEFINE r == Read(fs, {})
<1>1. \A f \in Files : r[f].sets = fs[f].sets
  BY InterpolatedFile DEF Read, FilesOK
<1>2. FilesOK(r)
  BY ReadFiles
<1> HIDE DEF r
<1>3. SetsOnce(r) <=> SetsOnce(fs)
  BY <1>1 DEF SetsOnce
<1>4. ASSUME SetsOnce(fs)
      PROVE  /\ ComposedSets(r, LoadOrder) = ComposedSets(fs, LoadOrder)
             /\ SetsOfAll(fs, ComposedSets(fs, LoadOrder))
  <2>1. SetsOfAll(r, ComposedSets(r, LoadOrder))
    BY <1>2, <1>3, <1>4, LoadOrderIsOrdering, ComposedOnce
  <2>2. SetsOfAll(fs, ComposedSets(fs, LoadOrder))
    BY <1>4, LoadOrderIsOrdering, ComposedOnce
  <2>3. SetsOfAll(fs, ComposedSets(r, LoadOrder))
    BY <1>1, <2>1 DEF SetsOfAll
  <2> QED BY <2>2, <2>3, SetsOfAllUnique
<1>5. SetsOK(ComposedSets(fs, LoadOrder))
  BY LoadOrderType, ComposedSetsType
<1> QED BY <1>3, <1>4, <1>5 DEF r

\* So can whether they load.
LEMMA LoadsAsWritten ==
  ASSUME NEW fs, FilesOK(fs)
  PROVE  Loads(fs) <=> SetsOnce(fs) /\ SoundAsWritten(fs, ComposedSets(fs, LoadOrder))
<1>1. Loads(fs) <=> /\ SetsOnce(Read(fs, {}))
                    /\ Sound(Read(fs, {}), ComposedSets(Read(fs, {}), LoadOrder))
  BY LoadOrderIsOrdering, LoadsWhenSound DEF Loads
<1>2. /\ SetsOnce(Read(fs, {})) <=> SetsOnce(fs)
      /\ SetsOnce(fs) =>
              /\ ComposedSets(Read(fs, {}), LoadOrder) = ComposedSets(fs, LoadOrder)
              /\ SetsOK(ComposedSets(fs, LoadOrder))
  BY ReadSets
<1>3. SetsOnce(fs) => (Sound(Read(fs, {}), ComposedSets(fs, LoadOrder)) <=>
                       SoundAsWritten(fs, ComposedSets(fs, LoadOrder)))
  BY <1>2, SoundAsReadOrWritten
<1> QED BY <1>1, <1>2, <1>3

\* What a configuration whose sets are defined once means.
MeaningOf(b) == CheckMeaning(Named(b))

\* And what they mean.
LEMMA MeaningAsWritten ==
  ASSUME NEW fs, FilesOK(fs), SetsOnce(fs)
  PROVE  LET sets == ComposedSets(fs, LoadOrder)
         IN  /\ Meaning(fs, LoadOrder).checks =
                  {MeaningOf(b) : b \in UNION {ToSet(Portion(fs[f], sets)) : f \in Files}}
             /\ Meaning(fs, LoadOrder).described =
                  {Resolved(e.table, {}) :
                     e \in {d \in UNION {ToSet(fs[f].tables) : f \in Files} : Describes(d)}}
             /\ Meaning(fs, LoadOrder) = [checks |-> Meaning(fs, LoadOrder).checks,
                                          described |-> Meaning(fs, LoadOrder).described]
<1> DEFINE sets == ComposedSets(fs, LoadOrder)
           r == Read(fs, {})
<1>1. SetsOK(sets) /\ ComposedSets(r, LoadOrder) = sets
  BY ReadSets
<1> HIDE DEF sets
<1>2. ASSUME NEW f \in Files
      PROVE  /\ ToSet(r[f].tables) = NamedSet(ToSet(fs[f].tables))
             /\ ToSet(Portion(r[f], sets)) = NamedSet(ToSet(Portion(fs[f], sets)))
             /\ \A e \in ToSet(fs[f].tables) : e \in Entry
  <2>1. IsFile(fs[f]) /\ r[f] = InterpolateEnv(fs[f], {})
    BY DEF FilesOK, Read
  <2>2. fs[f].tables \in Seq(Entry)
    BY <2>1, FileFields
  <2>3. \A e \in ToSet(fs[f].tables) : e \in Entry
    BY <2>2 DEF ToSet
  <2> HIDE DEF r
  <2> QED BY <1>1, <2>1, <2>3, NamedFile
<1>3. LET s == ComposedSets(r, LoadOrder)
      IN  /\ Meaning(fs, LoadOrder).checks =
                  {CheckMeaning(b) : b \in UNION {ToSet(Portion(r[f], s)) : f \in Files}}
          /\ Meaning(fs, LoadOrder).described =
                  {e.table : e \in {d \in UNION {ToSet(r[f].tables) : f \in Files} : Describes(d)}}
          /\ Meaning(fs, LoadOrder) = [checks |-> Meaning(fs, LoadOrder).checks,
                                       described |-> Meaning(fs, LoadOrder).described]
  BY LoadOrderIsOrdering, MeaningIs
<1> HIDE DEF r
<1>4. {CheckMeaning(b) : b \in UNION {ToSet(Portion(r[f], sets)) : f \in Files}} =
        {MeaningOf(b) : b \in UNION {ToSet(Portion(fs[f], sets)) : f \in Files}}
  <2> DEFINE S == UNION {ToSet(Portion(fs[f], sets)) : f \in Files}
  <2>1. UNION {ToSet(Portion(r[f], sets)) : f \in Files} = NamedSet(S)
    <3>1. UNION {ToSet(Portion(r[f], sets)) : f \in Files} =
            UNION {NamedSet(ToSet(Portion(fs[f], sets))) : f \in Files}
      BY <1>2
    <3> QED BY <3>1 DEF NamedSet
  <2> HIDE DEF S
  <2>2. {CheckMeaning(b) : b \in NamedSet(S)} = {MeaningOf(b) : b \in S}
    BY DEF MeaningOf, NamedSet
  <2> QED BY <2>1, <2>2 DEF S
<1>5. {e.table : e \in {d \in UNION {ToSet(r[f].tables) : f \in Files} : Describes(d)}} =
        {Resolved(e.table, {}) :
           e \in {d \in UNION {ToSet(fs[f].tables) : f \in Files} : Describes(d)}}
  <2> DEFINE S == UNION {ToSet(fs[f].tables) : f \in Files}
  <2>1. UNION {ToSet(r[f].tables) : f \in Files} = NamedSet(S)
    <3>1. UNION {ToSet(r[f].tables) : f \in Files} =
            UNION {NamedSet(ToSet(fs[f].tables)) : f \in Files}
      BY <1>2
    <3> QED BY <3>1 DEF NamedSet
  <2>2. \A e \in S : Named(e).table = Resolved(e.table, {}) /\ (Describes(Named(e)) <=> Describes(e))
    <3>1. \A e \in S : e \in Entry
      BY <1>2
    <3> QED BY <3>1, NamedEntry, NamedAlike
  <2> HIDE DEF S
  <2>3. {e.table : e \in {d \in NamedSet(S) : Describes(d)}} =
          {Resolved(e.table, {}) : e \in {d \in S : Describes(d)}}
    BY <2>2 DEF NamedSet
  <2> QED BY <2>1, <2>3 DEF S
<1> QED BY <1>1, <1>3, <1>4, <1>5 DEF sets

-----------------------------------------------------------------------------
(* Editing one file.                                                       *)

\* Files with the same sets.
LEMMA SameSets ==
  ASSUME NEW fs, FilesOK(fs), NEW gs, FilesOK(gs), \A f \in Files : gs[f].sets = fs[f].sets,
         SetsOnce(fs)
  PROVE  SetsOnce(gs) /\ ComposedSets(gs, LoadOrder) = ComposedSets(fs, LoadOrder)
<1>1. SetsOnce(gs)
  BY DEF SetsOnce
<1>2. SetsOfAll(fs, ComposedSets(fs, LoadOrder)) /\ SetsOfAll(gs, ComposedSets(gs, LoadOrder))
  BY <1>1, LoadOrderIsOrdering, ComposedOnce
<1>3. SetsOfAll(fs, ComposedSets(gs, LoadOrder))
  BY <1>2 DEF SetsOfAll
<1> QED BY <1>1, <1>2, <1>3, SetsOfAllUnique

\* Neither relation looks at the order.
LEMMA MeantSymmetric == Symmetric(SameMeantId) /\ Symmetric(SameMeantTable)
<1>1. Symmetric(SameMeantId)
  BY MeantRelated DEF Symmetric
<1>2. Symmetric(SameMeantTable)
  BY MeantRelated DEF Symmetric
<1> QED BY <1>1, <1>2

\* A file can be replaced by one that is as sound and agrees with the others.
LEMMA OneFileChanged ==
  ASSUME NEW fs, NEW sets, SoundAsWritten(fs, sets), NEW f \in Files,
         NEW gs, \A g \in Files : g # f => gs[g] = fs[g],
         NEW y, gs[f] = y,
         \A e \in ToSet(y.tables) :
           /\ EntryProblems(e, sets) = {}
           /\ Describes(e) => Resolved(e.table, {}) \notin Unconfigured,
         \A b \in ToSet(Portion(y, sets)) :
           b.body = "good" /\ Resolved(b.table, {}) \notin Unconfigured,
         ~Clashes(y.tables, SameMeantTable),
         ~Clashes(Portion(y, sets), SameMeantId),
         \A g \in Files : g # f =>
           /\ Unrelated(ToSet(y.tables), ToSet(fs[g].tables), SameMeantTable)
           /\ Unrelated(ToSet(Portion(y, sets)), ToSet(Portion(fs[g], sets)), SameMeantId)
  PROVE  SoundAsWritten(gs, sets)
<1>1. \A g \in Files : \A e \in ToSet(gs[g].tables) :
        /\ EntryProblems(e, sets) = {}
        /\ Describes(e) => Resolved(e.table, {}) \notin Unconfigured
  BY DEF SoundAsWritten
<1>2. \A g \in Files : \A b \in ToSet(Portion(gs[g], sets)) :
        b.body = "good" /\ Resolved(b.table, {}) \notin Unconfigured
  BY DEF SoundAsWritten
<1>3. \A g \in Files : ~Clashes(gs[g].tables, SameMeantTable)
  BY DEF SoundAsWritten
<1>4. \A g \in Files : ~Clashes(Portion(gs[g], sets), SameMeantId)
  BY DEF SoundAsWritten
<1>5. \A S, T : Unrelated(S, T, SameMeantTable) => Unrelated(T, S, SameMeantTable)
  BY MeantSymmetric DEF Symmetric, Unrelated
<1>6. \A S, T : Unrelated(S, T, SameMeantId) => Unrelated(T, S, SameMeantId)
  BY MeantSymmetric DEF Symmetric, Unrelated
<1>7. \A g, h \in Files : g # h =>
        Unrelated(ToSet(gs[g].tables), ToSet(gs[h].tables), SameMeantTable)
  BY <1>5 DEF SoundAsWritten
<1>8. \A g, h \in Files : g # h =>
        Unrelated(ToSet(Portion(gs[g], sets)), ToSet(Portion(gs[h], sets)), SameMeantId)
  BY <1>6 DEF SoundAsWritten
<1> QED BY <1>1, <1>2, <1>3, <1>4, <1>7, <1>8 DEF SoundAsWritten

\* Two entries whose checks are related.
Meets(sets, R) ==
  {p \in Entry \X Entry : ~Unrelated(ToSet(FlattenEntry(p[1], sets)),
                                     ToSet(FlattenEntry(p[2], sets)), R)}

\* Entries two of whose checks are related.
LEMMA MeetsIs ==
  ASSUME NEW sets, NEW R, NEW d \in Entry, NEW e \in Entry
  PROVE  <<d, e>> \in Meets(sets, R) <=>
           \E x \in ToSet(FlattenEntry(d, sets)), y \in ToSet(FlattenEntry(e, sets)) : <<x, y>> \in R
BY DEF Meets, Unrelated

\* Flattened entries clash within one or between two.
LEMMA FlattenTablesClash ==
  ASSUME NEW tables \in Seq(Entry), NEW sets, SetsOK(sets), NEW R
  PROVE  Clashes(FlattenTableChecks(tables, sets), R) <=>
           \/ \E e \in ToSet(tables) : Clashes(FlattenEntry(e, sets), R)
           \/ Clashes(tables, Meets(sets, R))
<1>1. Clashes(FlattenTableChecks(tables, sets), R) <=>
              \/ \E i \in DOMAIN tables : Clashes(FlattenEntry(tables[i], sets), R)
              \/ \E i, j \in DOMAIN tables :
                   /\ i < j
                   /\ \E x \in ToSet(FlattenEntry(tables[i], sets)),
                         y \in ToSet(FlattenEntry(tables[j], sets)) : <<x, y>> \in R
  BY FlattenTablesType
<1>2. \A i \in DOMAIN tables : tables[i] \in Entry
  OBVIOUS
<1>3. Clashes(tables, Meets(sets, R)) <=>
        \E i, j \in DOMAIN tables :
          /\ i < j
          /\ \E x \in ToSet(FlattenEntry(tables[i], sets)),
                y \in ToSet(FlattenEntry(tables[j], sets)) : <<x, y>> \in R
  BY <1>2, MeetsIs DEF Clashes
<1>4. (\E e \in ToSet(tables) : Clashes(FlattenEntry(e, sets), R)) <=>
        \E i \in DOMAIN tables : Clashes(FlattenEntry(tables[i], sets), R)
  BY DEF ToSet
<1> QED BY <1>1, <1>3, <1>4

\* Flattened entries hold what each holds.
LEMMA FlattenTablesSet ==
  ASSUME NEW tables \in Seq(Entry), NEW sets, SetsOK(sets)
  PROVE  \A x : x \in ToSet(FlattenTableChecks(tables, sets)) <=>
           \E e \in ToSet(tables) : x \in ToSet(FlattenEntry(e, sets))
<1>1. ToSet(FlattenTableChecks(tables, sets)) =
        UNION {ToSet(FlattenEntry(tables[i], sets)) : i \in DOMAIN tables}
  BY FlattenTablesType
<1>2. \A x : (\E e \in ToSet(tables) : x \in ToSet(FlattenEntry(e, sets))) <=>
             \E i \in DOMAIN tables : x \in ToSet(FlattenEntry(tables[i], sets))
  BY DEF ToSet
<1> QED BY <1>1, <1>2

\* Entries pasted after others.
LEMMA FlattenAppended ==
  ASSUME NEW s \in Seq(Entry), NEW t \in Seq(Entry), NEW sets, SetsOK(sets), NEW R
  PROVE  /\ ToSet(FlattenTableChecks(s \o t, sets)) =
              ToSet(FlattenTableChecks(s, sets)) \cup ToSet(FlattenTableChecks(t, sets))
         /\ Clashes(FlattenTableChecks(s \o t, sets), R) <=>
              \/ Clashes(FlattenTableChecks(s, sets), R)
              \/ Clashes(FlattenTableChecks(t, sets), R)
              \/ ~Unrelated(ToSet(FlattenTableChecks(s, sets)),
                            ToSet(FlattenTableChecks(t, sets)), R)
<1>0. s \o t \in Seq(Entry)
  BY ConcatSet
<1>a. ToSet(s \o t) = ToSet(s) \cup ToSet(t)
  BY ConcatSet
<1>1. ToSet(FlattenTableChecks(s \o t, sets)) =
        ToSet(FlattenTableChecks(s, sets)) \cup ToSet(FlattenTableChecks(t, sets))
  <2>1. \A x : x \in ToSet(FlattenTableChecks(s \o t, sets)) <=>
           \E e \in ToSet(s) \cup ToSet(t) : x \in ToSet(FlattenEntry(e, sets))
    BY <1>0, <1>a, FlattenTablesSet
  <2>2. \A x : x \in ToSet(FlattenTableChecks(s, sets)) <=>
           \E e \in ToSet(s) : x \in ToSet(FlattenEntry(e, sets))
    BY FlattenTablesSet
  <2>3. \A x : x \in ToSet(FlattenTableChecks(t, sets)) <=>
           \E e \in ToSet(t) : x \in ToSet(FlattenEntry(e, sets))
    BY FlattenTablesSet
  <2> QED BY <2>1, <2>2, <2>3
<1>2. Clashes(FlattenTableChecks(s \o t, sets), R) <=>
        \/ Clashes(FlattenTableChecks(s, sets), R)
        \/ Clashes(FlattenTableChecks(t, sets), R)
        \/ ~Unrelated(ToSet(FlattenTableChecks(s, sets)), ToSet(FlattenTableChecks(t, sets)), R)
  <2>1. Clashes(FlattenTableChecks(s \o t, sets), R) <=>
           \/ \E e \in ToSet(s) \cup ToSet(t) : Clashes(FlattenEntry(e, sets), R)
           \/ Clashes(s \o t, Meets(sets, R))
    BY <1>0, <1>a, FlattenTablesClash
  <2>2. Clashes(FlattenTableChecks(s, sets), R) <=>
           \/ \E e \in ToSet(s) : Clashes(FlattenEntry(e, sets), R)
           \/ Clashes(s, Meets(sets, R))
    BY FlattenTablesClash
  <2>3. Clashes(FlattenTableChecks(t, sets), R) <=>
           \/ \E e \in ToSet(t) : Clashes(FlattenEntry(e, sets), R)
           \/ Clashes(t, Meets(sets, R))
    BY FlattenTablesClash
  <2>4. Clashes(s \o t, Meets(sets, R)) <=>
           \/ Clashes(s, Meets(sets, R)) \/ Clashes(t, Meets(sets, R))
           \/ \E d \in ToSet(s), e \in ToSet(t) : <<d, e>> \in Meets(sets, R)
    BY ConcatClash
  <2>5. (\E d \in ToSet(s), e \in ToSet(t) : <<d, e>> \in Meets(sets, R)) <=>
          ~Unrelated(ToSet(FlattenTableChecks(s, sets)), ToSet(FlattenTableChecks(t, sets)), R)
    <3>1. \A e \in ToSet(s) \cup ToSet(t) : e \in Entry
      BY DEF ToSet
    <3>2. (\E d \in ToSet(s), e \in ToSet(t) : <<d, e>> \in Meets(sets, R)) <=>
            \E d \in ToSet(s), e \in ToSet(t) :
              \E x \in ToSet(FlattenEntry(d, sets)), y \in ToSet(FlattenEntry(e, sets)) :
                <<x, y>> \in R
      BY <3>1, MeetsIs
    <3>3. \A x : x \in ToSet(FlattenTableChecks(s, sets)) <=>
             \E e \in ToSet(s) : x \in ToSet(FlattenEntry(e, sets))
      BY FlattenTablesSet
    <3>4. \A x : x \in ToSet(FlattenTableChecks(t, sets)) <=>
             \E e \in ToSet(t) : x \in ToSet(FlattenEntry(e, sets))
      BY FlattenTablesSet
    <3> QED BY <3>2, <3>3, <3>4 DEF Unrelated
  <2> QED BY <2>1, <2>2, <2>3, <2>4, <2>5
<1> QED BY <1>1, <1>2

\* What a file's entries and blocks contribute together.
LEMMA PortionFacts ==
  ASSUME NEW x, IsFile(x), NEW sets, SetsOK(sets), NEW R
  PROVE  /\ ToSet(Portion(x, sets)) = ToSet(x.checks) \cup ToSet(FlattenTableChecks(x.tables, sets))
         /\ Clashes(Portion(x, sets), R) <=>
              \/ Clashes(x.checks, R)
              \/ Clashes(FlattenTableChecks(x.tables, sets), R)
              \/ ~Unrelated(ToSet(x.checks), ToSet(FlattenTableChecks(x.tables, sets)), R)
         /\ Portion(x, sets) \in Seq(FlatCheck)
         /\ FlattenTableChecks(x.tables, sets) \in Seq(FlatCheck)
<1>1. x.checks \in Seq(FlatCheck) /\ x.tables \in Seq(Entry)
  BY FileFields
<1>2. FlattenTableChecks(x.tables, sets) \in Seq(FlatCheck)
  BY <1>1, FlattenTablesType
<1> DEFINE p == FlattenTableChecks(x.tables, sets)
<1>3. Portion(x, sets) = x.checks \o p
  BY DEF Portion
<1> HIDE DEF p
<1>4. x.checks \o p \in Seq(FlatCheck)
  BY <1>1, <1>2, ConcatSet DEF p
<1>5. ToSet(x.checks \o p) = ToSet(x.checks) \cup ToSet(p)
  BY <1>1, <1>2, ConcatSet DEF p
<1>6. Clashes(x.checks \o p, R) <=>
        \/ Clashes(x.checks, R) \/ Clashes(p, R)
        \/ \E y \in ToSet(x.checks), z \in ToSet(p) : <<y, z>> \in R
  BY <1>1, <1>2, ConcatClash DEF p
<1>7. Clashes(x.checks \o p, R) <=>
        Clashes(x.checks, R) \/ Clashes(p, R) \/ ~Unrelated(ToSet(x.checks), ToSet(p), R)
  BY <1>6 DEF Unrelated
<1> QED BY <1>2, <1>3, <1>4, <1>5, <1>7 DEF p

-----------------------------------------------------------------------------
(* Grouped checks, flattened again.                                        *)

\* The blocks of table t.
OfTable(checks, t) == Where(checks, {b \in ToSet(checks) : b.table = t})

\* Blocks that are all mappings.
IsMapping(b) == b.body # "not a mapping"
AllMappings(checks) == \A b \in ToSet(checks) : IsMapping(b)

\* A block as it comes out of its grouped entry: it may gain the entry's active.
Regained(b, active) ==
  [b EXCEPT !.active = IF b.active = "unset" /\ b.table \in DOMAIN active
                       THEN active[b.table] ELSE b.active]

\* T holds the blocks of S, as they come out.
HoldsRegained(T, S, active) == \A x : x \in T <=> \E b \in S : x = Regained(b, active)

\* A table's blocks, and what they become when nested.
LEMMA OfTableFacts ==
  ASSUME NEW checks \in Seq(FlatCheck), NEW t
  PROVE  /\ OfTable(checks, t) \in Seq(FlatCheck)
         /\ \A b : b \in ToSet(OfTable(checks, t)) <=> b \in ToSet(checks) /\ b.table = t
         /\ DOMAIN NestedChecks(checks, t) = DOMAIN OfTable(checks, t)
         /\ \A i \in DOMAIN OfTable(checks, t) :
              NestedChecks(checks, t)[i] = Nested(OfTable(checks, t)[i])
<1> DEFINE T == {b \in ToSet(checks) : b.table = t}
<1>1. Where(checks, T) \in Seq(FlatCheck)
  BY WhereSet
<1>2. ToSet(Where(checks, T)) = ToSet(checks) \cap T
  BY WhereSet
<1>3. NestedChecks(checks, t) = [i \in DOMAIN Where(checks, T) |-> Nested(Where(checks, T)[i])]
  BY DEF NestedChecks, Nested
<1> QED BY <1>1, <1>2, <1>3 DEF OfTable

\* Nested checks are an entry's.
LEMMA NestedChecksType ==
  ASSUME NEW checks \in Seq(FlatCheck), NEW t
  PROVE  NestedChecks(checks, t) \in Seq(EntryCheck)
BY NestedChecksFacts

\* There are none when no block is of the table.
LEMMA NestedChecksNone ==
  ASSUME NEW checks \in Seq(FlatCheck), NEW t
  PROVE  NestedChecks(checks, t) = <<>> <=> \A b \in ToSet(checks) : b.table # t
BY NestedChecksFacts

\* A block that may gain an active keeps the rest.
LEMMA RegainedFacts ==
  ASSUME NEW b \in FlatCheck, NEW active,
         OnOffAt(active, b.table)
  PROVE  /\ Regained(b, active) \in FlatCheck
         /\ Regained(b, active).table = b.table /\ Regained(b, active).metric = b.metric
         /\ Regained(b, active).id = b.id /\ Regained(b, active).body = b.body
         /\ Regained(b, active).arg = b.arg
         /\ Regained(b, active).active =
              IF b.active = "unset" /\ b.table \in DOMAIN active
              THEN active[b.table] ELSE b.active
         /\ MeantId(Regained(b, active)) = MeantId(b)
<1> DEFINE v == IF b.active = "unset" /\ b.table \in DOMAIN active
                THEN active[b.table] ELSE b.active
<1>1. b \in Block /\ b.table # None /\ b.arg = None /\ b.body # "restating"
  BY DEF FlatCheck
<1>2. v \in Activity
  BY <1>1 DEF Block, Activity, OnOffAt
<1>3. Regained(b, active) = [b EXCEPT !.active = v]
  BY DEF Regained
<1> HIDE DEF v
<1>4. /\ Regained(b, active).table = b.table /\ Regained(b, active).metric = b.metric
      /\ Regained(b, active).id = b.id /\ Regained(b, active).body = b.body
      /\ Regained(b, active).arg = b.arg /\ Regained(b, active).active = v
  BY <1>1, <1>3 DEF Block
<1>5. Regained(b, active) \in Block
  BY <1>1, <1>2, <1>3 DEF Block
<1>6. MeantId(Regained(b, active)) = MeantId(b)
  BY <1>4 DEF MeantId
<1> QED BY <1>1, <1>4, <1>5, <1>6 DEF FlatCheck, v

\* Two blocks with the same fields are the same.
LEMMA SameBlock ==
  ASSUME NEW b \in FlatCheck, NEW c \in FlatCheck,
         b.table = c.table, b.metric = c.metric, b.id = c.id, b.active = c.active,
         b.body = c.body
  PROVE  b = c
<1>1. /\ b = [table |-> b.table, metric |-> b.metric, id |-> b.id,
              active |-> b.active, arg |-> b.arg, body |-> b.body]
      /\ b.arg = None
  BY FlatCheckFields
<1>2. /\ c = [table |-> c.table, metric |-> c.metric, id |-> c.id,
              active |-> c.active, arg |-> c.arg, body |-> c.body]
      /\ c.arg = None
  BY FlatCheckFields
<1> QED BY <1>1, <1>2

\* The empty sequence adds nothing.
LEMMA EmptyConcat == ASSUME NEW X, NEW s \in Seq(X) PROVE <<>> \o s = s /\ s \o <<>> = s
<1>1. <<>> \in Seq(X) /\ Len(<<>>) = 0
  OBVIOUS
<1>2. Len(s) \in Nat /\ s = [k \in 1..Len(s) |-> s[k]]
  BY SequenceIs
<1>3. <<>> \o s = [k \in 1..(0 + Len(s)) |-> IF k <= 0 THEN <<>>[k] ELSE s[k - 0]]
  BY <1>1, ConcatIs
<1>4. s \o <<>> = [k \in 1..(Len(s) + 0) |-> IF k <= Len(s) THEN s[k] ELSE <<>>[k - Len(s)]]
  BY <1>1, ConcatIs
<1>5. [k \in 1..(0 + Len(s)) |-> IF k <= 0 THEN <<>>[k] ELSE s[k - 0]] = [k \in 1..Len(s) |-> s[k]]
  BY <1>2
<1>6. [k \in 1..(Len(s) + 0) |-> IF k <= Len(s) THEN s[k] ELSE <<>>[k - Len(s)]]
        = [k \in 1..Len(s) |-> s[k]]
  BY <1>2
<1> QED BY <1>2, <1>3, <1>4, <1>5, <1>6

\* A grouped entry has no problem and flattens to its table's blocks.
LEMMA GroupEntryFlat ==
  ASSUME NEW checks \in Seq(FlatCheck), AllMappings(checks),
         NEW active, NEW about, NEW t \in Tables,
         OnOffAt(active, t),
         NEW sets, SetsOK(sets)
  PROVE  LET e == GroupEntry(checks, active, about, t)
             w == OfTable(checks, t)
         IN  /\ EntryProblems(e, sets) = {}
             /\ DOMAIN FlattenEntry(e, sets) = DOMAIN w
             /\ \A i \in DOMAIN w : FlattenEntry(e, sets)[i] = Regained(w[i], active)
<1> DEFINE e == GroupEntry(checks, active, about, t)
           w == OfTable(checks, t)
           n == NestedChecks(checks, t)
<1>1. /\ e \in Entry /\ e.table = t /\ e.use = None /\ e.with = {} /\ e.skip = {} /\ e.checks = n
      /\ e.active = IF t \in DOMAIN active THEN active[t] ELSE "unset"
  <2>1. e \in Entry
    BY GroupEntryType
  <2> QED BY <2>1 DEF GroupEntry
<1>2. t # None /\ None \notin DOMAIN sets
  BY ConfigAssumption DEF SetsOK
<1>3. /\ w \in Seq(FlatCheck)
      /\ \A b : b \in ToSet(w) <=> b \in ToSet(checks) /\ b.table = t
      /\ DOMAIN n = DOMAIN w
      /\ \A i \in DOMAIN w : n[i] = Nested(w[i])
  BY OfTableFacts
<1>n. n \in Seq(EntryCheck)
  BY NestedChecksType
<1> HIDE DEF e, w, n
<1>4. \A i \in DOMAIN w : w[i] \in FlatCheck /\ w[i].table = t /\ IsMapping(w[i])
  BY <1>3 DEF ToSet, AllMappings
<1>5. \A i \in DOMAIN w : Nested(w[i]) \in SetItem /\ Placeable(Nested(w[i]))
  <2> SUFFICES ASSUME NEW i \in DOMAIN w PROVE Nested(w[i]) \in SetItem /\ Placeable(Nested(w[i]))
    OBVIOUS
  <2>1. Nested(w[i]) \in EntryCheck /\ Nested(w[i]).body = w[i].body
    BY <1>4, NestedFields
  <2>2. w[i].body # "restating"
    BY <1>4, FlatCheckFields
  <2> QED BY <1>4, <2>1, <2>2 DEF EntryCheck, Placeable, IsMapping
<1>6. \A b \in ToSet(n) : Placeable(b)
  BY <1>3, <1>5 DEF ToSet
<1>7. ~Meaningless(e)
  BY <1>1 DEF Meaningless
<1>8. EntryProblems(e, sets) = {}
  BY <1>1, <1>2, <1>6, <1>7, EntryProblemsOrNone
<1>9. Blocks(e, sets) = n
  <2>1. Expanded(e, sets) = <<>>
    BY <1>1, <1>2 DEF Expanded
  <2>2. ToSet(n) \subseteq {b \in ToSet(n) : Placeable(b)}
    BY <1>6
  <2>3. Where(n, {b \in ToSet(n) : Placeable(b)}) = n
    BY <1>n, <2>2, WhereAll
  <2>4. <<>> \o n = n
    BY <1>n, EmptyConcat
  <2> QED BY <1>1, <2>1, <2>3, <2>4 DEF Blocks
<1>10. DOMAIN FlattenEntry(e, sets) = DOMAIN n
       /\ \A i \in DOMAIN n : FlattenEntry(e, sets)[i] = Flat(n[i], e)
  BY <1>1, <1>2, <1>7, <1>9, FlattenEntryIs
<1>11. ASSUME NEW i \in DOMAIN w
       PROVE  Flat(n[i], e) = Regained(w[i], active)
  <2> DEFINE b == w[i]
             a == Flat(Nested(b), e)
             c == Regained(b, active)
  <2>1. b \in FlatCheck /\ b.table = t
    BY <1>4
  <2>2. Nested(b) \in SetItem /\ Placeable(Nested(b)) /\ n[i] = Nested(b)
    BY <1>3, <1>5
  <2> HIDE DEF b
  <2>3. /\ Nested(b).metric = b.metric /\ Nested(b).id = b.id
        /\ Nested(b).active = b.active /\ Nested(b).body = b.body
    BY <2>1, NestedFields
  <2>4. /\ a \in FlatCheck /\ a.table = t /\ a.metric = Nested(b).metric /\ a.id = Nested(b).id
        /\ a.active = WithEntryActive(Nested(b), e) /\ a.body = Nested(b).body
    BY <1>1, <1>2, <2>2, FlatFields
  <2>5. /\ c \in FlatCheck /\ c.table = b.table /\ c.metric = b.metric /\ c.id = b.id
        /\ c.body = b.body
        /\ c.active = IF b.active = "unset" /\ b.table \in DOMAIN active
                      THEN active[b.table] ELSE b.active
    BY <2>1, RegainedFacts
  <2>6. a.active = c.active
    BY <1>1, <2>1, <2>3, <2>4, <2>5 DEF WithEntryActive
  <2> HIDE DEF a, c
  <2>7. a = c
    BY <2>1, <2>3, <2>4, <2>5, <2>6, SameBlock
  <2> QED BY <2>2, <2>7 DEF a, b, c
<1> QED BY <1>3, <1>8, <1>10, <1>11 DEF e, w

\* What the entries of grouped checks hold together.
LEMMA GroupFlattened ==
  ASSUME NEW checks \in Seq(FlatCheck), AllMappings(checks),
         NEW active, NEW about, NEW order \in Seq(Tables),
         OnOff(active),
         NEW sets, SetsOK(sets)
  PROVE  LET g == GroupChecksByTable(checks, active, about, order)
         IN  /\ g \in Seq(Entry)
             /\ \A e \in ToSet(g) : /\ EntryProblems(e, sets) = {} /\ e.use = None
                                    /\ e.table \in KeptTables(checks, active, about, order)
                                    /\ Describes(e) => e.table \in about
             /\ \A i, j \in DOMAIN g : i # j => g[i].table # g[j].table
             /\ \A t \in KeptTables(checks, active, about, order) :
                  \E e \in ToSet(g) : e.table = t /\ (t \in about => Describes(e))
             /\ HoldsRegained(ToSet(FlattenTableChecks(g, sets)), ToSet(checks), active)
             /\ Clashes(FlattenTableChecks(g, sets), SameMeantId) => Clashes(checks, SameMeantId)
<1> DEFINE g == GroupChecksByTable(checks, active, about, order)
           kept == KeptInOrder(checks, active, about, order)
           K == KeptTables(checks, active, about, order)
           E(t) == GroupEntry(checks, active, about, t)
<1>1. g \in Seq(Entry)
  BY GroupType
<1>a. \A t : OnOffAt(active, t)
  BY DEF OnOff, OnOffAt
<1>2. kept \in Seq(Tables) /\ ToSet(kept) = K /\ IsInjective(kept)
  <2>1. kept \in Seq(Tables)
    BY GroupFacts
  <2>2. ToSet(kept) = K
    BY GroupFacts
  <2>3. IsInjective(kept)
    BY GroupFacts
  <2> QED BY <2>1, <2>2, <2>3
<1>3. g = [i \in DOMAIN kept |-> E(kept[i])]
  <2>1. g = GroupedAs(kept, checks, active, about)
    BY GroupFacts
  <2> QED BY <2>1 DEF GroupedAs
<1>4. \A t : E(t).table = t /\ E(t).use = None /\ (E(t).about # None <=> t \in about)
  <2> TAKE t
  <2>1. E(t).table = t /\ E(t).use = None /\ E(t).about = IF t \in about THEN "text" ELSE None
    BY DEF GroupEntry
  <2> QED BY <2>1 DEF None
<1>5. \A b \in ToSet(checks) : b \in FlatCheck /\ b.table \in Tables
  <2>1. \A b \in ToSet(checks) : b \in FlatCheck
    BY DEF ToSet
  <2> QED BY <2>1, FlatCheckFields
<1>6. ASSUME NEW b \in ToSet(checks) PROVE b.table \in K
  <2>1. NestedChecks(checks, b.table) # <<>>
    BY NestedChecksNone
  <2>2. b.table \in ToSet(TablesOf(checks))
    <3>1. Len(checks) \in Nat /\ DOMAIN checks = 1..Len(checks)
      OBVIOUS
    <3>2. \A i \in 1..Len(checks) : checks[i].table \in Tables
      BY <1>5, <3>1 DEF ToSet
    <3>3. ToSet(TablesOf(checks)) = {checks[i].table : i \in DOMAIN checks}
      BY <3>1, <3>2, TablesOfType
    <3> QED BY <3>3 DEF ToSet
  <2> QED BY <2>1, <2>2 DEF KeptTables
<1>7. ASSUME NEW t \in K
      PROVE  /\ t \in Tables
             /\ EntryProblems(E(t), sets) = {}
             /\ DOMAIN FlattenEntry(E(t), sets) = DOMAIN OfTable(checks, t)
             /\ \A i \in DOMAIN OfTable(checks, t) :
                  FlattenEntry(E(t), sets)[i] = Regained(OfTable(checks, t)[i], active)
  <2>0. \A k \in ToSet(kept) : k \in Tables
    <3> HIDE DEF kept
    <3> QED BY <1>2 DEF ToSet
  <2>1. t \in Tables
    BY <2>0, <1>2
  <2> HIDE DEF K
  <2>2. EntryProblems(E(t), sets) = {}
    BY <2>1, <1>a, GroupEntryFlat
  <2>3. DOMAIN FlattenEntry(E(t), sets) = DOMAIN OfTable(checks, t)
    BY <2>1, <1>a, GroupEntryFlat
  <2>4. \A i \in DOMAIN OfTable(checks, t) :
          FlattenEntry(E(t), sets)[i] = Regained(OfTable(checks, t)[i], active)
    BY <2>1, <1>a, GroupEntryFlat
  <2> QED BY <2>1, <2>2, <2>3, <2>4
<1>8. \A x : x \in ToSet(g) <=> \E t \in K : x = E(t)
  <2> HIDE DEF g, kept, K, E
  <2>1. \A x : x \in ToSet(g) <=> \E i \in DOMAIN kept : x = E(kept[i])
    BY <1>3 DEF ToSet
  <2>2. \A t : t \in K <=> \E i \in DOMAIN kept : t = kept[i]
    BY <1>2 DEF ToSet
  <2> QED BY <2>1, <2>2
<1>o. ASSUME NEW t
      PROVE  /\ OfTable(checks, t) \in Seq(FlatCheck)
             /\ \A b : b \in ToSet(OfTable(checks, t)) <=> b \in ToSet(checks) /\ b.table = t
  BY OfTableFacts
<1>9. ASSUME NEW t \in K
      PROVE  \A x : x \in ToSet(FlattenEntry(E(t), sets)) <=>
               \E b \in ToSet(checks) : b.table = t /\ x = Regained(b, active)
  <2>1. \A x : x \in ToSet(FlattenEntry(E(t), sets)) <=>
          \E b \in ToSet(OfTable(checks, t)) : x = Regained(b, active)
    BY <1>7 DEF ToSet
  <2> QED BY <1>o, <2>1
<1> HIDE DEF g, kept, K, E
<1>10. \A e \in ToSet(g) : /\ EntryProblems(e, sets) = {} /\ e.use = None
                           /\ e.table \in K /\ (Describes(e) => e.table \in about)
  BY <1>4, <1>7, <1>8 DEF Describes
<1>11. \A i, j \in DOMAIN g : i # j => g[i].table # g[j].table
  BY <1>2, <1>3, <1>4 DEF IsInjective
<1>12. \A t \in K : \E e \in ToSet(g) : e.table = t /\ (t \in about => Describes(e))
  <2> SUFFICES ASSUME NEW t \in K
               PROVE  /\ E(t) \in ToSet(g)
                      /\ E(t).table = t
                      /\ (t \in about => Describes(E(t)))
    OBVIOUS
  <2>1. t # None
    BY <1>7, ConfigAssumption
  <2> QED BY <1>4, <1>8, <2>1 DEF Describes
<1>13. \A x : x \in ToSet(FlattenTableChecks(g, sets)) <=>
                \E b \in ToSet(checks) : x = Regained(b, active)
  <2>1. \A x : x \in ToSet(FlattenTableChecks(g, sets)) <=>
          \E e \in ToSet(g) : x \in ToSet(FlattenEntry(e, sets))
    BY <1>1, FlattenTablesSet
  <2>2. \A x : x \in ToSet(FlattenTableChecks(g, sets)) <=>
          \E t \in K : x \in ToSet(FlattenEntry(E(t), sets))
    BY <1>8, <2>1
  <2> QED BY <1>6, <1>9, <2>2
<1>14. ASSUME NEW t \in K, Clashes(FlattenEntry(E(t), sets), SameMeantId)
       PROVE  Clashes(checks, SameMeantId)
  <2> DEFINE w == OfTable(checks, t)
  <2>1. DOMAIN FlattenEntry(E(t), sets) = DOMAIN w
        /\ \A i \in DOMAIN w : FlattenEntry(E(t), sets)[i] = Regained(w[i], active)
    BY <1>7
  <2>2. w \in Seq(FlatCheck)
    BY <1>o
  <2> HIDE DEF w
  <2>3. \A i \in DOMAIN w : w[i] \in FlatCheck
    BY <2>2
  <2>4. \A i \in DOMAIN w : MeantId(Regained(w[i], active)) = MeantId(w[i])
    BY <1>a, <2>3, RegainedFacts
  <2>5. PICK i, j \in DOMAIN w : i < j /\ <<Regained(w[i], active), Regained(w[j], active)>> \in SameMeantId
    BY <1>14, <2>1 DEF Clashes
  <2>6. <<w[i], w[j]>> \in SameMeantId
    BY <2>3, <2>4, <2>5, MeantRelated
  <2>7. Clashes(w, SameMeantId)
    BY <2>5, <2>6 DEF Clashes
  <2>8. Clashes(Where(checks, {b \in ToSet(checks) : b.table = t}), SameMeantId)
    BY <2>7 DEF w, OfTable
  <2>9. \E k, l \in DOMAIN checks : k < l /\ <<checks[k], checks[l]>> \in SameMeantId
    BY <2>8, WhereClash
  <2> QED BY <2>9 DEF Clashes
<1>15. ASSUME Clashes(g, Meets(sets, SameMeantId))
       PROVE  Clashes(checks, SameMeantId)
  <2>1. PICK i, j \in DOMAIN g : i < j /\ <<g[i], g[j]>> \in Meets(sets, SameMeantId)
    BY <1>15 DEF Clashes
  <2>2. g[i] \in Entry /\ g[j] \in Entry /\ g[i] \in ToSet(g) /\ g[j] \in ToSet(g) /\ i # j
    BY <1>1, <2>1 DEF ToSet
  <2>3. PICK x \in ToSet(FlattenEntry(g[i], sets)), y \in ToSet(FlattenEntry(g[j], sets)) :
          <<x, y>> \in SameMeantId
    BY <2>1, <2>2, MeetsIs
  <2>4. PICK t \in K : g[i] = E(t)
    BY <1>8, <2>2
  <2>5. PICK u \in K : g[j] = E(u)
    BY <1>8, <2>2
  <2>6. t # u
    BY <1>4, <1>11, <2>2, <2>4, <2>5
  <2>7. PICK b \in ToSet(checks) : b.table = t /\ x = Regained(b, active)
    BY <1>9, <2>3, <2>4
  <2>8. PICK c \in ToSet(checks) : c.table = u /\ y = Regained(c, active)
    BY <1>9, <2>3, <2>5
  <2>9. MeantId(x) = MeantId(b) /\ MeantId(y) = MeantId(c)
    BY <1>5, <2>7, <2>8, <1>a, RegainedFacts
  <2>10. MeantId(b) = MeantId(c)
    BY <2>3, <2>9, MeantRelated
  <2>11. <<b, c>> \in SameMeantId /\ <<c, b>> \in SameMeantId
    BY <1>5, <2>10, MeantRelated
  <2>12. PICK k, l \in DOMAIN checks : checks[k] = b /\ checks[l] = c
    BY DEF ToSet
  <2>13. k # l /\ k \in Nat /\ l \in Nat
    BY <2>6, <2>7, <2>8, <2>12
  <2>14. k < l \/ l < k
    BY <2>13
  <2> QED BY <2>11, <2>12, <2>14 DEF Clashes
<1>16. Clashes(FlattenTableChecks(g, sets), SameMeantId) => Clashes(checks, SameMeantId)
  <2>1. Clashes(FlattenTableChecks(g, sets), SameMeantId) <=>
           \/ \E e \in ToSet(g) : Clashes(FlattenEntry(e, sets), SameMeantId)
           \/ Clashes(g, Meets(sets, SameMeantId))
    BY <1>1, FlattenTablesClash
  <2> QED BY <1>8, <1>14, <1>15, <2>1
<1>17. HoldsRegained(ToSet(FlattenTableChecks(g, sets)), ToSet(checks), active)
  BY <1>13 DEF HoldsRegained
<1> QED BY <1>1, <1>10, <1>11, <1>12, <1>16, <1>17 DEF g, K

-----------------------------------------------------------------------------
(* Adding checks.                                                          *)

\* No written name but its own becomes the name of an object the wizard is run for.
NoAliases == \A t \in Tables, o \in Objects : Meant[t] = o => t = o

\* The ids in use are those of the checks as they are written.
LEMMA DefinedIdsAre ==
  ASSUME NEW fs, FilesOK(fs), SetsOK(ComposedSets(fs, LoadOrder))
  PROVE  \A i : i \in DefinedIds(fs) <=>
           \E f \in Files : \E b \in ToSet(Portion(fs[f], ComposedSets(fs, LoadOrder))) :
             i = CheckId(b)
<1> DEFINE sets == ComposedSets(fs, LoadOrder)
           raw == RawChecks(fs, LoadOrder, sets)
<1>1. ToSet(raw) = UNION {ToSet(Portion(fs[f], sets)) : f \in Files}
  BY Together, LoadOrderIsOrdering
<1>2. DefinedIds(fs) = {CheckId(b) : b \in ToSet(raw)}
  BY DEF DefinedIds
<1> HIDE DEF raw, sets
<1>3. \A i : i \in DefinedIds(fs) <=> \E b \in ToSet(raw) : i = CheckId(b)
  BY <1>2
<1> QED BY <1>1, <1>3 DEF sets

\* A block that the wizard proposes for table t.
ProposedFor(b, t) == b \in FlatCheck /\ b.table = t /\ b.id = None /\ b.body = "good"

\* Its id is that of its table and metric, read or written.
LEMMA ProposedIds ==
  ASSUME NEW t \in Objects, NEW b, ProposedFor(b, t)
  PROVE  /\ CheckId(b) = <<t, b.metric>> /\ MeantId(b) = <<t, b.metric>>
         /\ Resolved(b.table, {}) = t
         /\ t \notin Unconfigured /\ t \in Tables
<1>1. t \in Tables /\ t \notin Unconfigured /\ Meant[t] = t /\ t # None
  BY ConfigEditsAssumption, ConfigAssumption
<1>2. b.table = t /\ b.id = None
  BY DEF ProposedFor
<1>3. Resolved(b.table, {}) = t
  BY <1>1, <1>2 DEF Resolved
<1> QED BY <1>1, <1>2, <1>3 DEF CheckId, MeantId

\* A proposed block whose id is new shares what its id comes to mean with no
\* other check.
LEMMA NewIsFresh ==
  ASSUME NoAliases, NEW t \in Objects, NEW b, ProposedFor(b, t),
         NEW c \in FlatCheck, CheckId(c) # CheckId(b)
  PROVE  <<c, b>> \notin SameMeantId
<1>1. CheckId(b) = <<t, b.metric>> /\ MeantId(b) = <<t, b.metric>>
  BY ProposedIds
<1>2. c.table \in Tables /\ c.table # None
  BY FlatCheckFields
<1>3. Resolved(c.table, {}) = Meant[c.table]
  BY <1>2 DEF Resolved
<1>4. CASE c.id # None
  <2>1. MeantId(c) = <<c.id>>
    BY <1>4 DEF MeantId
  <2>2. <<c.id>> # <<t, b.metric>>
    OBVIOUS
  <2> QED BY <1>1, <2>1, <2>2, MeantRelated
<1>5. CASE c.id = None
  <2>1. MeantId(c) = <<Meant[c.table], c.metric>> /\ CheckId(c) = <<c.table, c.metric>>
    BY <1>3, <1>5 DEF MeantId, CheckId
  <2>2. SUFFICES ASSUME MeantId(c) = MeantId(b) PROVE FALSE
    BY MeantRelated
  <2>3. Meant[c.table] = t /\ c.metric = b.metric
    BY <1>1, <2>1, <2>2
  <2>4. c.table = t
    BY <1>2, <2>3 DEF NoAliases
  <2> QED BY <1>1, <2>1, <2>3, <2>4
<1> QED BY <1>4, <1>5

\* What is proposed and kept is new and has ids of its own.
LEMMA KeptProposals ==
  ASSUME NoAliases, NEW t \in Objects, NEW metrics \in Proposals, NEW fs,
         NEW new, new = PartitionNewChecks(fs, Proposed(t, metrics))
  PROVE  /\ new \in Seq(FlatCheck) /\ AllMappings(new)
         /\ \A b \in ToSet(new) : ProposedFor(b, t) /\ CheckId(b) \notin DefinedIds(fs)
         /\ ~Clashes(new, SameMeantId)
<1> DEFINE blocks == Proposed(t, metrics)
<1>1. blocks \in Seq(FlatCheck)
  BY ProposedType
<1>2. \A b \in ToSet(blocks) : b.table = t /\ b.id = None /\ b.body = "good"
  BY ProposedType
<1>3. \A b \in ToSet(blocks) : ProposedFor(b, t)
  BY <1>1, <1>2 DEF ProposedFor, ToSet
<1> HIDE DEF blocks
<1>4. new \in Seq(FlatCheck)
  BY <1>1, PartitionFacts DEF blocks
<1>5. \A b \in ToSet(new) : b \in ToSet(blocks) /\ CheckId(b) \notin DefinedIds(fs)
  BY <1>1, PartitionFacts DEF blocks
<1>6. ASSUME Clashes(new, SameMeantId) PROVE FALSE
  <2>0. \A R : Clashes(new, R) =>
          \E b, c \in ToSet(blocks) : CheckId(b) # CheckId(c) /\ <<b, c>> \in R
    BY <1>1, PartitionFacts DEF blocks
  <2>1. PICK b, c \in ToSet(blocks) : CheckId(b) # CheckId(c) /\ <<b, c>> \in SameMeantId
    BY <1>6, <2>0
  <2>2. ProposedFor(b, t) /\ ProposedFor(c, t) /\ b \in FlatCheck
    BY <1>3 DEF ProposedFor
  <2> QED BY <2>1, <2>2, NewIsFresh
<1>7. \A b \in ToSet(new) : IsMapping(b)
  <2> SUFFICES ASSUME NEW b \in ToSet(new) PROVE IsMapping(b)
    OBVIOUS
  <2>1. ProposedFor(b, t)
    BY <1>3, <1>5
  <2> QED BY <2>1 DEF ProposedFor, IsMapping
<1> QED BY <1>3, <1>4, <1>5, <1>6, <1>7 DEF AllMappings

\* The pasted entries hold the new blocks and nothing else.
LEMMA PastedGroup ==
  ASSUME NEW new \in Seq(FlatCheck), AllMappings(new), ~Clashes(new, SameMeantId),
         NEW sets, SetsOK(sets)
  PROVE  LET g == GroupChecksByTable(new, <<>>, {}, <<>>)
         IN  /\ g \in Seq(Entry)
             /\ \A e \in ToSet(g) : EntryProblems(e, sets) = {} /\ ~Describes(e)
             /\ ToSet(FlattenTableChecks(g, sets)) = ToSet(new)
             /\ ~Clashes(FlattenTableChecks(g, sets), SameMeantId)
<1> DEFINE g == GroupChecksByTable(new, <<>>, {}, <<>>)
<1>0. DOMAIN <<>> = {} /\ <<>> \in Seq(Tables)
  OBVIOUS
<1>1. OnOff(<<>>)
  BY <1>0 DEF OnOff
<1>2. g \in Seq(Entry)
  BY AddedGroup
<1>3. \A e \in ToSet(g) : EntryProblems(e, sets) = {} /\ ~Describes(e)
  <2> SUFFICES ASSUME NEW e \in ToSet(g) PROVE EntryProblems(e, sets) = {} /\ ~Describes(e)
    OBVIOUS
  <2>1. EntryProblems(e, sets) = {}
    BY <1>0, <1>1, GroupFlattened
  <2>2. Describes(e) => e.table \in {}
    BY <1>0, <1>1, GroupFlattened
  <2> QED BY <2>1, <2>2
<1>4. \A x : x \in ToSet(FlattenTableChecks(g, sets)) <=>
               \E b \in ToSet(new) : x = Regained(b, <<>>)
  <2>1. HoldsRegained(ToSet(FlattenTableChecks(g, sets)), ToSet(new), <<>>)
    BY <1>0, <1>1, GroupFlattened
  <2> QED BY <2>1 DEF HoldsRegained
<1>5. ~Clashes(FlattenTableChecks(g, sets), SameMeantId)
  BY <1>0, <1>1, GroupFlattened
<1>6. ASSUME NEW b \in ToSet(new) PROVE Regained(b, <<>>) = b
  <2>1. b \in FlatCheck
    BY DEF ToSet
  <2>2. OnOffAt(<<>>, b.table)
    BY <1>0 DEF OnOffAt
  <2> DEFINE c == Regained(b, <<>>)
  <2>3. /\ c \in FlatCheck /\ c.table = b.table /\ c.metric = b.metric /\ c.id = b.id
        /\ c.body = b.body
        /\ c.active = IF b.active = "unset" /\ b.table \in DOMAIN <<>>
                      THEN <<>>[b.table] ELSE b.active
    BY <2>1, <2>2, RegainedFacts
  <2> HIDE DEF c
  <2>4. c.active = b.active
    BY <1>0, <2>3
  <2>5. c = b
    BY <2>1, <2>3, <2>4, SameBlock
  <2> QED BY <2>5 DEF c
<1> HIDE DEF g
<1>7. \A x : x \in ToSet(FlattenTableChecks(g, sets)) <=> x \in ToSet(new)
  BY <1>4, <1>6
<1>8. ToSet(FlattenTableChecks(g, sets)) = ToSet(new)
  BY <1>7
<1> QED BY <1>2, <1>3, <1>5, <1>8 DEF g

\* A file with other entries.
WithTables(x, t) == [x EXCEPT !.tables = t]

\* It is a file that keeps the rest.
LEMMA TablesReplaced ==
  ASSUME NEW x, IsFile(x), NEW t \in Seq(Entry)
  PROVE  /\ IsFile(WithTables(x, t)) /\ WithTables(x, t).checks = x.checks
         /\ WithTables(x, t).sets = x.sets /\ WithTables(x, t).tables = t
<1> DEFINE y == WithTables(x, t)
<1>1. x \in [checks : Seq(FlatCheck), tables : Seq(Entry), sets : {x.sets}]
  BY DEF IsFile
<1>2. x.sets \in [DOMAIN x.sets -> CheckSet] /\ DOMAIN x.sets \subseteq SetNames
  BY DEF IsFile
<1>3. /\ y \in [checks : Seq(FlatCheck), tables : Seq(Entry), sets : {x.sets}]
      /\ y.sets = x.sets /\ y.checks = x.checks /\ y.tables = t
  BY <1>1 DEF WithTables
<1> HIDE DEF y
<1>4. IsFile(y)
  BY <1>2, <1>3 DEF IsFile
<1> QED BY <1>3, <1>4 DEF y

\* What a file holds with the new blocks pasted into it.
Extended(x, g) == WithTables(x, x.tables \o g)

\* It holds what it held and what was pasted, and clashes where either does or both meet.
LEMMA PastedFile ==
  ASSUME NEW x, IsFile(x), NEW sets, SetsOK(sets), NEW g \in Seq(Entry)
  PROVE  LET y == Extended(x, g) IN
         /\ IsFile(y) /\ y.sets = x.sets /\ y.tables = x.tables \o g
         /\ ToSet(y.tables) = ToSet(x.tables) \cup ToSet(g)
         /\ ToSet(Portion(y, sets)) = ToSet(Portion(x, sets)) \cup ToSet(FlattenTableChecks(g, sets))
         /\ \A R : Clashes(Portion(y, sets), R) =>
              \/ Clashes(Portion(x, sets), R)
              \/ Clashes(FlattenTableChecks(g, sets), R)
              \/ ~Unrelated(ToSet(Portion(x, sets)), ToSet(FlattenTableChecks(g, sets)), R)
<1> DEFINE t == x.tables \o g
           y == Extended(x, g)
<1>1. x.tables \in Seq(Entry)
  BY FileFields
<1>2. t \in Seq(Entry) /\ ToSet(t) = ToSet(x.tables) \cup ToSet(g)
  BY <1>1, ConcatSet
<1>3. IsFile(y) /\ y.checks = x.checks /\ y.sets = x.sets /\ y.tables = t
  BY <1>2, TablesReplaced DEF Extended
<1> HIDE DEF y
<1> DEFINE F == ToSet(FlattenTableChecks(x.tables, sets))
           G == ToSet(FlattenTableChecks(g, sets))
           H == ToSet(FlattenTableChecks(y.tables, sets))
<1>4. H = F \cup G
  <2>1. ToSet(FlattenTableChecks(x.tables \o g, sets)) = F \cup G
    BY <1>1, FlattenAppended
  <2> QED BY <1>3, <2>1
<1>5. ToSet(Portion(x, sets)) = ToSet(x.checks) \cup F
  BY PortionFacts
<1>6. ToSet(Portion(y, sets)) = ToSet(x.checks) \cup H
  BY <1>3, PortionFacts
<1>7. ASSUME NEW R, Clashes(Portion(y, sets), R)
      PROVE  \/ Clashes(Portion(x, sets), R)
             \/ Clashes(FlattenTableChecks(g, sets), R)
             \/ ~Unrelated(ToSet(Portion(x, sets)), G, R)
  <2>1. Clashes(Portion(x, sets), R) <=>
              \/ Clashes(x.checks, R)
              \/ Clashes(FlattenTableChecks(x.tables, sets), R)
              \/ ~Unrelated(ToSet(x.checks), F, R)
    BY PortionFacts
  <2>2. \/ Clashes(x.checks, R)
        \/ Clashes(FlattenTableChecks(y.tables, sets), R)
        \/ ~Unrelated(ToSet(x.checks), H, R)
    <3>1. Clashes(Portion(y, sets), R) <=>
              \/ Clashes(y.checks, R)
              \/ Clashes(FlattenTableChecks(y.tables, sets), R)
              \/ ~Unrelated(ToSet(y.checks), H, R)
      BY <1>3, PortionFacts
    <3> QED BY <1>3, <1>7, <3>1
  <2>3. Clashes(FlattenTableChecks(y.tables, sets), R) =>
              \/ Clashes(FlattenTableChecks(x.tables, sets), R)
              \/ Clashes(FlattenTableChecks(g, sets), R)
              \/ ~Unrelated(F, G, R)
    <3>1. Clashes(FlattenTableChecks(x.tables \o g, sets), R) <=>
              \/ Clashes(FlattenTableChecks(x.tables, sets), R)
              \/ Clashes(FlattenTableChecks(g, sets), R)
              \/ ~Unrelated(F, G, R)
      BY <1>1, FlattenAppended
    <3> QED BY <1>3, <3>1
  <2> HIDE DEF F, G, H
  <2>4. ~Unrelated(ToSet(x.checks), H, R) =>
           ~Unrelated(ToSet(x.checks), F, R) \/ ~Unrelated(ToSet(Portion(x, sets)), G, R)
    BY <1>4, <1>5 DEF Unrelated
  <2>5. ~Unrelated(F, G, R) => ~Unrelated(ToSet(Portion(x, sets)), G, R)
    BY <1>5 DEF Unrelated
  <2> QED BY <2>1, <2>2, <2>3, <2>4, <2>5
<1> HIDE DEF F, G, H
<1>8. ToSet(Portion(y, sets)) = ToSet(Portion(x, sets)) \cup G
  BY <1>4, <1>5, <1>6
<1> QED BY <1>2, <1>3, <1>7, <1>8 DEF G, y

\* Adding the proposed checks to a configuration that loads.
LEMMA AddedLoads ==
  ASSUME TypeOK, NoAliases, Loads(files),
         NEW f \in Files, NEW t \in Objects, NEW metrics \in Proposals,
         NEW new, new = PartitionNewChecks(files, Proposed(t, metrics)),
         NEW after, after = Pasted(f, new)
  PROVE  /\ Loads(after)
         /\ Meaning(files, LoadOrder).checks \subseteq Meaning(after, LoadOrder).checks
         /\ PartitionNewChecks(after, Proposed(t, metrics)) = <<>>
<1> DEFINE sets == ComposedSets(files, LoadOrder)
           x == files[f]
           g == GroupChecksByTable(new, <<>>, {}, <<>>)
           y == Extended(x, g)
           P == ToSet(Portion(x, sets))
           Q == ToSet(Portion(y, sets))
<1>1. FilesOK(files) /\ IsFile(x)
  BY DEF TypeOK, FilesOK
<1>2. SetsOnce(files) /\ SoundAsWritten(files, sets)
  BY <1>1, LoadsAsWritten
<1>3. SetsOK(sets)
  BY <1>1, <1>2, ReadSets
<1>4. after = [files EXCEPT ![f] = y]
  BY DEF Pasted, WithTables, Extended
<1>5. after[f] = y /\ \A h \in Files : h # f => after[h] = files[h]
  BY <1>4 DEF TypeOK
<1> HIDE DEF sets
<1>6. /\ new \in Seq(FlatCheck) /\ AllMappings(new) /\ ~Clashes(new, SameMeantId)
      /\ \A b \in ToSet(new) : ProposedFor(b, t) /\ CheckId(b) \notin DefinedIds(files)
  <2>1. new \in Seq(FlatCheck)
    BY KeptProposals
  <2>2. AllMappings(new)
    BY KeptProposals
  <2>3. ~Clashes(new, SameMeantId)
    BY KeptProposals
  <2>4. \A b \in ToSet(new) : ProposedFor(b, t) /\ CheckId(b) \notin DefinedIds(files)
    BY KeptProposals
  <2> QED BY <2>1, <2>2, <2>3, <2>4
<1>7. /\ g \in Seq(Entry)
      /\ \A e \in ToSet(g) : EntryProblems(e, sets) = {} /\ ~Describes(e)
      /\ ToSet(FlattenTableChecks(g, sets)) = ToSet(new)
      /\ ~Clashes(FlattenTableChecks(g, sets), SameMeantId)
  BY <1>3, <1>6, PastedGroup
<1> HIDE DEF g
<1>8. /\ IsFile(y) /\ y.sets = x.sets /\ y.tables = x.tables \o g
      /\ ToSet(y.tables) = ToSet(x.tables) \cup ToSet(g)
      /\ Q = P \cup ToSet(new)
      /\ Clashes(Portion(y, sets), SameMeantId) =>
           Clashes(Portion(x, sets), SameMeantId) \/ ~Unrelated(P, ToSet(new), SameMeantId)
  <2> HIDE DEF x
  <2>a. IsFile(y)
    BY <1>1, <1>3, <1>7, PastedFile
  <2>b. y.sets = x.sets
    BY <1>1, <1>3, <1>7, PastedFile
  <2>1. y.tables = x.tables \o g
    BY <1>1, <1>3, <1>7, PastedFile
  <2>2. ToSet(y.tables) = ToSet(x.tables) \cup ToSet(g)
    BY <1>1, <1>3, <1>7, PastedFile
  <2>3. Q = P \cup ToSet(FlattenTableChecks(g, sets))
    BY <1>1, <1>3, <1>7, PastedFile
  <2>4. \A R : Clashes(Portion(y, sets), R) =>
              \/ Clashes(Portion(x, sets), R)
              \/ Clashes(FlattenTableChecks(g, sets), R)
              \/ ~Unrelated(P, ToSet(FlattenTableChecks(g, sets)), R)
    BY <1>1, <1>3, <1>7, PastedFile
  <2> QED BY <1>7, <2>a, <2>b, <2>1, <2>2, <2>3, <2>4
<1> HIDE DEF x, y, P, Q
<1>9. /\ \A h \in Files : Portion(files[h], sets) \in Seq(FlatCheck)
      /\ \A h \in Files : \A c \in ToSet(Portion(files[h], sets)) :
           c \in FlatCheck /\ CheckId(c) \in DefinedIds(files)
  <2>1. \A h \in Files : Portion(files[h], sets) \in Seq(FlatCheck)
    BY <1>1, <1>3, PortionFacts DEF FilesOK
  <2>2. \A h \in Files : \A c \in ToSet(Portion(files[h], sets)) : c \in FlatCheck
    BY <2>1 DEF ToSet
  <2>3. \A h \in Files : \A c \in ToSet(Portion(files[h], sets)) : CheckId(c) \in DefinedIds(files)
    BY <1>1, <1>3, DefinedIdsAre DEF sets
  <2> QED BY <2>1, <2>2, <2>3
<1>10. \A h \in Files : Unrelated(ToSet(Portion(files[h], sets)), ToSet(new), SameMeantId)
  <2> SUFFICES ASSUME NEW h \in Files, NEW c \in ToSet(Portion(files[h], sets)), NEW b \in ToSet(new)
               PROVE  <<c, b>> \notin SameMeantId
    BY DEF Unrelated
  <2>1. c \in FlatCheck /\ CheckId(c) # CheckId(b) /\ ProposedFor(b, t)
    BY <1>6, <1>9
  <2> QED BY <2>1, NewIsFresh
<1>11. \A h \in Files : h # f => Unrelated(Q, ToSet(Portion(files[h], sets)), SameMeantId)
  <2> SUFFICES ASSUME NEW h \in Files, h # f, NEW c \in Q, NEW d \in ToSet(Portion(files[h], sets))
               PROVE  <<c, d>> \notin SameMeantId
    BY DEF Unrelated
  <2>1. CASE c \in P
    BY <1>2, <2>1 DEF SoundAsWritten, Unrelated, P, x
  <2>2. CASE c \in ToSet(new)
    BY <1>10, <2>2, MeantSymmetric DEF Unrelated, Symmetric
  <2> QED BY <1>8, <2>1, <2>2
<1>12. ~Clashes(Portion(y, sets), SameMeantId)
  BY <1>2, <1>8, <1>10 DEF SoundAsWritten, P, x
<1>13. ~Clashes(y.tables, SameMeantTable)
  <2>1. x.tables \in Seq(Entry)
    BY <1>1, FileFields
  <2>2. \A R : Clashes(x.tables \o g, R) <=>
           \/ Clashes(x.tables, R)
           \/ Clashes(g, R)
           \/ \E d \in ToSet(x.tables), e \in ToSet(g) : <<d, e>> \in R
    BY <1>7, <2>1, ConcatClash
  <2>3. ~Clashes(x.tables, SameMeantTable)
    BY <1>2 DEF SoundAsWritten, x
  <2>4. \A d : \A e \in ToSet(g) : <<d, e>> \notin SameMeantTable
    BY <1>7, MeantRelated
  <2>5. ~Clashes(g, SameMeantTable)
    BY <2>4 DEF Clashes, ToSet
  <2> QED BY <1>8, <2>2, <2>3, <2>4, <2>5
<1>14. \A h \in Files : h # f => Unrelated(ToSet(y.tables), ToSet(files[h].tables), SameMeantTable)
  <2> SUFFICES ASSUME NEW h \in Files, h # f, NEW d \in ToSet(y.tables), NEW e \in ToSet(files[h].tables)
               PROVE  <<d, e>> \notin SameMeantTable
    BY DEF Unrelated
  <2>1. CASE d \in ToSet(x.tables)
    BY <1>2, <2>1 DEF SoundAsWritten, Unrelated, x
  <2>2. CASE d \in ToSet(g)
    BY <1>7, <2>2, MeantRelated
  <2> QED BY <1>8, <2>1, <2>2
<1>15. \A e \in ToSet(y.tables) : /\ EntryProblems(e, sets) = {}
                                  /\ Describes(e) => Resolved(e.table, {}) \notin Unconfigured
  BY <1>2, <1>7, <1>8 DEF SoundAsWritten, x
<1>16. \A b \in Q : b.body = "good" /\ Resolved(b.table, {}) \notin Unconfigured
  <2> SUFFICES ASSUME NEW b \in Q
               PROVE  b.body = "good" /\ Resolved(b.table, {}) \notin Unconfigured
    OBVIOUS
  <2>1. CASE b \in P
    BY <1>2, <2>1 DEF SoundAsWritten, P, x
  <2>2. CASE b \in ToSet(new)
    <3>1. ProposedFor(b, t)
      BY <1>6, <2>2
    <3>2. Resolved(b.table, {}) = t /\ t \notin Unconfigured
      BY <3>1, ProposedIds
    <3> QED BY <3>1, <3>2 DEF ProposedFor
  <2> QED BY <1>8, <2>1, <2>2
<1>17. SoundAsWritten(after, sets)
  <2> HIDE DEF Q
  <2>1. Q = ToSet(Portion(y, sets))
    BY DEF Q
  <2> QED BY <1>2, <1>5, <1>11, <1>12, <1>13, <1>14, <1>15, <1>16, <2>1, OneFileChanged
<1>18. FilesOK(after) /\ SetsOnce(after) /\ ComposedSets(after, LoadOrder) = sets
  <2>1. FilesOK(after)
    BY <1>1, <1>5, <1>8 DEF FilesOK
  <2>2. \A h \in Files : after[h].sets = files[h].sets
    BY <1>5, <1>8 DEF x
  <2> QED BY <1>1, <1>2, <2>1, <2>2, SameSets DEF sets
<1>19. Loads(after)
  BY <1>17, <1>18, LoadsAsWritten
<1>20. UNION {ToSet(Portion(files[h], sets)) : h \in Files}
         \subseteq UNION {ToSet(Portion(after[h], sets)) : h \in Files}
  <2>1. \A h \in Files : ToSet(Portion(files[h], sets)) \subseteq ToSet(Portion(after[h], sets))
    BY <1>5, <1>8 DEF P, Q, x
  <2> QED BY <2>1
<1>21. Meaning(files, LoadOrder).checks \subseteq Meaning(after, LoadOrder).checks
  <2> DEFINE S == UNION {ToSet(Portion(files[h], sets)) : h \in Files}
             T == UNION {ToSet(Portion(after[h], sets)) : h \in Files}
  <2>1. Meaning(files, LoadOrder).checks = {MeaningOf(b) : b \in S}
    BY <1>1, <1>2, MeaningAsWritten DEF sets
  <2>2. Meaning(after, LoadOrder).checks = {MeaningOf(b) : b \in T}
    BY <1>18, MeaningAsWritten DEF sets
  <2>3. S \subseteq T
    BY <1>20
  <2> HIDE DEF S, T
  <2> QED BY <2>1, <2>2, <2>3
<1>22. PartitionNewChecks(after, Proposed(t, metrics)) = <<>>
  <2> DEFINE blocks == Proposed(t, metrics)
             again == PartitionNewChecks(after, blocks)
  <2>1. blocks \in Seq(FlatCheck)
    BY ProposedType
  <2> HIDE DEF blocks
  <2>2. \A b \in ToSet(blocks) : \/ CheckId(b) \in DefinedIds(files)
                                 \/ \E c \in ToSet(new) : CheckId(c) = CheckId(b)
    BY <2>1, PartitionFacts DEF blocks
  <2>3. \A b \in ToSet(again) : b \in ToSet(blocks) /\ CheckId(b) \notin DefinedIds(after)
    BY <2>1, PartitionFacts
  <2>4. again \in Seq(FlatCheck)
    BY <2>1, PartitionFacts
  <2> HIDE DEF again
  <2>5. \A i : i \in DefinedIds(files) <=>
           \E h \in Files : \E b \in ToSet(Portion(files[h], sets)) : i = CheckId(b)
    BY <1>1, <1>3, DefinedIdsAre DEF sets
  <2>6. \A i : i \in DefinedIds(after) <=>
           \E h \in Files : \E b \in ToSet(Portion(after[h], sets)) : i = CheckId(b)
    BY <1>3, <1>18, DefinedIdsAre
  <2>7. \A b \in ToSet(blocks) : CheckId(b) \in DefinedIds(after)
    <3>1. \A h \in Files : ToSet(Portion(files[h], sets)) \subseteq ToSet(Portion(after[h], sets))
      BY <1>5, <1>8 DEF P, Q, x
    <3>2. ToSet(new) \subseteq ToSet(Portion(after[f], sets))
      BY <1>5, <1>8 DEF Q
    <3> QED BY <2>2, <2>5, <2>6, <3>1, <3>2
  <2>8. \A b : b \notin ToSet(again)
    BY <2>3, <2>7
  <2>9. \A i \in DOMAIN again : FALSE
    BY <2>8 DEF ToSet
  <2>10. again = <<>>
    BY <2>4, <2>9
  <2> QED BY <2>10 DEF again, blocks
<1> QED BY <1>19, <1>21, <1>22

\* Whatever the files hold, what the wizard prints can be pasted.
LEMMA AddedWhenTyped == ASSUME TypeOK, NoAliases PROVE AddedChecksLoad
<1> SUFFICES ASSUME Loads(files), NEW f \in Files, NEW t \in Objects, NEW metrics \in Proposals
             PROVE  LET after == Pasted(f, PartitionNewChecks(files, Proposed(t, metrics)))
                    IN  /\ Loads(after)
                        /\ Meaning(files, LoadOrder).checks \subseteq Meaning(after, LoadOrder).checks
                        /\ PartitionNewChecks(after, Proposed(t, metrics)) = <<>>
  BY DEF AddedChecksLoad
<1> QED BY AddedLoads

\* What dbfresh add prints can be pasted into any file and is not proposed
\* again, as long as no ${VAR} stands for the table the wizard is run for.
THEOREM AddedChecksAlwaysLoad == NoAliases => (Spec => []AddedChecksLoad)
<1> SUFFICES ASSUME NoAliases PROVE Spec => []AddedChecksLoad
  OBVIOUS
<1>1. TypeOK => AddedChecksLoad
  BY AddedWhenTyped
<1> QED BY TypeCorrect, <1>1, PTL

-----------------------------------------------------------------------------
(* A migrated file holds the checks it held.                               *)

\* A plain entry whose active may have been hoisted from it.
UnhoistedOf(x, e) == [e EXCEPT !.active = IF e.table \in Hoisted(x) THEN "unset" ELSE e.active]

\* It keeps all but its active.
LEMMA UnhoistedFields ==
  ASSUME NEW x, NEW e \in Entry
  PROVE  LET u == UnhoistedOf(x, e)
         IN  /\ u \in Entry /\ u.table = e.table /\ u.use = e.use /\ u.with = e.with
             /\ u.skip = e.skip /\ u.checks = e.checks /\ u.about = e.about
             /\ u.active = IF e.table \in Hoisted(x) THEN "unset" ELSE e.active
<1> DEFINE v == IF e.table \in Hoisted(x) THEN "unset" ELSE e.active
           u == [e EXCEPT !.active = v]
<1>1. v \in Activity
  BY DEF Entry, Activity
<1> HIDE DEF v
<1>2. /\ u \in Entry /\ u.table = e.table /\ u.use = e.use /\ u.with = e.with
      /\ u.skip = e.skip /\ u.checks = e.checks /\ u.about = e.about /\ u.active = v
  BY <1>1 DEF Entry
<1>3. u = UnhoistedOf(x, e)
  BY DEF UnhoistedOf, v
<1> QED BY <1>2, <1>3 DEF v

\* An entry without use: has its own checks only, whatever sets there are.
LEMMA PlainBlocks ==
  ASSUME NEW e \in Entry, e.use = None, NEW sets, SetsOK(sets)
  PROVE  Blocks(e, sets) = Where(e.checks, {b \in ToSet(e.checks) : Placeable(b)})
<1> DEFINE own == Where(e.checks, {b \in ToSet(e.checks) : Placeable(b)})
<1>1. None \notin DOMAIN sets
  BY ConfigAssumption DEF SetsOK
<1>2. Expanded(e, sets) = <<>>
  BY <1>1 DEF Expanded
<1>3. e.checks \in Seq(EntryCheck)
  BY DEF Entry
<1>4. own \in Seq(EntryCheck)
  BY <1>3, WhereSet
<1> HIDE DEF own
<1>5. <<>> \o own = own
  BY <1>4, EmptyConcat
<1> QED BY <1>2, <1>5 DEF own, Blocks

\* What a plain entry comes to hold once its active is hoisted and gained again.
RegainedAs(t, s, active) ==
  DOMAIN t = DOMAIN s /\ \A i \in DOMAIN s : t[i] = Regained(s[i], active)

\* The active hoisted for a table is that of each of its entries.
LEMMA HoistedActive ==
  ASSUME NEW x, NEW e \in ToSet(Plain(x)), e.table \in Hoisted(x)
  PROVE  ActiveOf(x)[e.table] = e.active /\ e.table \in DOMAIN ActiveOf(x)
<1>1. PICK v \in {"on", "off"} : Actives(x, e.table) = {v}
  BY DEF Hoisted
<1>2. e.active \in Actives(x, e.table)
  BY DEF Actives
<1>3. Actives(x, e.table) = {e.active}
  BY <1>1, <1>2
<1>4. (CHOOSE w \in Actives(x, e.table) : TRUE) = e.active
  BY <1>3
<1> QED BY <1>4 DEF ActiveOf

\* The blocks it flattens to then regain what they had.
LEMMA UnhoistedFlattened ==
  ASSUME NEW x, IsFile(x), NEW sets, SetsOK(sets), NEW e \in ToSet(Plain(x)),
         e.table # None, ~Meaningless(e)
  PROVE  /\ RegainedAs(FlattenEntry(e, sets), FlattenEntry(UnhoistedOf(x, e), <<>>), ActiveOf(x))
         /\ \A i \in DOMAIN FlattenEntry(e, sets) :
              /\ FlattenEntry(UnhoistedOf(x, e), <<>>)[i] \in FlatCheck
              /\ FlattenEntry(UnhoistedOf(x, e), <<>>)[i].table = e.table
              /\ IsMapping(FlattenEntry(UnhoistedOf(x, e), <<>>)[i])
<1> DEFINE u == UnhoistedOf(x, e)
           own == Where(e.checks, {b \in ToSet(e.checks) : Placeable(b)})
           A == ActiveOf(x)
<1>1. e \in Entry /\ e.use = None
  <2>1. Plain(x) \in Seq(Entry)
    BY PlainFacts
  <2>2. ToSet(Plain(x)) = {d \in ToSet(x.tables) : d.use = None}
    BY PlainFacts
  <2>3. e \in Entry
    BY <2>1 DEF ToSet
  <2> QED BY <2>2, <2>3
<1>2. /\ u \in Entry /\ u.table = e.table /\ u.use = e.use /\ u.with = e.with
      /\ u.skip = e.skip /\ u.checks = e.checks
      /\ u.active = IF e.table \in Hoisted(x) THEN "unset" ELSE e.active
  BY <1>1, UnhoistedFields
<1> HIDE DEF u
<1>3. ~Meaningless(u)
  BY <1>2 DEF Meaningless
<1>4. Blocks(e, sets) = own /\ Blocks(u, <<>>) = own
  BY <1>1, <1>2, PlainBlocks, EmptySetsOK
<1> HIDE DEF own
<1>5. /\ \A b \in ToSet(own) : b \in SetItem /\ Placeable(b)
      /\ DOMAIN FlattenEntry(e, sets) = DOMAIN own
      /\ \A i \in DOMAIN own : FlattenEntry(e, sets)[i] = Flat(own[i], e)
  <2>1. \A b \in ToSet(Blocks(e, sets)) : b \in SetItem /\ Placeable(b)
    BY <1>1, FlattenEntryIs
  <2>2. DOMAIN FlattenEntry(e, sets) = DOMAIN Blocks(e, sets)
    BY <1>1, FlattenEntryIs
  <2>3. \A i \in DOMAIN Blocks(e, sets) : FlattenEntry(e, sets)[i] = Flat(Blocks(e, sets)[i], e)
    BY <1>1, FlattenEntryIs
  <2> QED BY <1>4, <2>1, <2>2, <2>3
<1>6. /\ DOMAIN FlattenEntry(u, <<>>) = DOMAIN own
      /\ \A i \in DOMAIN own : FlattenEntry(u, <<>>)[i] = Flat(own[i], u)
  <2>2. DOMAIN FlattenEntry(u, <<>>) = DOMAIN Blocks(u, <<>>)
    BY <1>2, <1>3, EmptySetsOK, FlattenEntryIs
  <2>3. \A i \in DOMAIN Blocks(u, <<>>) : FlattenEntry(u, <<>>)[i] = Flat(Blocks(u, <<>>)[i], u)
    BY <1>2, <1>3, EmptySetsOK, FlattenEntryIs
  <2> QED BY <1>4, <2>2, <2>3
<1>7. ASSUME NEW b, b \in SetItem, Placeable(b)
      PROVE  /\ Flat(b, u) \in FlatCheck /\ Flat(b, u).table = e.table
             /\ IsMapping(Flat(b, u))
             /\ Flat(b, e) = Regained(Flat(b, u), A)
  <2> DEFINE c == Flat(b, u)
             d == Flat(b, e)
             r == Regained(c, A)
  <2>1. /\ c \in FlatCheck /\ c.table = e.table /\ c.metric = b.metric /\ c.id = b.id
        /\ c.active = WithEntryActive(b, u) /\ c.body = b.body
    BY <1>2, <1>7, FlatFields
  <2>2. /\ d \in FlatCheck /\ d.table = e.table /\ d.metric = b.metric /\ d.id = b.id
        /\ d.active = WithEntryActive(b, e) /\ d.body = b.body
    BY <1>1, <1>7, FlatFields
  <2>3. DOMAIN A = Hoisted(x)
    BY DEF ActiveOf
  <2>4. e.table \in Hoisted(x) => A[e.table] = e.active
    BY HoistedActive
  <2>5. e.table \in Hoisted(x) => e.active \in {"on", "off"}
    <3> SUFFICES ASSUME e.table \in Hoisted(x) PROVE e.active \in {"on", "off"}
      OBVIOUS
    <3>1. PICK v \in {"on", "off"} : Actives(x, e.table) = {v}
      BY DEF Hoisted
    <3>2. e.active \in Actives(x, e.table)
      BY DEF Actives
    <3> QED BY <3>1, <3>2
  <2> HIDE DEF c, d, A
  <2>6. OnOffAt(A, c.table)
    BY <2>1, <2>3, <2>4, <2>5 DEF OnOffAt
  <2>7. /\ r \in FlatCheck /\ r.table = c.table /\ r.metric = c.metric /\ r.id = c.id
        /\ r.body = c.body
        /\ r.active = IF c.active = "unset" /\ c.table \in DOMAIN A
                      THEN A[c.table] ELSE c.active
    BY <2>1, <2>6, RegainedFacts
  <2> HIDE DEF r
  <2>8. r.active = d.active
    BY <1>2, <2>1, <2>2, <2>3, <2>4, <2>7 DEF WithEntryActive
  <2>9. r = d
    BY <2>1, <2>2, <2>7, <2>8, SameBlock
  <2>10. c.body # "not a mapping"
    BY <1>7, <2>1 DEF Placeable
  <2> QED BY <2>1, <2>9, <2>10 DEF c, d, r, IsMapping
<1> HIDE DEF A
<1>8. \A i \in DOMAIN own : own[i] \in SetItem /\ Placeable(own[i])
  BY <1>5 DEF ToSet
<1>9. \A i \in DOMAIN own : /\ FlattenEntry(u, <<>>)[i] \in FlatCheck
                            /\ FlattenEntry(u, <<>>)[i].table = e.table
                            /\ IsMapping(FlattenEntry(u, <<>>)[i])
                            /\ FlattenEntry(e, sets)[i] = Regained(FlattenEntry(u, <<>>)[i], A)
  BY <1>5, <1>6, <1>7, <1>8
<1> QED BY <1>5, <1>6, <1>9 DEF RegainedAs, u, A

\* Some of the entries, in order, hold some of the blocks and clash only if
\* all of them do.
LEMMA PartOfTables ==
  ASSUME NEW tables \in Seq(Entry), NEW T, NEW sets, SetsOK(sets), NEW R
  PROVE  /\ \A b \in ToSet(FlattenTableChecks(Where(tables, T), sets)) :
              b \in ToSet(FlattenTableChecks(tables, sets))
         /\ Clashes(FlattenTableChecks(Where(tables, T), sets), R) =>
              Clashes(FlattenTableChecks(tables, sets), R)
<1> DEFINE part == Where(tables, T)
<1>1. part \in Seq(Entry) /\ ToSet(part) = ToSet(tables) \cap T
  BY WhereSet
<1>2. Clashes(part, Meets(sets, R)) =>
        \E i, j \in DOMAIN tables : i < j /\ <<tables[i], tables[j]>> \in Meets(sets, R)
  BY WhereClash
<1> HIDE DEF part
<1>3. \A b : b \in ToSet(FlattenTableChecks(part, sets)) <=>
        \E e \in ToSet(part) : b \in ToSet(FlattenEntry(e, sets))
  BY <1>1, FlattenTablesSet
<1>4. \A b : b \in ToSet(FlattenTableChecks(tables, sets)) <=>
        \E e \in ToSet(tables) : b \in ToSet(FlattenEntry(e, sets))
  BY FlattenTablesSet
<1>5. Clashes(FlattenTableChecks(part, sets), R) <=>
           \/ \E e \in ToSet(part) : Clashes(FlattenEntry(e, sets), R)
           \/ Clashes(part, Meets(sets, R))
  BY <1>1, FlattenTablesClash
<1>6. Clashes(FlattenTableChecks(tables, sets), R) <=>
           \/ \E e \in ToSet(tables) : Clashes(FlattenEntry(e, sets), R)
           \/ Clashes(tables, Meets(sets, R))
  BY FlattenTablesClash
<1>7. Clashes(part, Meets(sets, R)) => Clashes(tables, Meets(sets, R))
  BY <1>2 DEF Clashes
<1> QED BY <1>1, <1>3, <1>4, <1>5, <1>6, <1>7 DEF part

\* Gaining an active changes no id.
LEMMA RegainedRelated ==
  ASSUME NEW b \in FlatCheck, NEW c \in FlatCheck, NEW active,
         OnOffAt(active, b.table), OnOffAt(active, c.table)
  PROVE  /\ Regained(b, active) \in FlatCheck
         /\ <<b, c>> \in SameMeantId =>
              <<Regained(b, active), Regained(c, active)>> \in SameMeantId
<1>1. Regained(b, active) \in FlatCheck /\ MeantId(Regained(b, active)) = MeantId(b)
  BY RegainedFacts
<1>2. Regained(c, active) \in FlatCheck /\ MeantId(Regained(c, active)) = MeantId(c)
  BY RegainedFacts
<1> QED BY <1>1, <1>2, MeantRelated

\* The plain entries, written out with nothing hoisted from them, hold the same
\* but for the actives that they regain.
LEMMA FlattenedRegained ==
  ASSUME NEW x, IsFile(x), MigrateProblems(x) = {}, NEW sets, SetsOK(sets)
  PROVE  /\ HoldsRegained(ToSet(FlattenTableChecks(Plain(x), sets)), ToSet(Flattened(x)), ActiveOf(x))
         /\ Clashes(Flattened(x), SameMeantId) =>
              Clashes(FlattenTableChecks(Plain(x), sets), SameMeantId)
         /\ \A b \in ToSet(Flattened(x)) :
              /\ IsMapping(b)
              /\ \E e \in ToSet(Plain(x)) : b.table = e.table
<1> DEFINE p == Plain(x)
           U == Unhoisted(x)
           A == ActiveOf(x)
           E(i) == FlattenEntry(p[i], sets)
           D(i) == FlattenEntry(U[i], <<>>)
<1>1. p \in Seq(Entry) /\ U \in Seq(Entry) /\ OnOff(A)
  <2>1. p \in Seq(Entry)
    BY PlainFacts
  <2>2. U \in Seq(Entry)
    BY MigrateTypes
  <2>3. OnOff(A)
    BY MigrateTypes
  <2> QED BY <2>1, <2>2, <2>3
<1>2. DOMAIN U = DOMAIN p /\ \A i \in DOMAIN p : U[i] = UnhoistedOf(x, p[i])
  BY DEF Unhoisted, UnhoistedOf
<1>3. \A e \in ToSet(p) : e.table # None /\ ~Meaningless(e)
  BY Migratable
<1>4. ASSUME NEW i \in DOMAIN p
      PROVE  /\ RegainedAs(E(i), D(i), A)
             /\ \A k \in DOMAIN E(i) : /\ D(i)[k] \in FlatCheck
                                       /\ D(i)[k].table = p[i].table
                                       /\ IsMapping(D(i)[k])
  <2> DEFINE e == p[i]
  <2>1. e \in ToSet(p) /\ e.table # None /\ ~Meaningless(e)
    BY <1>3 DEF ToSet
  <2>2. U[i] = UnhoistedOf(x, e)
    BY <1>2
  <2> HIDE DEF e, U
  <2>3. RegainedAs(FlattenEntry(e, sets), FlattenEntry(UnhoistedOf(x, e), <<>>), A)
    BY <2>1, UnhoistedFlattened
  <2>4. \A k \in DOMAIN FlattenEntry(e, sets) :
              /\ FlattenEntry(UnhoistedOf(x, e), <<>>)[k] \in FlatCheck
              /\ FlattenEntry(UnhoistedOf(x, e), <<>>)[k].table = e.table
              /\ IsMapping(FlattenEntry(UnhoistedOf(x, e), <<>>)[k])
    BY <2>1, UnhoistedFlattened
  <2> QED BY <2>2, <2>3, <2>4 DEF e
<1> HIDE DEF p, U, A
<1>5. ASSUME NEW i \in DOMAIN p
      PROVE  /\ DOMAIN E(i) = DOMAIN D(i)
             /\ \A k \in DOMAIN D(i) : E(i)[k] = Regained(D(i)[k], A)
  BY <1>4 DEF RegainedAs
<1>6. \A t : OnOffAt(A, t)
  BY <1>1 DEF OnOff, OnOffAt
<1>7. \A b : b \in ToSet(FlattenTableChecks(p, sets)) <=>
               \E i \in DOMAIN p : b \in ToSet(E(i))
  <2>1. \A b : b \in ToSet(FlattenTableChecks(p, sets)) <=>
          \E e \in ToSet(p) : b \in ToSet(FlattenEntry(e, sets))
    BY <1>1, FlattenTablesSet
  <2> QED BY <2>1 DEF ToSet
<1>8. \A b : b \in ToSet(Flattened(x)) <=> \E i \in DOMAIN p : b \in ToSet(D(i))
  <2>1. \A b : b \in ToSet(FlattenTableChecks(U, <<>>)) <=>
          \E e \in ToSet(U) : b \in ToSet(FlattenEntry(e, <<>>))
    BY <1>1, EmptySetsOK, FlattenTablesSet
  <2>2. \A b : b \in ToSet(FlattenTableChecks(U, <<>>)) <=> \E i \in DOMAIN U : b \in ToSet(D(i))
    BY <2>1 DEF ToSet
  <2> QED BY <1>2, <2>2 DEF Flattened, U
<1> HIDE DEF E, D
<1>9. ASSUME NEW i \in DOMAIN p
      PROVE  \A b : b \in ToSet(E(i)) <=> \E c \in ToSet(D(i)) : b = Regained(c, A)
  BY <1>5 DEF ToSet
<1>10. HoldsRegained(ToSet(FlattenTableChecks(p, sets)), ToSet(Flattened(x)), A)
  BY <1>7, <1>8, <1>9 DEF HoldsRegained
<1>11. \A b \in ToSet(Flattened(x)) : IsMapping(b) /\ \E e \in ToSet(p) : b.table = e.table
  <2> SUFFICES ASSUME NEW b \in ToSet(Flattened(x))
               PROVE  IsMapping(b) /\ \E e \in ToSet(p) : b.table = e.table
    OBVIOUS
  <2>1. PICK i \in DOMAIN p : b \in ToSet(D(i))
    BY <1>8
  <2>2. PICK k \in DOMAIN D(i) : b = D(i)[k]
    BY <2>1 DEF ToSet
  <2>3. IsMapping(b) /\ b.table = p[i].table
    BY <1>4, <1>5, <2>2
  <2> QED BY <2>3 DEF ToSet
<1>12. ASSUME Clashes(Flattened(x), SameMeantId)
       PROVE  Clashes(FlattenTableChecks(p, sets), SameMeantId)
  <2>1. Clashes(FlattenTableChecks(U, <<>>), SameMeantId) <=>
              \/ \E i \in DOMAIN U : Clashes(FlattenEntry(U[i], <<>>), SameMeantId)
              \/ \E i, j \in DOMAIN U :
                   /\ i < j
                   /\ \E a \in ToSet(FlattenEntry(U[i], <<>>)),
                         b \in ToSet(FlattenEntry(U[j], <<>>)) : <<a, b>> \in SameMeantId
    BY <1>1, EmptySetsOK, FlattenTablesType
  <2>2. \/ \E i \in DOMAIN p : Clashes(D(i), SameMeantId)
        \/ \E i, j \in DOMAIN p :
             i < j /\ \E a \in ToSet(D(i)), b \in ToSet(D(j)) : <<a, b>> \in SameMeantId
    BY <1>2, <1>12, <2>1 DEF Flattened, U, D
  <2>3. Clashes(FlattenTableChecks(p, sets), SameMeantId) <=>
              \/ \E i \in DOMAIN p : Clashes(FlattenEntry(p[i], sets), SameMeantId)
              \/ \E i, j \in DOMAIN p :
                   /\ i < j
                   /\ \E a \in ToSet(FlattenEntry(p[i], sets)),
                         b \in ToSet(FlattenEntry(p[j], sets)) : <<a, b>> \in SameMeantId
    BY <1>1, FlattenTablesType
  <2>4. Clashes(FlattenTableChecks(p, sets), SameMeantId) <=>
        \/ \E i \in DOMAIN p : Clashes(E(i), SameMeantId)
        \/ \E i, j \in DOMAIN p :
             i < j /\ \E a \in ToSet(E(i)), b \in ToSet(E(j)) : <<a, b>> \in SameMeantId
    BY <2>3 DEF E
  <2>5. ASSUME NEW i \in DOMAIN p, Clashes(D(i), SameMeantId) PROVE Clashes(E(i), SameMeantId)
    <3>1. PICK k, l \in DOMAIN D(i) : k < l /\ <<D(i)[k], D(i)[l]>> \in SameMeantId
      BY <2>5 DEF Clashes
    <3>2. D(i)[k] \in FlatCheck /\ D(i)[l] \in FlatCheck
      BY <1>4, <1>5
    <3>3. <<Regained(D(i)[k], A), Regained(D(i)[l], A)>> \in SameMeantId
      BY <1>6, <3>1, <3>2, RegainedRelated
    <3>4. <<E(i)[k], E(i)[l]>> \in SameMeantId /\ k \in DOMAIN E(i) /\ l \in DOMAIN E(i)
      BY <1>5, <3>3
    <3> QED BY <3>1, <3>4 DEF Clashes
  <2>6. ASSUME NEW i \in DOMAIN p, NEW j \in DOMAIN p, NEW a \in ToSet(D(i)), NEW b \in ToSet(D(j)),
               <<a, b>> \in SameMeantId
        PROVE  \E c \in ToSet(E(i)), d \in ToSet(E(j)) : <<c, d>> \in SameMeantId
    <3>1. a \in FlatCheck /\ b \in FlatCheck
      BY <2>6, MeantRelated
    <3>2. <<Regained(a, A), Regained(b, A)>> \in SameMeantId
      BY <1>6, <2>6, <3>1, RegainedRelated
    <3> QED BY <1>9, <3>2
  <2> QED BY <2>2, <2>4, <2>5, <2>6
<1> QED BY <1>10, <1>11, <1>12 DEF p, A

\* What migrate prints for the plain entries and flat checks, and the file it is pasted into.
MigratedGroup(x, first) ==
  GroupChecksByTable(Regrouped(x, first), ActiveOf(x), AboutOf(x), OrderOf(x, first))
MigratedFile(x, first) == [x EXCEPT !.checks = <<>>, !.tables = MigratedTables(x, first)]

\* The parts of a migrated file.
LEMMA MigratedFields ==
  ASSUME NEW x, IsFile(x), MigrateProblems(x) = {}, NEW first
  PROVE  LET y == MigratedFile(x, first) IN
         /\ IsFile(y) /\ y.checks = <<>> /\ y.sets = x.sets
         /\ y.tables = MigratedGroup(x, first) \o SetBacked(x)
<1> DEFINE t == MigratedTables(x, first)
           y == MigratedFile(x, first)
<1>1. t \in Seq(Entry)
  BY MigrateTypes
<1>2. t = MigratedGroup(x, first) \o SetBacked(x)
  BY MigratedTablesIs DEF MigratedGroup
<1>3. y = [x EXCEPT !.checks = <<>>, !.tables = t]
  BY DEF MigratedFile
<1> HIDE DEF t, y
<1>4. x \in [checks : Seq(FlatCheck), tables : Seq(Entry), sets : {x.sets}]
  BY DEF IsFile
<1>5. x.sets \in [DOMAIN x.sets -> CheckSet] /\ DOMAIN x.sets \subseteq SetNames
  BY DEF IsFile
<1>6. <<>> \in Seq(FlatCheck)
  OBVIOUS
<1>7. /\ y \in [checks : Seq(FlatCheck), tables : Seq(Entry), sets : {x.sets}]
      /\ y.sets = x.sets /\ y.checks = <<>> /\ y.tables = t
  BY <1>1, <1>3, <1>4, <1>6
<1>8. IsFile(y)
  BY <1>5, <1>7 DEF IsFile
<1> QED BY <1>2, <1>7, <1>8 DEF y

\* What is being regrouped is mappings.
LEMMA RegroupedMappings ==
  ASSUME NEW x, IsFile(x), MigrateProblems(x) = {}, NEW first
  PROVE  AllMappings(Regrouped(x, first))
<1>1. ToSet(Regrouped(x, first)) = ToSet(x.checks) \cup ToSet(Flattened(x))
  BY MigrateTypes
<1>2. \A b \in ToSet(x.checks) : b.body # "not a mapping"
  BY Migratable
<1>3. \A b \in ToSet(x.checks) : IsMapping(b)
  BY <1>2 DEF IsMapping
<1>4. \A b \in ToSet(Flattened(x)) : IsMapping(b)
  BY EmptySetsOK, FlattenedRegained
<1> QED BY <1>1, <1>3, <1>4 DEF AllMappings

\* The tables described in a file's plain entries.
LEMMA AboutIs ==
  ASSUME NEW x
  PROVE  \A t : t \in AboutOf(x) <=> \E e \in ToSet(Plain(x)) : Describes(e) /\ t = e.table
<1> DEFINE p == Plain(x)
<1>1. AboutOf(x) = {p[i].table : i \in Described(p)}
  BY DEF AboutOf
<1>2. Described(p) = {i \in DOMAIN p : Describes(p[i])}
  BY DEF Described, Describes
<1> HIDE DEF p
<1>3. \A t : t \in AboutOf(x) <=> \E i \in DOMAIN p : Describes(p[i]) /\ t = p[i].table
  BY <1>1, <1>2
<1> QED BY <1>3 DEF ToSet, p

\* Entries for tables of their own.
OwnTables(g) == \A i, j \in DOMAIN g : i # j => g[i].table # g[j].table

\* The regrouped entries: proper, for tables of their own, describing what was described.
LEMMA MigratedGroupFacts ==
  ASSUME NEW x, IsFile(x), MigrateProblems(x) = {}, NEW first, NEW sets, SetsOK(sets)
  PROVE  LET g == MigratedGroup(x, first) IN
         /\ g \in Seq(Entry)
         /\ \A e \in ToSet(g) : /\ EntryProblems(e, sets) = {} /\ e.use = None
                                /\ Describes(e) => e.table \in AboutOf(x)
         /\ OwnTables(g)
         /\ \A t \in AboutOf(x) : \E e \in ToSet(g) : e.table = t /\ Describes(e)
         /\ HoldsRegained(ToSet(FlattenTableChecks(g, sets)), ToSet(Regrouped(x, first)), ActiveOf(x))
         /\ Clashes(FlattenTableChecks(g, sets), SameMeantId) =>
              Clashes(Regrouped(x, first), SameMeantId)
<1> DEFINE r == Regrouped(x, first)
           a == ActiveOf(x)
           b == AboutOf(x)
           o == OrderOf(x, first)
           g == GroupChecksByTable(r, a, b, o)
           K == KeptTables(r, a, b, o)
<1>1. r \in Seq(FlatCheck)
  BY MigrateTypes
<1>2. AllMappings(r)
  BY RegroupedMappings
<1>3. OnOff(a)
  BY MigrateTypes
<1>4. o \in Seq(Tables)
  BY MigrateTypes
<1>5. ToSet(o) = {c.table : c \in ToSet(x.checks)} \cup {e.table : e \in ToSet(Plain(x))}
  BY MigrateTypes
<1>6. \A t : t \in b <=> \E e \in ToSet(Plain(x)) : Describes(e) /\ t = e.table
  BY AboutIs
<1> HIDE DEF r, a, b, o
<1>7. b \subseteq K
  BY <1>5, <1>6 DEF KeptTables
<1>8. g \in Seq(Entry)
  BY <1>1, <1>2, <1>3, <1>4, GroupFlattened
<1>9. ASSUME NEW e \in ToSet(g)
      PROVE  EntryProblems(e, sets) = {} /\ e.use = None /\ (Describes(e) => e.table \in b)
  <2>1. EntryProblems(e, sets) = {}
    BY <1>1, <1>2, <1>3, <1>4, GroupFlattened
  <2>2. e.use = None
    BY <1>1, <1>2, <1>3, <1>4, GroupFlattened
  <2>3. Describes(e) => e.table \in b
    BY <1>1, <1>2, <1>3, <1>4, GroupFlattened
  <2> QED BY <2>1, <2>2, <2>3
<1>10. OwnTables(g)
  <2>1. \A i, j \in DOMAIN g : i # j => g[i].table # g[j].table
    BY <1>1, <1>2, <1>3, <1>4, GroupFlattened
  <2> QED BY <2>1 DEF OwnTables
<1>11. \A t \in K : \E e \in ToSet(g) : e.table = t /\ (t \in b => Describes(e))
  BY <1>1, <1>2, <1>3, <1>4, GroupFlattened
<1>12. HoldsRegained(ToSet(FlattenTableChecks(g, sets)), ToSet(r), a)
  BY <1>1, <1>2, <1>3, <1>4, GroupFlattened
<1>13. Clashes(FlattenTableChecks(g, sets), SameMeantId) => Clashes(r, SameMeantId)
  BY <1>1, <1>2, <1>3, <1>4, GroupFlattened
<1> HIDE DEF K
<1>14. \A t \in b : \E e \in ToSet(g) : e.table = t /\ Describes(e)
  BY <1>7, <1>11
<1>15. g = MigratedGroup(x, first)
  BY DEF MigratedGroup, r, a, b, o
<1> HIDE DEF g
<1> QED BY <1>8, <1>9, <1>10, <1>12, <1>13, <1>14, <1>15 DEF r, a, b

\* The regrouped entries hold what the flat checks and the plain entries held.
LEMMA MigratedGroupHolds ==
  ASSUME NEW x, IsFile(x), MigrateProblems(x) = {}, NEW first, NEW sets, SetsOK(sets)
  PROVE  ToSet(FlattenTableChecks(MigratedGroup(x, first), sets)) =
           ToSet(x.checks) \cup ToSet(FlattenTableChecks(Plain(x), sets))
<1> DEFINE A == ActiveOf(x)
           G == ToSet(FlattenTableChecks(MigratedGroup(x, first), sets))
           P == ToSet(FlattenTableChecks(Plain(x), sets))
           S == ToSet(Regrouped(x, first))
           F == ToSet(Flattened(x))
<1>1. HoldsRegained(G, S, A)
  BY MigratedGroupFacts
<1>2. HoldsRegained(P, F, A)
  BY FlattenedRegained
<1>3. S = ToSet(x.checks) \cup F
  BY MigrateTypes
<1>4. ASSUME NEW b \in ToSet(x.checks) PROVE Regained(b, A) = b
  <2>1. b \in FlatCheck
    <3>1. x.checks \in Seq(FlatCheck)
      BY FileFields
    <3> QED BY <3>1 DEF ToSet
  <2>2. b.table \notin DOMAIN A
    BY DEF Hoisted, ActiveOf
  <2> DEFINE c == Regained(b, A)
  <2>3. OnOffAt(A, b.table)
    BY <2>2 DEF OnOffAt
  <2>4. /\ c \in FlatCheck /\ c.table = b.table /\ c.metric = b.metric /\ c.id = b.id
        /\ c.body = b.body
        /\ c.active = IF b.active = "unset" /\ b.table \in DOMAIN A
                      THEN A[b.table] ELSE b.active
    BY <2>1, <2>3, RegainedFacts
  <2> HIDE DEF c, A
  <2>5. c = b
    BY <2>1, <2>2, <2>4, SameBlock
  <2> QED BY <2>5 DEF c, A
<1> HIDE DEF A, G, P, S, F
<1>5. \A b : b \in G <=> b \in ToSet(x.checks) \/ b \in P
  BY <1>1, <1>2, <1>3, <1>4 DEF HoldsRegained
<1>6. G = ToSet(x.checks) \cup P
  BY <1>5
<1> QED BY <1>6 DEF G, P

\* So the migrated file holds what the file held.
LEMMA TablesInParts ==
  ASSUME NEW x, IsFile(x), NEW sets, SetsOK(sets)
  PROVE  ToSet(FlattenTableChecks(x.tables, sets)) =
           ToSet(FlattenTableChecks(Plain(x), sets)) \cup ToSet(FlattenTableChecks(SetBacked(x), sets))
<1>1. x.tables \in Seq(Entry)
  BY FileFields
<1>2. /\ Plain(x) \in Seq(Entry) /\ SetBacked(x) \in Seq(Entry)
      /\ ToSet(Plain(x)) = {e \in ToSet(x.tables) : e.use = None}
      /\ ToSet(SetBacked(x)) = {e \in ToSet(x.tables) : e.use # None}
  BY PlainFacts
<1>3. \A b : b \in ToSet(FlattenTableChecks(x.tables, sets)) <=>
        \E e \in ToSet(x.tables) : b \in ToSet(FlattenEntry(e, sets))
  BY <1>1, FlattenTablesSet
<1>4. \A b : b \in ToSet(FlattenTableChecks(Plain(x), sets)) <=>
        \E e \in ToSet(Plain(x)) : b \in ToSet(FlattenEntry(e, sets))
  BY <1>2, FlattenTablesSet
<1>5. \A b : b \in ToSet(FlattenTableChecks(SetBacked(x), sets)) <=>
        \E e \in ToSet(SetBacked(x)) : b \in ToSet(FlattenEntry(e, sets))
  BY <1>2, FlattenTablesSet
<1>6. \A b : b \in ToSet(FlattenTableChecks(x.tables, sets)) <=>
        \/ b \in ToSet(FlattenTableChecks(Plain(x), sets))
        \/ b \in ToSet(FlattenTableChecks(SetBacked(x), sets))
  BY <1>2, <1>3, <1>4, <1>5
<1> QED BY <1>6

\* A migrated file holds the checks it held.
LEMMA MigratedPortion ==
  ASSUME NEW x, IsFile(x), MigrateProblems(x) = {}, NEW first, NEW sets, SetsOK(sets)
  PROVE  ToSet(Portion(MigratedFile(x, first), sets)) = ToSet(Portion(x, sets))
<1> DEFINE y == MigratedFile(x, first)
           g == MigratedGroup(x, first)
<1>1. IsFile(y) /\ y.checks = <<>> /\ y.tables = g \o SetBacked(x)
  BY MigratedFields
<1>2. ToSet(Portion(y, sets)) = ToSet(y.checks) \cup ToSet(FlattenTableChecks(y.tables, sets))
  BY <1>1, PortionFacts
<1>3. ToSet(Portion(x, sets)) = ToSet(x.checks) \cup ToSet(FlattenTableChecks(x.tables, sets))
  BY PortionFacts
<1>4. g \in Seq(Entry)
  BY MigratedGroupFacts
<1>5. SetBacked(x) \in Seq(Entry)
  BY PlainFacts
<1>6. ToSet(FlattenTableChecks(g \o SetBacked(x), sets)) =
        ToSet(FlattenTableChecks(g, sets)) \cup ToSet(FlattenTableChecks(SetBacked(x), sets))
  BY <1>4, <1>5, FlattenAppended
<1>7. ToSet(FlattenTableChecks(g, sets)) =
        ToSet(x.checks) \cup ToSet(FlattenTableChecks(Plain(x), sets))
  BY MigratedGroupHolds
<1>8. ToSet(FlattenTableChecks(x.tables, sets)) =
        ToSet(FlattenTableChecks(Plain(x), sets)) \cup ToSet(FlattenTableChecks(SetBacked(x), sets))
  BY TablesInParts
<1>9. ToSet(<<>>) = {}
  BY DEF ToSet
<1> HIDE DEF y, g
<1>10. ToSet(FlattenTableChecks(y.tables, sets)) =
         ToSet(FlattenTableChecks(g, sets)) \cup ToSet(FlattenTableChecks(SetBacked(x), sets))
  BY <1>1, <1>6
<1>11. ToSet(y.checks) = {}
  BY <1>1, <1>9
<1>12. ToSet(Portion(y, sets)) = ToSet(Portion(x, sets))
  BY <1>2, <1>3, <1>7, <1>8, <1>10, <1>11
<1> QED BY <1>12 DEF y

\* Entries that clash only with others: some of the entries in each part.
LEMMA PartsClash ==
  ASSUME NEW x, IsFile(x), NEW sets, SetsOK(sets), NEW R, Symmetric(R),
         NEW b \in ToSet(FlattenTableChecks(Plain(x), sets)),
         NEW c \in ToSet(FlattenTableChecks(SetBacked(x), sets)), <<b, c>> \in R
  PROVE  Clashes(FlattenTableChecks(x.tables, sets), R)
<1>1. x.tables \in Seq(Entry) /\ Plain(x) \in Seq(Entry) /\ SetBacked(x) \in Seq(Entry)
  BY FileFields, PlainFacts
<1>2. PICK d \in ToSet(Plain(x)) : b \in ToSet(FlattenEntry(d, sets))
  BY <1>1, FlattenTablesSet
<1>3. PICK e \in ToSet(SetBacked(x)) : c \in ToSet(FlattenEntry(e, sets))
  BY <1>1, FlattenTablesSet
<1>4. /\ ToSet(Plain(x)) = {f \in ToSet(x.tables) : f.use = None}
      /\ ToSet(SetBacked(x)) = {f \in ToSet(x.tables) : f.use # None}
  BY PlainFacts
<1>5. d \in ToSet(x.tables) /\ e \in ToSet(x.tables) /\ d # e
  BY <1>4
<1>6. PICK i \in DOMAIN x.tables : d = x.tables[i]
  BY <1>5 DEF ToSet
<1>7. PICK j \in DOMAIN x.tables : e = x.tables[j]
  BY <1>5 DEF ToSet
<1>8. d \in Entry /\ e \in Entry /\ i \in Nat /\ j \in Nat /\ i # j
  BY <1>1, <1>5, <1>6, <1>7
<1>9. <<d, e>> \in Meets(sets, R) /\ <<e, d>> \in Meets(sets, R)
  <2>1. <<c, b>> \in R
    BY DEF Symmetric
  <2> QED BY <1>2, <1>3, <1>8, <2>1, MeetsIs
<1>10. i < j \/ j < i
  BY <1>8
<1>11. Clashes(x.tables, Meets(sets, R))
  BY <1>6, <1>7, <1>9, <1>10 DEF Clashes
<1> QED BY <1>1, <1>11, FlattenTablesClash

\* A migrated file repeats an id only where the file did.
LEMMA MigratedClash ==
  ASSUME NEW x, IsFile(x), MigrateProblems(x) = {}, NEW first, NEW sets, SetsOK(sets),
         Clashes(Portion(MigratedFile(x, first), sets), SameMeantId)
  PROVE  Clashes(Portion(x, sets), SameMeantId)
<1> DEFINE y == MigratedFile(x, first)
           g == MigratedGroup(x, first)
           P == ToSet(FlattenTableChecks(Plain(x), sets))
           B == ToSet(FlattenTableChecks(SetBacked(x), sets))
           H == ToSet(FlattenTableChecks(x.tables, sets))
           C == ToSet(x.checks)
           All == Clashes(FlattenTableChecks(x.tables, sets), SameMeantId)
<1>1. IsFile(y) /\ y.checks = <<>> /\ y.tables = g \o SetBacked(x)
  BY MigratedFields
<1>2. Symmetric(SameMeantId)
  BY MeantSymmetric
<1>3. x.tables \in Seq(Entry) /\ SetBacked(x) \in Seq(Entry) /\ g \in Seq(Entry)
  <2>1. g \in Seq(Entry)
    BY MigratedGroupFacts
  <2> QED BY <2>1, FileFields, PlainFacts
<1>4. Clashes(Portion(x, sets), SameMeantId) <=>
        Clashes(x.checks, SameMeantId) \/ All \/ ~Unrelated(C, H, SameMeantId)
  BY PortionFacts
<1>5. H = P \cup B
  BY TablesInParts
<1>6. Clashes(FlattenTableChecks(y.tables, sets), SameMeantId)
  <2>1. Clashes(Portion(y, sets), SameMeantId) <=>
              \/ Clashes(y.checks, SameMeantId)
              \/ Clashes(FlattenTableChecks(y.tables, sets), SameMeantId)
              \/ ~Unrelated(ToSet(y.checks), ToSet(FlattenTableChecks(y.tables, sets)), SameMeantId)
    BY <1>1, PortionFacts
  <2>2. ToSet(<<>>) = {} /\ ~Clashes(<<>>, SameMeantId)
    BY DEF ToSet, Clashes
  <2> HIDE DEF y, g
  <2>3. ToSet(y.checks) = {} /\ ~Clashes(y.checks, SameMeantId)
    BY <1>1, <2>2
  <2>4. Unrelated(ToSet(y.checks), ToSet(FlattenTableChecks(y.tables, sets)), SameMeantId)
    BY <2>3 DEF Unrelated
  <2> QED BY <2>1, <2>3, <2>4 DEF y
<1>7. \/ Clashes(FlattenTableChecks(g, sets), SameMeantId)
      \/ Clashes(FlattenTableChecks(SetBacked(x), sets), SameMeantId)
      \/ ~Unrelated(ToSet(FlattenTableChecks(g, sets)), B, SameMeantId)
  <2>1. Clashes(FlattenTableChecks(g \o SetBacked(x), sets), SameMeantId) <=>
              \/ Clashes(FlattenTableChecks(g, sets), SameMeantId)
              \/ Clashes(FlattenTableChecks(SetBacked(x), sets), SameMeantId)
              \/ ~Unrelated(ToSet(FlattenTableChecks(g, sets)), B, SameMeantId)
    BY <1>3, FlattenAppended
  <2> HIDE DEF y, g
  <2> QED BY <1>1, <1>6, <2>1
<1>8. Clashes(FlattenTableChecks(Plain(x), sets), SameMeantId) => All
  BY <1>3, PartOfTables DEF Plain
<1>9. Clashes(FlattenTableChecks(SetBacked(x), sets), SameMeantId) => All
  BY <1>3, PartOfTables DEF SetBacked
<1>10. CASE Clashes(FlattenTableChecks(g, sets), SameMeantId)
  <2>1. Clashes(Regrouped(x, first), SameMeantId)
    BY <1>10, MigratedGroupFacts
  <2>2. x.checks \in Seq(FlatCheck) /\ Flattened(x) \in Seq(FlatCheck)
    <3>1. Flattened(x) \in Seq(FlatCheck)
      BY MigrateTypes
    <3> QED BY <3>1, FileFields
  <2>3. \/ Clashes(x.checks, SameMeantId)
        \/ Clashes(Flattened(x), SameMeantId)
        \/ \E a \in C, b \in ToSet(Flattened(x)) : <<a, b>> \in SameMeantId
    <3>1. CASE first = "checks"
      <4>1. Clashes(x.checks \o Flattened(x), SameMeantId)
        BY <2>1, <3>1 DEF Regrouped
      <4> QED BY <2>2, <4>1, ConcatClash
    <3>2. CASE first # "checks"
      <4>1. Clashes(Flattened(x) \o x.checks, SameMeantId)
        BY <2>1, <3>2 DEF Regrouped
      <4>2. \/ Clashes(Flattened(x), SameMeantId)
            \/ Clashes(x.checks, SameMeantId)
            \/ \E a \in ToSet(Flattened(x)), b \in C : <<a, b>> \in SameMeantId
        BY <2>2, <4>1, ConcatClash
      <4> QED BY <1>2, <4>2 DEF Symmetric
    <3> QED BY <3>1, <3>2
  <2>4. Clashes(Flattened(x), SameMeantId) => Clashes(FlattenTableChecks(Plain(x), sets), SameMeantId)
    BY FlattenedRegained
  <2>5. ASSUME NEW a \in C, NEW b \in ToSet(Flattened(x)), <<a, b>> \in SameMeantId
        PROVE  ~Unrelated(C, H, SameMeantId)
    <3>1. HoldsRegained(P, ToSet(Flattened(x)), ActiveOf(x))
      BY FlattenedRegained
    <3>2. OnOff(ActiveOf(x))
      BY MigrateTypes
    <3>3. OnOffAt(ActiveOf(x), b.table)
      BY <3>2 DEF OnOff, OnOffAt
    <3>4. a \in FlatCheck /\ b \in FlatCheck /\ MeantId(a) = MeantId(b)
      BY <2>5, MeantRelated
    <3>5. Regained(b, ActiveOf(x)) \in FlatCheck
          /\ MeantId(Regained(b, ActiveOf(x))) = MeantId(b)
      BY <3>3, <3>4, RegainedFacts
    <3>6. <<a, Regained(b, ActiveOf(x))>> \in SameMeantId
      BY <3>4, <3>5, MeantRelated
    <3>7. Regained(b, ActiveOf(x)) \in P
      BY <3>1 DEF HoldsRegained
    <3> HIDE DEF P, B, C, H
    <3> QED BY <1>5, <3>6, <3>7 DEF Unrelated
  <2> QED BY <1>4, <1>8, <2>3, <2>4, <2>5
<1>11. CASE ~Unrelated(ToSet(FlattenTableChecks(g, sets)), B, SameMeantId)
  <2>1. ToSet(FlattenTableChecks(g, sets)) = C \cup P
    BY MigratedGroupHolds
  <2>2. PICK a \in C \cup P, b \in B : <<a, b>> \in SameMeantId
    BY <1>11, <2>1 DEF Unrelated
  <2>3. CASE a \in C
    <3>1. b \in H
      BY <1>5
    <3> QED BY <1>4, <2>2, <2>3, <3>1 DEF Unrelated
  <2>4. CASE a \in P
    BY <1>2, <1>4, <2>2, <2>4, PartsClash
  <2> QED BY <2>3, <2>4
<1> QED BY <1>4, <1>7, <1>9, <1>10, <1>11

-----------------------------------------------------------------------------
(* Descriptions.                                                           *)

\* Of two described entries no two mean the same table.
LEMMA DescribedOnce ==
  ASSUME NEW tables \in Seq(Entry), ~Clashes(tables, SameMeantTable),
         NEW d \in ToSet(tables), NEW e \in ToSet(tables), <<d, e>> \in SameMeantTable
  PROVE  d = e
<1>1. PICK i \in DOMAIN tables : d = tables[i]
  BY DEF ToSet
<1>2. PICK j \in DOMAIN tables : e = tables[j]
  BY DEF ToSet
<1>3. <<e, d>> \in SameMeantTable
  BY MeantSymmetric DEF Symmetric
<1>4. i \in Nat /\ j \in Nat
  OBVIOUS
<1>5. <<tables[i], tables[j]>> \in SameMeantTable /\ <<tables[j], tables[i]>> \in SameMeantTable
  BY <1>1, <1>2, <1>3
<1>6. ~(i < j) /\ ~(j < i)
  BY <1>5 DEF Clashes
<1>7. i = j
  BY <1>4, <1>6
<1> QED BY <1>1, <1>2, <1>7

\* A migrated file describes the tables the file described, once.
LEMMA MigratedDescribes ==
  ASSUME NEW x, IsFile(x), MigrateProblems(x) = {}, NEW first,
         ~Clashes(x.tables, SameMeantTable)
  PROVE  LET y == MigratedFile(x, first) IN
         /\ \A d \in ToSet(y.tables) : Describes(d) =>
              \E e \in ToSet(x.tables) : Describes(e) /\ e.table = d.table
         /\ \A e \in ToSet(x.tables) : Describes(e) =>
              \E d \in ToSet(y.tables) : Describes(d) /\ d.table = e.table
         /\ ~Clashes(y.tables, SameMeantTable)
<1> DEFINE y == MigratedFile(x, first)
           g == MigratedGroup(x, first)
           b == SetBacked(x)
<1>1. y.tables = g \o b
  BY MigratedFields
<1>2. x.tables \in Seq(Entry) /\ b \in Seq(Entry) /\ g \in Seq(Entry)
  <2>1. g \in Seq(Entry)
    BY EmptySetsOK, MigratedGroupFacts
  <2> QED BY <2>1, FileFields, PlainFacts
<1>3. ToSet(y.tables) = ToSet(g) \cup ToSet(b)
  BY <1>1, <1>2, ConcatSet
<1>4. /\ ToSet(Plain(x)) = {f \in ToSet(x.tables) : f.use = None}
      /\ ToSet(b) = {f \in ToSet(x.tables) : f.use # None}
  BY PlainFacts
<1>5. \A e \in ToSet(g) : Describes(e) => e.table \in AboutOf(x)
  BY EmptySetsOK, MigratedGroupFacts
<1>6. OwnTables(g)
  BY EmptySetsOK, MigratedGroupFacts
<1>7. \A t \in AboutOf(x) : \E e \in ToSet(g) : e.table = t /\ Describes(e)
  BY EmptySetsOK, MigratedGroupFacts
<1>8. \A t : t \in AboutOf(x) <=> \E e \in ToSet(Plain(x)) : Describes(e) /\ t = e.table
  BY AboutIs
<1>9. ~Clashes(b, SameMeantTable)
  <2>1. Clashes(b, SameMeantTable) =>
          \E i, j \in DOMAIN x.tables : i < j /\ <<x.tables[i], x.tables[j]>> \in SameMeantTable
    BY <1>2, WhereClash DEF SetBacked
  <2> QED BY <2>1 DEF Clashes
<1> HIDE DEF y, g, b
<1>10. \A d \in ToSet(y.tables) : Describes(d) =>
              \E e \in ToSet(x.tables) : Describes(e) /\ e.table = d.table
  BY <1>3, <1>4, <1>5, <1>8
<1>11. \A e \in ToSet(x.tables) : Describes(e) =>
              \E d \in ToSet(y.tables) : Describes(d) /\ d.table = e.table
  BY <1>3, <1>4, <1>7, <1>8
\* What the group describes, the plain entries do.
<1>12. ASSUME NEW d \in ToSet(g), Describes(d)
       PROVE  \E e \in ToSet(Plain(x)) : Describes(e) /\ e.table = d.table
  BY <1>5, <1>8, <1>12
<1>13. ASSUME Clashes(g, SameMeantTable) PROVE FALSE
  <2>1. PICK i, j \in DOMAIN g : i < j /\ <<g[i], g[j]>> \in SameMeantTable
    BY <1>13 DEF Clashes
  <2>2. /\ Describes(g[i]) /\ Describes(g[j])
        /\ Resolved(g[i].table, {}) = Resolved(g[j].table, {})
    BY <2>1, MeantRelated
  <2>3. g[i] \in ToSet(g) /\ g[j] \in ToSet(g)
    BY DEF ToSet
  <2>4. PICK d \in ToSet(Plain(x)) : Describes(d) /\ d.table = g[i].table
    BY <1>12, <2>2, <2>3
  <2>5. PICK e \in ToSet(Plain(x)) : Describes(e) /\ e.table = g[j].table
    BY <1>12, <2>2, <2>3
  <2>6. d \in ToSet(x.tables) /\ e \in ToSet(x.tables) /\ d \in Entry /\ e \in Entry
    <3>1. d \in ToSet(x.tables) /\ e \in ToSet(x.tables)
      BY <1>4
    <3> QED BY <1>2, <3>1 DEF ToSet
  <2>7. <<d, e>> \in SameMeantTable
    BY <2>2, <2>4, <2>5, <2>6, MeantRelated
  <2>8. d = e
    BY <1>2, <2>6, <2>7, DescribedOnce
  <2>9. i # j
    BY <1>2, <2>1
  <2> QED BY <1>6, <2>4, <2>5, <2>8, <2>9 DEF OwnTables
<1>14. ASSUME NEW c \in ToSet(g), NEW e \in ToSet(b), <<c, e>> \in SameMeantTable PROVE FALSE
  <2>1. Describes(c) /\ Describes(e) /\ Resolved(c.table, {}) = Resolved(e.table, {}) /\ e \in Entry
    BY <1>14, MeantRelated
  <2>2. PICK d \in ToSet(Plain(x)) : Describes(d) /\ d.table = c.table
    BY <1>12, <2>1
  <2>3. d \in ToSet(x.tables) /\ e \in ToSet(x.tables) /\ d # e
    BY <1>4
  <2>4. d \in Entry
    BY <1>2, <2>3 DEF ToSet
  <2>5. <<d, e>> \in SameMeantTable
    BY <2>1, <2>2, <2>4, MeantRelated
  <2> QED BY <1>2, <2>3, <2>5, DescribedOnce
<1>15. ~Clashes(y.tables, SameMeantTable)
  <2>1. Clashes(g \o b, SameMeantTable) <=>
           \/ Clashes(g, SameMeantTable)
           \/ Clashes(b, SameMeantTable)
           \/ \E c \in ToSet(g), e \in ToSet(b) : <<c, e>> \in SameMeantTable
    BY <1>2, ConcatClash
  <2> QED BY <1>1, <1>9, <1>13, <1>14, <2>1
<1> QED BY <1>10, <1>11, <1>15 DEF y

\* A file of a configuration that loads is one that migrate takes.
LEMMA SoundIsMigratable ==
  ASSUME NEW x, IsFile(x), NEW sets, SetsOK(sets),
         \A e \in ToSet(x.tables) : EntryProblems(e, sets) = {},
         \A b \in ToSet(Portion(x, sets)) : IsMapping(b),
         ~Clashes(x.tables, SameMeantTable)
  PROVE  MigrateProblems(x) = {}
<1>1. x.tables \in Seq(Entry) /\ x.checks \in Seq(FlatCheck)
  BY FileFields
<1>2. {"misplaced check" : b \in {c \in ToSet(x.checks) : c.body = "not a mapping"}} = {}
  <2>1. ToSet(Portion(x, sets)) = ToSet(x.checks) \cup ToSet(FlattenTableChecks(x.tables, sets))
    BY PortionFacts
  <2>2. \A b \in ToSet(x.checks) : IsMapping(b)
    BY <2>1
  <2>3. \A b \in ToSet(x.checks) : b.body # "not a mapping"
    BY <2>2 DEF IsMapping
  <2> QED BY <2>3
<1>3. MetaProblems(x.tables) = {}
  <2>1. ASSUME Clashes(x.tables, SameTable) PROVE Clashes(x.tables, SameMeantTable)
    <3>1. PICK i, j \in DOMAIN x.tables : i < j /\ <<x.tables[i], x.tables[j]>> \in SameTable
      BY <2>1 DEF Clashes
    <3>2. <<x.tables[i], x.tables[j]>> \in SameMeantTable
      BY <3>1, Related, MeantRelated
    <3> QED BY <3>1, <3>2 DEF Clashes
  <2> QED BY <1>1, <2>1, MetaProblemsOrNone
<1>4. TableProblems(Plain(x), <<>>) = {}
  <2> SUFFICES ASSUME NEW e \in ToSet(Plain(x)) PROVE EntryProblems(e, <<>>) = {}
    BY DEF TableProblems
  <2>1. ToSet(Plain(x)) = {d \in ToSet(x.tables) : d.use = None}
    BY PlainFacts
  <2>2. EntryProblems(e, sets) = {} /\ e.use = None
    BY <2>1
  <2> QED BY <2>2, EntryProblemsOrNone
<1> QED BY <1>2, <1>3, <1>4 DEF MigrateProblems

\* Migrating a file of a configuration that loads.
LEMMA MigrationKeeps ==
  ASSUME TypeOK, Loads(files), NEW f \in Files, NEW first
  PROVE  /\ MigrateProblems(files[f]) = {}
         /\ Loads(Migrated(f, first))
         /\ Meaning(Migrated(f, first), LoadOrder) = Meaning(files, LoadOrder)
<1> DEFINE sets == ComposedSets(files, LoadOrder)
           x == files[f]
           y == MigratedFile(x, first)
           after == Migrated(f, first)
<1>1. FilesOK(files) /\ IsFile(x)
  BY DEF TypeOK, FilesOK
<1>2. SetsOnce(files) /\ SoundAsWritten(files, sets)
  BY <1>1, LoadsAsWritten
<1>3. SetsOK(sets)
  BY <1>1, <1>2, ReadSets
<1>4. after = [files EXCEPT ![f] = y]
  BY DEF Migrated, MigratedFile, TypeOK
<1>5. after[f] = y /\ \A h \in Files : h # f => after[h] = files[h]
  BY <1>4 DEF TypeOK
<1> HIDE DEF sets, after
<1>6. /\ \A e \in ToSet(x.tables) : /\ EntryProblems(e, sets) = {}
                                    /\ Describes(e) => Resolved(e.table, {}) \notin Unconfigured
      /\ \A b \in ToSet(Portion(x, sets)) : b.body = "good" /\ Resolved(b.table, {}) \notin Unconfigured
      /\ ~Clashes(x.tables, SameMeantTable)
      /\ ~Clashes(Portion(x, sets), SameMeantId)
      /\ \A h \in Files : h # f =>
           /\ Unrelated(ToSet(x.tables), ToSet(files[h].tables), SameMeantTable)
           /\ Unrelated(ToSet(Portion(x, sets)), ToSet(Portion(files[h], sets)), SameMeantId)
  BY <1>2 DEF SoundAsWritten
<1> HIDE DEF x, y
<1>7. MigrateProblems(x) = {}
  <2>1. \A b \in ToSet(Portion(x, sets)) : IsMapping(b)
    BY <1>6 DEF IsMapping
  <2>2. \A e \in ToSet(x.tables) : EntryProblems(e, sets) = {}
    BY <1>6
  <2>3. ~Clashes(x.tables, SameMeantTable)
    BY <1>6
  <2> QED BY <1>1, <1>3, <2>1, <2>2, <2>3, SoundIsMigratable
<1>8. /\ IsFile(y) /\ y.sets = x.sets
      /\ y.tables = MigratedGroup(x, first) \o SetBacked(x)
  BY <1>1, <1>7, MigratedFields DEF y
<1>9. ToSet(Portion(y, sets)) = ToSet(Portion(x, sets))
  BY <1>1, <1>3, <1>7, MigratedPortion DEF y
<1>10. ~Clashes(Portion(y, sets), SameMeantId)
  BY <1>1, <1>3, <1>6, <1>7, MigratedClash DEF y
<1>11. \A d \in ToSet(y.tables) : Describes(d) =>
              \E e \in ToSet(x.tables) : Describes(e) /\ e.table = d.table
  BY <1>1, <1>6, <1>7, MigratedDescribes DEF y
<1>12. \A e \in ToSet(x.tables) : Describes(e) =>
              \E d \in ToSet(y.tables) : Describes(d) /\ d.table = e.table
  BY <1>1, <1>6, <1>7, MigratedDescribes DEF y
<1>13. ~Clashes(y.tables, SameMeantTable)
  BY <1>1, <1>6, <1>7, MigratedDescribes DEF y
<1>14. \A e \in ToSet(y.tables) : EntryProblems(e, sets) = {}
  <2> DEFINE g == MigratedGroup(x, first)
             b == SetBacked(x)
  <2>1. g \in Seq(Entry)
    BY <1>1, <1>3, <1>7, MigratedGroupFacts
  <2>2. b \in Seq(Entry) /\ ToSet(b) = {e \in ToSet(x.tables) : e.use # None}
    BY <1>1, PlainFacts
  <2>3. \A e \in ToSet(g) : EntryProblems(e, sets) = {}
    BY <1>1, <1>3, <1>7, MigratedGroupFacts
  <2>4. y.tables = g \o b
    BY <1>8
  <2> HIDE DEF g, b
  <2>5. ToSet(y.tables) = ToSet(g) \cup ToSet(b)
    BY <2>1, <2>2, <2>4, ConcatSet
  <2> QED BY <1>6, <2>2, <2>3, <2>5
<1>15. \A e \in ToSet(y.tables) : Describes(e) => Resolved(e.table, {}) \notin Unconfigured
  BY <1>6, <1>11
<1>t. x.tables \in Seq(Entry) /\ y.tables \in Seq(Entry)
  BY <1>1, <1>8, FileFields
<1>16. \A h \in Files : h # f => Unrelated(ToSet(y.tables), ToSet(files[h].tables), SameMeantTable)
  <2> SUFFICES ASSUME NEW h \in Files, h # f, NEW d \in ToSet(y.tables), NEW c \in ToSet(files[h].tables),
                      <<d, c>> \in SameMeantTable
               PROVE  FALSE
    BY DEF Unrelated
  <2>1. Describes(d) /\ Describes(c) /\ c \in Entry /\ Resolved(d.table, {}) = Resolved(c.table, {})
    BY MeantRelated
  <2>2. PICK e \in ToSet(x.tables) : Describes(e) /\ e.table = d.table
    BY <1>11, <2>1
  <2>3. e \in Entry
    BY <1>t DEF ToSet
  <2>4. <<e, c>> \in SameMeantTable
    BY <2>1, <2>2, <2>3, MeantRelated
  <2> QED BY <1>6, <2>2, <2>4 DEF Unrelated
<1>17. SoundAsWritten(after, sets)
  <2>1. \A e \in ToSet(y.tables) : /\ EntryProblems(e, sets) = {}
                                   /\ Describes(e) => Resolved(e.table, {}) \notin Unconfigured
    BY <1>14, <1>15
  <2>2. \A b \in ToSet(Portion(y, sets)) : b.body = "good" /\ Resolved(b.table, {}) \notin Unconfigured
    BY <1>6, <1>9
  <2>3. \A h \in Files : h # f =>
           /\ Unrelated(ToSet(y.tables), ToSet(files[h].tables), SameMeantTable)
           /\ Unrelated(ToSet(Portion(y, sets)), ToSet(Portion(files[h], sets)), SameMeantId)
    BY <1>6, <1>9, <1>16
  <2> QED BY <1>2, <1>5, <1>10, <1>13, <2>1, <2>2, <2>3, OneFileChanged
<1>18. FilesOK(after) /\ SetsOnce(after) /\ ComposedSets(after, LoadOrder) = sets
  <2>1. FilesOK(after)
    BY <1>1, <1>5, <1>8 DEF FilesOK
  <2>2. \A h \in Files : after[h].sets = files[h].sets
    BY <1>5, <1>8 DEF x
  <2> QED BY <1>1, <1>2, <2>1, <2>2, SameSets DEF sets
<1>19. Loads(after)
  BY <1>17, <1>18, LoadsAsWritten
<1>20. Meaning(after, LoadOrder).checks = Meaning(files, LoadOrder).checks
  <2> DEFINE S == UNION {ToSet(Portion(files[h], sets)) : h \in Files}
             T == UNION {ToSet(Portion(after[h], sets)) : h \in Files}
  <2>1. Meaning(files, LoadOrder).checks = {MeaningOf(b) : b \in S}
    BY <1>1, <1>2, MeaningAsWritten DEF sets
  <2>2. Meaning(after, LoadOrder).checks = {MeaningOf(b) : b \in T}
    BY <1>18, MeaningAsWritten DEF sets
  <2>3. \A h \in Files : ToSet(Portion(after[h], sets)) = ToSet(Portion(files[h], sets))
    BY <1>5, <1>9 DEF x
  <2>4. S = T
    BY <2>3
  <2> HIDE DEF S, T
  <2> QED BY <2>1, <2>2, <2>4
<1>21. Meaning(after, LoadOrder).described = Meaning(files, LoadOrder).described
  <2> DEFINE S == {d \in UNION {ToSet(files[h].tables) : h \in Files} : Describes(d)}
             T == {d \in UNION {ToSet(after[h].tables) : h \in Files} : Describes(d)}
  <2>1. Meaning(files, LoadOrder).described = {Resolved(e.table, {}) : e \in S}
    BY <1>1, <1>2, MeaningAsWritten
  <2>2. Meaning(after, LoadOrder).described = {Resolved(e.table, {}) : e \in T}
    BY <1>18, MeaningAsWritten
  <2>3. \A e \in S : \E d \in T : d.table = e.table
    <3> SUFFICES ASSUME NEW h \in Files, NEW e \in ToSet(files[h].tables), Describes(e)
                 PROVE  \E d \in T : d.table = e.table
      OBVIOUS
    <3>1. CASE h = f
      <4>1. PICK d \in ToSet(y.tables) : Describes(d) /\ d.table = e.table
        BY <1>12, <3>1 DEF x
      <4> QED BY <1>5, <4>1
    <3>2. CASE h # f
      BY <1>5, <3>2
    <3> QED BY <3>1, <3>2
  <2>4. \A d \in T : \E e \in S : d.table = e.table
    <3> SUFFICES ASSUME NEW h \in Files, NEW d \in ToSet(after[h].tables), Describes(d)
                 PROVE  \E e \in S : d.table = e.table
      OBVIOUS
    <3>1. CASE h = f
      <4>1. PICK e \in ToSet(x.tables) : Describes(e) /\ d.table = e.table
        BY <1>5, <1>11, <3>1
      <4> QED BY <4>1 DEF x
    <3>2. CASE h # f
      BY <1>5, <3>2
    <3> QED BY <3>1, <3>2
  <2> HIDE DEF S, T
  <2> QED BY <2>1, <2>2, <2>3, <2>4
<1>22. Meaning(after, LoadOrder) = Meaning(files, LoadOrder)
  <2>1. Meaning(files, LoadOrder) = [checks |-> Meaning(files, LoadOrder).checks,
                                     described |-> Meaning(files, LoadOrder).described]
    BY <1>1, <1>2, MeaningAsWritten
  <2>2. Meaning(after, LoadOrder) = [checks |-> Meaning(after, LoadOrder).checks,
                                     described |-> Meaning(after, LoadOrder).described]
    BY <1>18, MeaningAsWritten
  <2> QED BY <1>20, <1>21, <2>1, <2>2
<1> QED BY <1>7, <1>19, <1>22 DEF after, x

\* Whatever the files hold, migrating changes nothing of what they mean.
LEMMA MigrationKeepsWhenTyped == ASSUME TypeOK PROVE MigrationKeepsMeaning
<1> SUFFICES ASSUME Loads(files), NEW f \in Files, NEW first
             PROVE  /\ MigrateProblems(files[f]) = {}
                    /\ Loads(Migrated(f, first))
                    /\ Meaning(Migrated(f, first), LoadOrder) = Meaning(files, LoadOrder)
  BY DEF MigrationKeepsMeaning
<1> QED BY MigrationKeeps

\* dbfresh config migrate takes every file of a configuration that loads, and
\* changes nothing of what it means.
THEOREM MigrationAlwaysKeepsMeaning == Spec => []MigrationKeepsMeaning
<1>1. TypeOK => MigrationKeepsMeaning
  BY MigrationKeepsWhenTyped
<1> QED BY TypeCorrect, <1>1, PTL

-----------------------------------------------------------------------------
(* Migrating what has been migrated.                                       *)

\* Nothing is left of what only repeats.
LEMMA DistinctAlready ==
  ASSUME NEW X, NEW s \in Seq(X), IsInjective(s), NEW t \in Seq(X), ToSet(t) \subseteq ToSet(s)
  PROVE  Distinct(s \o t) = s
<1> DEFINE u == s \o t
           n == Len(s)
           p == [k \in 1..n |-> k]
<1>1. n \in Nat /\ DOMAIN s = 1..n /\ s = [k \in 1..n |-> s[k]]
  OBVIOUS
<1>2. Len(t) \in Nat /\ DOMAIN t = 1..Len(t)
  OBVIOUS
<1>3. u = [k \in 1..(n + Len(t)) |-> IF k <= n THEN s[k] ELSE t[k - n]]
  BY ConcatIs
<1> HIDE DEF n, u
<1>4. /\ DOMAIN u = 1..(n + Len(t))
      /\ \A k \in 1..n : u[k] = s[k]
      /\ \A k \in DOMAIN u : ~(k \in 1..n) => u[k] \in ToSet(s)
  <2>1. DOMAIN u = 1..(n + Len(t)) /\ \A k \in 1..n : k \in DOMAIN u /\ u[k] = s[k]
    BY <1>1, <1>2, <1>3
  <2>2. ASSUME NEW k \in DOMAIN u, ~(k \in 1..n) PROVE u[k] \in ToSet(s)
    <3>1. k \in Nat /\ ~(k <= n) /\ k - n \in 1..Len(t)
      BY <1>1, <1>2, <2>1, <2>2
    <3>2. u[k] = t[k - n]
      BY <1>3, <2>1, <3>1
    <3>3. t[k - n] \in ToSet(t)
      BY <1>2, <3>1 DEF ToSet
    <3> QED BY <3>2, <3>3
  <2> QED BY <2>1, <2>2
<1>5. FirstPlaces(u) = 1..n
  <2>1. ASSUME NEW i \in 1..n PROVE i \in FirstPlaces(u)
    <3>1. i \in DOMAIN u /\ i \in 1..n /\ u[i] = s[i]
      BY <1>1, <1>2, <1>4
    <3>2. \A j \in 1..(i - 1) : j \in 1..n /\ j # i /\ u[j] = s[j]
      BY <1>1, <1>4
    <3>3. \A j \in 1..(i - 1) : u[j] # u[i]
      BY <1>1, <3>1, <3>2 DEF IsInjective
    <3> QED BY <3>1, <3>3 DEF FirstPlaces
  <2>2. ASSUME NEW i \in FirstPlaces(u), ~(i \in 1..n) PROVE FALSE
    <3>1. i \in DOMAIN u /\ \A j \in 1..(i - 1) : u[j] # u[i]
      BY DEF FirstPlaces
    <3>2. u[i] \in ToSet(s)
      BY <1>4, <2>2, <3>1
    <3>3. PICK j \in DOMAIN s : s[j] = u[i]
      BY <3>2 DEF ToSet
    <3>4. j \in 1..n /\ j \in 1..(i - 1)
      BY <1>1, <1>2, <1>4, <2>2, <3>1, <3>3
    <3> QED BY <1>4, <3>1, <3>3, <3>4
  <2> QED BY <2>1, <2>2
<1>6. Lists(p, n, 1..n)
  BY <1>1 DEF Lists
<1>7. Picked(u, 1..n) = Along(u, p, n)
  <2> HIDE DEF p
  <2>1. 1..n \subseteq Nat
    BY <1>1
  <2> QED BY <1>6, <2>1, PickedInOrder
<1>8. Along(u, p, n) = [k \in 1..n |-> s[k]]
  BY <1>4 DEF Along
<1> QED BY <1>1, <1>5, <1>7, <1>8 DEF Distinct, u

\* Blocks grouped by table already are grouped the same again.
ByTable(checks, kept) == FlattenSeq([i \in DOMAIN kept |-> OfTable(checks, kept[i])])

\* Blocks put in the order of their tables are as before, table by table.
LEMMA ByTableFacts ==
  ASSUME NEW checks \in Seq(FlatCheck), NEW kept \in Seq(Tables), IsInjective(kept)
  PROVE  /\ ByTable(checks, kept) \in Seq(FlatCheck)
         /\ \A b \in ToSet(ByTable(checks, kept)) : b.table \in ToSet(kept)
         /\ \A t \in ToSet(kept) : OfTable(ByTable(checks, kept), t) = OfTable(checks, t)
<1> DEFINE ss == [i \in DOMAIN kept |-> OfTable(checks, kept[i])]
           all == FlattenSeq(ss)
<1>1. \A t : /\ OfTable(checks, t) \in Seq(FlatCheck)
             /\ \A b : b \in ToSet(OfTable(checks, t)) <=> b \in ToSet(checks) /\ b.table = t
  <2> TAKE t
  <2>1. OfTable(checks, t) \in Seq(FlatCheck)
    BY OfTableFacts
  <2>2. \A b : b \in ToSet(OfTable(checks, t)) <=> b \in ToSet(checks) /\ b.table = t
    BY OfTableFacts
  <2> QED BY <2>1, <2>2
<1>2. /\ ss \in Seq(Seq(FlatCheck)) /\ DOMAIN ss = DOMAIN kept
      /\ \A i \in DOMAIN kept : ss[i] = OfTable(checks, kept[i])
  <2>1. Len(kept) \in Nat /\ DOMAIN kept = 1..Len(kept)
    OBVIOUS
  <2>2. \A i \in DOMAIN kept : OfTable(checks, kept[i]) \in Seq(FlatCheck)
    BY <1>1
  <2> QED BY <2>1, <2>2
<1> HIDE DEF ss
<1>3. all \in Seq(FlatCheck)
  BY <1>2, FlattenFacts
<1>4. ToSet(all) = UNION {ToSet(ss[i]) : i \in DOMAIN ss}
  BY <1>2, FlattenFacts
<1>5. \A i \in DOMAIN ss : \A b : b \in ToSet(ss[i]) <=> b \in ToSet(checks) /\ b.table = kept[i]
  <2> SUFFICES ASSUME NEW i \in DOMAIN ss, NEW b
               PROVE  b \in ToSet(ss[i]) <=> b \in ToSet(checks) /\ b.table = kept[i]
    OBVIOUS
  <2>1. b \in ToSet(OfTable(checks, kept[i])) <=> b \in ToSet(checks) /\ b.table = kept[i]
    BY <1>1
  <2> QED BY <1>2, <2>1
<1>6. \A b \in ToSet(all) : b.table \in ToSet(kept)
  <2> SUFFICES ASSUME NEW i \in DOMAIN ss, NEW b \in ToSet(ss[i]) PROVE b.table \in ToSet(kept)
    BY <1>4
  <2>1. b.table = kept[i]
    BY <1>5
  <2> QED BY <1>2, <2>1 DEF ToSet
<1>7. ASSUME NEW a \in DOMAIN kept
      PROVE  OfTable(all, kept[a]) = OfTable(checks, kept[a])
  <2> DEFINE T == {b \in ToSet(all) : b.table = kept[a]}
  <2>1. \A i \in DOMAIN ss : i # a => ToSet(ss[i]) \cap T = {}
    <3> SUFFICES ASSUME NEW i \in DOMAIN ss, i # a, NEW b \in ToSet(ss[i]), b.table = kept[a]
                 PROVE  FALSE
      OBVIOUS
    <3>1. kept[i] = kept[a]
      BY <1>5
    <3> QED BY <1>2, <3>1 DEF IsInjective
  <2>2. ToSet(ss[a]) \subseteq T
    BY <1>2, <1>4, <1>5
  <2> HIDE DEF T
  <2>3. Where(FlattenSeq(ss), T) = Where(ss[a], T)
    BY <1>2, <2>1, WhereFlatten
  <2>4. Where(ss[a], T) = ss[a]
    <3>1. ss[a] \in Seq(FlatCheck)
      BY <1>1, <1>2
    <3> QED BY <2>2, <3>1, WhereAll
  <2>5. OfTable(all, kept[a]) = Where(all, T)
    BY DEF OfTable, T
  <2> QED BY <1>2, <2>3, <2>4, <2>5
<1>8. all = ByTable(checks, kept)
  BY DEF ByTable, ss
<1> HIDE DEF all
<1>9. \A t \in ToSet(kept) : OfTable(all, t) = OfTable(checks, t)
  BY <1>7 DEF ToSet
<1> QED BY <1>3, <1>6, <1>8, <1>9

\* Nested checks depend on the table's blocks only.
LEMMA NestedByTable ==
  ASSUME NEW checks, NEW again, NEW t, OfTable(again, t) = OfTable(checks, t)
  PROVE  NestedChecks(again, t) = NestedChecks(checks, t)
<1> DEFINE F(own) == [i \in DOMAIN own |-> [own[i] EXCEPT !.table = None]]
<1>1. NestedChecks(again, t) = F(OfTable(again, t)) /\ NestedChecks(checks, t) = F(OfTable(checks, t))
  BY DEF NestedChecks, OfTable
<1> QED BY <1>1

\* Grouping what is grouped changes nothing.
LEMMA GroupedAgain ==
  ASSUME NEW checks \in Seq(FlatCheck), NEW active, NEW about, NEW order \in Seq(Tables),
         NEW kept, kept = KeptInOrder(checks, active, about, order),
         NEW again, again = ByTable(checks, kept)
  PROVE  GroupChecksByTable(again, active, about, kept) =
           GroupChecksByTable(checks, active, about, order)
<1>1. kept \in Seq(Tables) /\ ToSet(kept) = KeptTables(checks, active, about, order) /\ IsInjective(kept)
  <2>1. kept \in Seq(Tables)
    BY GroupFacts
  <2>2. ToSet(kept) = KeptTables(checks, active, about, order)
    BY GroupFacts
  <2>3. IsInjective(kept)
    BY GroupFacts
  <2> QED BY <2>1, <2>2, <2>3
<1>2. again \in Seq(FlatCheck)
  BY <1>1, ByTableFacts
<1>3. \A b \in ToSet(again) : b.table \in ToSet(kept)
  BY <1>1, ByTableFacts
<1>4. \A t \in ToSet(kept) : NestedChecks(again, t) = NestedChecks(checks, t)
  <2>1. \A t \in ToSet(kept) : OfTable(again, t) = OfTable(checks, t)
    BY <1>1, ByTableFacts
  <2> QED BY <2>1, NestedByTable
<1>5. TablesOf(again) \in Seq(Tables) /\ ToSet(TablesOf(again)) \subseteq ToSet(kept)
  <2>1. Len(again) \in Nat /\ DOMAIN again = 1..Len(again)
    BY <1>2
  <2>2. \A i \in 1..Len(again) : again[i] \in FlatCheck /\ again[i] \in ToSet(again)
    BY <1>2, <2>1 DEF ToSet
  <2>3. \A i \in 1..Len(again) : again[i].table \in Tables
    BY <2>2, FlatCheckFields
  <2>4. TablesOf(again) \in Seq(Tables)
    BY <2>1, <2>3, TablesOfType
  <2>5. \A x \in ToSet(TablesOf(again)) : \E i \in DOMAIN again : x = again[i].table
    BY DEF TablesOf, ToSet
  <2>6. \A i \in DOMAIN again : again[i].table \in ToSet(kept)
    BY <1>3, <2>1, <2>2
  <2> QED BY <2>4, <2>5, <2>6
<1>6. Distinct(kept \o TablesOf(again)) = kept
  BY <1>1, <1>5, DistinctAlready
<1>7. KeptInOrder(again, active, about, kept) = kept
  <2> DEFINE T == {t \in ToSet(kept) : NestedChecks(again, t) # <<>> \/ t \in about \cup DOMAIN active}
  <2>1. ToSet(kept) \subseteq T
    BY <1>1, <1>4 DEF KeptTables
  <2>2. KeptInOrder(again, active, about, kept) = Where(kept, T)
    BY <1>6 DEF KeptInOrder
  <2> HIDE DEF T
  <2>3. Where(kept, T) = kept
    BY <1>1, <2>1, WhereAll
  <2> QED BY <2>2, <2>3
<1>8. GroupChecksByTable(again, active, about, kept) = GroupedAs(kept, again, active, about)
  <2>1. GroupChecksByTable(again, active, about, kept) =
          GroupedAs(KeptInOrder(again, active, about, kept), again, active, about)
    BY <1>1, <1>2, GroupFacts
  <2> QED BY <1>7, <2>1
<1>9. GroupChecksByTable(checks, active, about, order) = GroupedAs(kept, checks, active, about)
  BY GroupFacts
<1>10. \A i \in DOMAIN kept :
         GroupEntry(again, active, about, kept[i]) = GroupEntry(checks, active, about, kept[i])
  BY <1>4 DEF GroupEntry, ToSet
<1>11. GroupedAs(kept, again, active, about) = GroupedAs(kept, checks, active, about)
  BY <1>10 DEF GroupedAs
<1> QED BY <1>8, <1>9, <1>11

\* A migrated file's plain entries are the regrouped ones.
LEMMA MigratedPlain ==
  ASSUME NEW x, IsFile(x), MigrateProblems(x) = {}, NEW first
  PROVE  LET y == MigratedFile(x, first) IN
         Plain(y) = MigratedGroup(x, first) /\ SetBacked(y) = SetBacked(x)
<1> DEFINE y == MigratedFile(x, first)
           g == MigratedGroup(x, first)
           b == SetBacked(x)
           all == y.tables
           N == {e \in Entry : e.use = None}
           M == {e \in Entry : e.use # None}
<1>1. all = g \o b
  BY MigratedFields
<1>2. b \in Seq(Entry) /\ g \in Seq(Entry)
  <2>1. g \in Seq(Entry)
    BY EmptySetsOK, MigratedGroupFacts
  <2> QED BY <2>1, PlainFacts
<1>3. \A e \in ToSet(g) : e.use = None
  BY EmptySetsOK, MigratedGroupFacts
<1>4. \A e \in ToSet(b) : e.use # None
  BY PlainFacts
<1>5. Plain(y) = Where(all, {e \in ToSet(all) : e.use = None})
      /\ SetBacked(y) = Where(all, {e \in ToSet(all) : e.use # None})
  BY DEF Plain, SetBacked
<1> HIDE DEF all, y, g, b
<1>6. all \in Seq(Entry)
  BY <1>1, <1>2, ConcatSet
<1>7. \A e \in ToSet(all) : e \in Entry
  BY <1>6 DEF ToSet
<1>8. /\ \A e \in ToSet(g) : e \in Entry
      /\ \A e \in ToSet(b) : e \in Entry
  BY <1>2 DEF ToSet
<1>9. Plain(y) = Where(all, N) /\ SetBacked(y) = Where(all, M)
  <2> DEFINE n == {e \in ToSet(all) : e.use = None}
             m == {e \in ToSet(all) : e.use # None}
  <2>1. ToSet(all) \cap n = ToSet(all) \cap N /\ ToSet(all) \cap m = ToSet(all) \cap M
    BY <1>7
  <2>2. Plain(y) = Where(all, n) /\ SetBacked(y) = Where(all, m)
    BY <1>5
  <2> HIDE DEF n, m, N, M
  <2>3. Where(all, n) = Where(all, N) /\ Where(all, m) = Where(all, M)
    BY <2>1, WhereSame
  <2> QED BY <2>2, <2>3
<1>10. /\ ToSet(g) \subseteq N /\ ToSet(b) \cap N = {}
       /\ ToSet(g) \cap M = {} /\ ToSet(b) \subseteq M
  BY <1>3, <1>4, <1>8
<1> HIDE DEF N, M
<1>11. Where(all, N) = Where(g, N) \o Where(b, N) /\ Where(all, M) = Where(g, M) \o Where(b, M)
  BY <1>1, <1>2, WhereConcat
<1>12. Where(g, N) = g /\ Where(b, M) = b
  BY <1>2, <1>10, WhereAll
<1>13. Where(b, N) = <<>> /\ Where(g, M) = <<>>
  BY <1>10, WhereNone
<1>14. g \o <<>> = g /\ <<>> \o b = b
  BY <1>2, EmptyConcat
<1>15. Plain(y) = g /\ SetBacked(y) = b
  BY <1>9, <1>11, <1>12, <1>13, <1>14
<1> QED BY <1>15 DEF y, g, b

\* Their tables, in order.
KeptOf(x, first) == KeptInOrder(Regrouped(x, first), ActiveOf(x), AboutOf(x), OrderOf(x, first))

\* They include what is hoisted and described.
LEMMA MigratedKept ==
  ASSUME NEW x, IsFile(x), MigrateProblems(x) = {}, NEW first
  PROVE  /\ MigratedGroup(x, first) =
              GroupedAs(KeptOf(x, first), Regrouped(x, first), ActiveOf(x), AboutOf(x))
         /\ KeptOf(x, first) \in Seq(Tables) /\ IsInjective(KeptOf(x, first))
         /\ \A t \in ToSet(KeptOf(x, first)) : t \in Tables
         /\ DOMAIN ActiveOf(x) \subseteq ToSet(KeptOf(x, first))
         /\ AboutOf(x) \subseteq ToSet(KeptOf(x, first))
<1> DEFINE r == Regrouped(x, first)
           a == ActiveOf(x)
           b == AboutOf(x)
           o == OrderOf(x, first)
           k == KeptInOrder(r, a, b, o)
<1>1. r \in Seq(FlatCheck)
  BY MigrateTypes
<1>2. o \in Seq(Tables)
  BY MigrateTypes
<1>3. ToSet(o) = {c.table : c \in ToSet(x.checks)} \cup {e.table : e \in ToSet(Plain(x))}
  BY MigrateTypes
<1>4. \A t : t \in b <=> \E e \in ToSet(Plain(x)) : Describes(e) /\ t = e.table
  BY AboutIs
<1>5. DOMAIN a \subseteq {e.table : e \in ToSet(Plain(x))}
  <2> SUFFICES ASSUME NEW t \in Hoisted(x) PROVE \E e \in ToSet(Plain(x)) : t = e.table
    BY DEF ActiveOf
  <2>1. PICK v : Actives(x, t) = {v}
    BY DEF Hoisted
  <2>2. v \in Actives(x, t)
    BY <2>1
  <2> QED BY <2>2 DEF Actives
<1>6. MigratedGroup(x, first) = GroupChecksByTable(r, a, b, o)
  BY DEF MigratedGroup
<1> HIDE DEF r, a, b, o
<1>7. GroupChecksByTable(r, a, b, o) = GroupedAs(k, r, a, b)
  BY <1>1, <1>2, GroupFacts
<1>8. k \in Seq(Tables)
  BY <1>1, <1>2, GroupFacts
<1>9. ToSet(k) = KeptTables(r, a, b, o)
  BY <1>1, <1>2, GroupFacts
<1>10. IsInjective(k)
  BY <1>1, <1>2, GroupFacts
<1> HIDE DEF k
<1>11. DOMAIN a \subseteq ToSet(k) /\ b \subseteq ToSet(k)
  BY <1>3, <1>4, <1>5, <1>9 DEF KeptTables
<1>12. \A t \in ToSet(k) : t \in Tables
  BY <1>8 DEF ToSet
<1>13. k = KeptOf(x, first)
  BY DEF k, KeptOf, r, a, b, o
<1> QED BY <1>6, <1>7, <1>8, <1>10, <1>11, <1>12, <1>13 DEF r, a, b

\* The regrouped entries, one by one.
LEMMA MigratedEntries ==
  ASSUME NEW x, IsFile(x), MigrateProblems(x) = {}, NEW first
  PROVE  LET k == KeptOf(x, first)
             g == MigratedGroup(x, first)
         IN  /\ DOMAIN g = DOMAIN k
             /\ \A i \in DOMAIN k : g[i] = GroupEntry(Regrouped(x, first), ActiveOf(x), AboutOf(x), k[i])
             /\ \A i \in DOMAIN k : /\ g[i].table = k[i]
                                    /\ g[i].active = IF k[i] \in DOMAIN ActiveOf(x)
                                                     THEN ActiveOf(x)[k[i]] ELSE "unset"
             /\ TablesOf(g) = k
<1> DEFINE k == KeptOf(x, first)
           g == MigratedGroup(x, first)
           r == Regrouped(x, first)
           a == ActiveOf(x)
           b == AboutOf(x)
<1>1. g = GroupedAs(k, r, a, b)
  BY MigratedKept
<1>2. k \in Seq(Tables)
  BY MigratedKept
<1> HIDE DEF k, g, r, a, b
<1>3. DOMAIN g = DOMAIN k /\ \A i \in DOMAIN k : g[i] = GroupEntry(r, a, b, k[i])
  BY <1>1 DEF GroupedAs
<1>4. \A t : /\ GroupEntry(r, a, b, t).table = t
             /\ GroupEntry(r, a, b, t).active = IF t \in DOMAIN a THEN a[t] ELSE "unset"
  BY DEF GroupEntry
<1>5. TablesOf(g) = [i \in DOMAIN k |-> k[i]]
  BY <1>3, <1>4 DEF TablesOf
<1>6. [i \in DOMAIN k |-> k[i]] = k
  BY <1>2
<1> QED BY <1>3, <1>4, <1>5, <1>6 DEF k, g, r, a, b

\* Migrating again would hoist what is hoisted.
LEMMA HoistedAgain ==
  ASSUME NEW x, IsFile(x), MigrateProblems(x) = {}, NEW first
  PROVE  LET y == MigratedFile(x, first) IN
         Hoisted(y) = Hoisted(x) /\ ActiveOf(y) = ActiveOf(x)
<1> DEFINE y == MigratedFile(x, first)
           g == MigratedGroup(x, first)
           k == KeptOf(x, first)
           A == ActiveOf(x)
           V(t) == IF t \in DOMAIN A THEN A[t] ELSE "unset"
           W == {"on", "off"}
<1>1. y.checks = <<>>
  BY MigratedFields
<1>2. Plain(y) = g
  BY MigratedPlain
<1>3. DOMAIN g = DOMAIN k
  BY MigratedEntries
<1>4. \A i \in DOMAIN k : g[i].table = k[i] /\ g[i].active = V(k[i])
  <2>1. \A i \in DOMAIN k : g[i].table = k[i] /\ g[i].active = IF k[i] \in DOMAIN A THEN A[k[i]] ELSE "unset"
    BY MigratedEntries
  <2> QED BY <2>1
<1>5. DOMAIN A \subseteq ToSet(k) /\ \A t \in ToSet(k) : t \in Tables
  BY MigratedKept
<1>6. DOMAIN A = Hoisted(x) /\ A = [t \in DOMAIN A |-> A[t]]
  BY DEF ActiveOf
<1>7. OnOff(A)
  BY MigrateTypes
<1>8. \A t \in DOMAIN A : A[t] \in W
  BY <1>7 DEF OnOff, OnOffAt
<1>9. "unset" \notin W
  OBVIOUS
<1> HIDE DEF y, g, k, A, V, W
<1>10. \A t : Actives(y, t) = {v \in {V(t)} : t \in ToSet(k)}
  <2> TAKE t
  <2>1. Actives(y, t) = {e.active : e \in {d \in ToSet(g) : d.table = t}}
    BY <1>2 DEF Actives
  <2>2. \A v : v \in Actives(y, t) <=> \E e \in ToSet(g) : e.table = t /\ v = e.active
    BY <2>1
  <2>3. \A v : v \in Actives(y, t) <=> \E i \in DOMAIN g : g[i].table = t /\ v = g[i].active
    BY <2>2 DEF ToSet
  <2>4. \A v : v \in Actives(y, t) <=> \E i \in DOMAIN k : k[i] = t /\ v = V(t)
    BY <1>3, <1>4, <2>3
  <2>5. \A v : v \in Actives(y, t) <=> t \in ToSet(k) /\ v = V(t)
    BY <2>4 DEF ToSet
  <2> QED BY <2>5
<1>11. \A t : t \in DOMAIN A => Actives(y, t) = {A[t]}
  BY <1>5, <1>10 DEF V
<1>12. \A t : t \notin DOMAIN A => ~\E v \in W : Actives(y, t) = {v}
  <2> SUFFICES ASSUME NEW t, t \notin DOMAIN A, NEW v \in W, Actives(y, t) = {v} PROVE FALSE
    OBVIOUS
  <2>1. v = V(t)
    BY <1>10
  <2> QED BY <1>9, <2>1 DEF V
<1>13. Hoisted(y) = {t \in Tables : \E v \in W : Actives(y, t) = {v}}
  <2>1. {b.table : b \in ToSet(<<>>)} = {}
    BY DEF ToSet
  <2>2. \A t : t \notin {b.table : b \in ToSet(y.checks)}
    BY <1>1, <2>1
  <2>3. Hoisted(y) = {t \in Tables : /\ \E v \in W : Actives(y, t) = {v}
                                     /\ t \notin {b.table : b \in ToSet(y.checks)}}
    BY DEF Hoisted, W
  <2> QED BY <2>2, <2>3
<1>14. Hoisted(y) = DOMAIN A
  <2>1. \A t \in DOMAIN A : t \in Tables /\ \E v \in W : Actives(y, t) = {v}
    BY <1>5, <1>8, <1>11
  <2> QED BY <1>12, <1>13, <2>1
<1>15. ActiveOf(y) = A
  <2>1. \A t \in DOMAIN A : (CHOOSE v \in Actives(y, t) : TRUE) = A[t]
    <3> SUFFICES ASSUME NEW t \in DOMAIN A PROVE (CHOOSE v \in Actives(y, t) : TRUE) = A[t]
      OBVIOUS
    <3>1. Actives(y, t) = {A[t]}
      BY <1>11
    <3> QED BY <3>1
  <2>2. ActiveOf(y) = [t \in DOMAIN A |-> CHOOSE v \in Actives(y, t) : TRUE]
    BY <1>14 DEF ActiveOf
  <2>3. ActiveOf(y) = [t \in DOMAIN A |-> A[t]]
    BY <2>1, <2>2
  <2> QED BY <1>6, <2>3
<1> QED BY <1>6, <1>14, <1>15 DEF y, A

\* Each regrouped entry, its active hoisted, writes out as its table's blocks.
LEMMA EntryAgain ==
  ASSUME NEW x, IsFile(x), MigrateProblems(x) = {}, NEW first, NEW i \in DOMAIN KeptOf(x, first)
  PROVE  LET y == MigratedFile(x, first) IN
         FlattenEntry(UnhoistedOf(y, MigratedGroup(x, first)[i]), <<>>) =
           OfTable(Regrouped(x, first), KeptOf(x, first)[i])
<1> DEFINE y == MigratedFile(x, first)
           g == MigratedGroup(x, first)
           k == KeptOf(x, first)
           r == Regrouped(x, first)
           A == ActiveOf(x)
           b == AboutOf(x)
           t == k[i]
           e == GroupEntry(r, A, b, t)
           u == GroupEntry(r, <<>>, b, t)
           w == OfTable(r, t)
<1>1. g[i] = e
  BY MigratedEntries
<1>2. Hoisted(y) = DOMAIN A
  BY HoistedAgain DEF ActiveOf
<1>3. r \in Seq(FlatCheck) /\ AllMappings(r)
  <2>1. r \in Seq(FlatCheck)
    BY MigrateTypes
  <2>2. AllMappings(r)
    BY RegroupedMappings
  <2> QED BY <2>1, <2>2
<1>4. t \in Tables
  <2>1. \A z \in ToSet(k) : z \in Tables
    BY MigratedKept
  <2> QED BY <2>1 DEF ToSet
<1> HIDE DEF r, A, b, t, g, k, y
<1>5. UnhoistedOf(y, e) = u
  <2>1. UnhoistedOf(y, e) = [e EXCEPT !.active = IF t \in DOMAIN A THEN "unset" ELSE e.active]
    BY <1>2 DEF UnhoistedOf, GroupEntry
  <2>2. DOMAIN <<>> = {}
    OBVIOUS
  <2>3. (IF t \in DOMAIN A THEN "unset" ELSE e.active) = "unset"
    BY DEF GroupEntry
  <2>4. UnhoistedOf(y, e) = [e EXCEPT !.active = "unset"]
    BY <2>1, <2>3
  <2> QED BY <2>2, <2>4 DEF GroupEntry
<1>6. OnOffAt(<<>>, t) /\ DOMAIN <<>> = {}
  BY DEF OnOffAt
<1> HIDE DEF e, u
<1>7. DOMAIN FlattenEntry(u, <<>>) = DOMAIN w
  BY <1>3, <1>4, <1>6, EmptySetsOK, GroupEntryFlat DEF u
<1>8. \A j \in DOMAIN w : FlattenEntry(u, <<>>)[j] = Regained(w[j], <<>>)
  BY <1>3, <1>4, <1>6, EmptySetsOK, GroupEntryFlat DEF u
<1>9. w \in Seq(FlatCheck)
  BY <1>3, OfTableFacts
<1>10. u \in Entry
  BY <1>3, <1>4, <1>6, GroupEntryType DEF u
<1>11. FlattenEntry(u, <<>>) \in Seq(FlatCheck)
  BY <1>10, EmptySetsOK, FlattenEntryType
<1> HIDE DEF w
<1>12. \A j \in DOMAIN w : Regained(w[j], <<>>) = w[j]
  <2> SUFFICES ASSUME NEW c \in FlatCheck PROVE Regained(c, <<>>) = c
    BY <1>9
  <2> DEFINE d == Regained(c, <<>>)
  <2>1. OnOffAt(<<>>, c.table)
    BY <1>6 DEF OnOffAt
  <2>2. /\ d \in FlatCheck /\ d.table = c.table /\ d.metric = c.metric /\ d.id = c.id
        /\ d.body = c.body
        /\ d.active = IF c.active = "unset" /\ c.table \in DOMAIN <<>>
                      THEN <<>>[c.table] ELSE c.active
    BY <2>1, RegainedFacts
  <2> HIDE DEF d
  <2>3. d.active = c.active
    BY <1>6, <2>2
  <2>4. d = c
    BY <2>2, <2>3, SameBlock
  <2> QED BY <2>4 DEF d
<1>13. FlattenEntry(u, <<>>) = w
  <2> DEFINE s == FlattenEntry(u, <<>>)
  <2>1. DOMAIN s = DOMAIN w /\ \A j \in DOMAIN w : s[j] = w[j]
    BY <1>7, <1>8, <1>12
  <2>2. s \in Seq(FlatCheck)
    BY <1>11
  <2> HIDE DEF s
  <2>3. s = w
    BY <1>9, <2>1, <2>2
  <2> QED BY <2>3 DEF s
<1> QED BY <1>1, <1>5, <1>13 DEF y, g, w, r, t, k

\* Migrating again has the same blocks, order and descriptions to group.
LEMMA RegroupedAgain ==
  ASSUME NEW x, IsFile(x), MigrateProblems(x) = {}, NEW first, NEW again
  PROVE  LET y == MigratedFile(x, first) IN
         /\ Regrouped(y, again) = ByTable(Regrouped(x, first), KeptOf(x, first))
         /\ OrderOf(y, again) = KeptOf(x, first)
         /\ AboutOf(y) = AboutOf(x)
<1> DEFINE y == MigratedFile(x, first)
           g == MigratedGroup(x, first)
           k == KeptOf(x, first)
           r == Regrouped(x, first)
           w == ByTable(r, k)
<1>1. y.checks = <<>>
  BY MigratedFields
<1>2. Plain(y) = g
  BY MigratedPlain
<1>3. DOMAIN g = DOMAIN k /\ TablesOf(g) = k
  BY MigratedEntries
<1>4. \A i \in DOMAIN k : FlattenEntry(UnhoistedOf(y, g[i]), <<>>) = OfTable(r, k[i])
  BY EntryAgain
<1>5. k \in Seq(Tables) /\ IsInjective(k)
  BY MigratedKept
<1>6. r \in Seq(FlatCheck)
  BY MigrateTypes
<1>7. \A e \in ToSet(g) : Describes(e) => e.table \in AboutOf(x)
  BY EmptySetsOK, MigratedGroupFacts
<1>8. \A t \in AboutOf(x) : \E e \in ToSet(g) : e.table = t /\ Describes(e)
  BY EmptySetsOK, MigratedGroupFacts
<1> HIDE DEF y, g, k, r
<1>9. Unhoisted(y) = [i \in DOMAIN k |-> UnhoistedOf(y, g[i])]
  BY <1>2, <1>3 DEF Unhoisted, UnhoistedOf
<1>10. Flattened(y) = w
  <2> DEFINE U == Unhoisted(y)
  <2>1. DOMAIN U = DOMAIN k /\ \A i \in DOMAIN k : U[i] = UnhoistedOf(y, g[i])
    BY <1>9
  <2> HIDE DEF U
  <2>2. [i \in DOMAIN U |-> FlattenEntry(U[i], <<>>)] = [i \in DOMAIN k |-> OfTable(r, k[i])]
    BY <1>4, <2>1
  <2>3. Flattened(y) = FlattenSeq([i \in DOMAIN U |-> FlattenEntry(U[i], <<>>)])
    BY DEF Flattened, FlattenTableChecks, U
  <2> QED BY <2>2, <2>3 DEF ByTable
<1>11. w \in Seq(FlatCheck)
  BY <1>5, <1>6, ByTableFacts
<1>12. <<>> \o w = w /\ w \o <<>> = w
  <2> HIDE DEF w
  <2> QED BY <1>11, EmptyConcat
<1> HIDE DEF w
<1>13. Regrouped(y, again) = w
  BY <1>1, <1>10, <1>12 DEF Regrouped
<1>14. TablesOf(y.checks) = <<>>
  BY <1>1 DEF TablesOf
<1>15. <<>> \o k = k /\ k \o <<>> = k
  BY <1>5, EmptyConcat
<1>16. OrderOf(y, again) = k
  BY <1>2, <1>3, <1>14, <1>15 DEF OrderOf
<1>17. AboutOf(y) = AboutOf(x)
  <2>1. \A t : t \in AboutOf(y) <=> \E e \in ToSet(g) : Describes(e) /\ t = e.table
    BY <1>2, AboutIs
  <2>2. \A t : t \in AboutOf(y) <=> t \in AboutOf(x)
    BY <1>7, <1>8, <2>1
  <2> QED BY <2>2
<1> QED BY <1>13, <1>16, <1>17 DEF y, k, r, w

\* So it prints what is there.
LEMMA Converges ==
  ASSUME NEW x, IsFile(x), MigrateProblems(x) = {}, NEW first
  PROVE  LET y == MigratedFile(x, first) IN
         /\ IsInjective(TablesOf(Plain(y)))
         /\ \A again : ~HasToMigrate(y, again)
<1> DEFINE y == MigratedFile(x, first)
           g == MigratedGroup(x, first)
           k == KeptOf(x, first)
           r == Regrouped(x, first)
<1>1. y.checks = <<>> /\ y.tables = g \o SetBacked(x)
  BY MigratedFields
<1>2. Plain(y) = g /\ SetBacked(y) = SetBacked(x)
  BY MigratedPlain
<1>3. TablesOf(g) = k
  BY MigratedEntries
<1>4. IsInjective(k)
  BY MigratedKept
<1>5. ASSUME NEW again PROVE MigratedTables(y, again) = y.tables
  <2> DEFINE A == ActiveOf(x)
             b == AboutOf(x)
             o == OrderOf(x, first)
             w == ByTable(r, k)
  <2>1. MigratedTables(y, again) =
          GroupChecksByTable(Regrouped(y, again), ActiveOf(y), AboutOf(y), OrderOf(y, again))
            \o SetBacked(y)
    BY MigratedTablesIs
  <2>2. ActiveOf(y) = A
    BY HoistedAgain
  <2>3. AboutOf(y) = b
    BY RegroupedAgain
  <2>4. OrderOf(y, again) = k
    BY RegroupedAgain
  <2>5. Regrouped(y, again) = w
    BY RegroupedAgain
  <2>6. r \in Seq(FlatCheck)
    BY MigrateTypes
  <2>7. o \in Seq(Tables)
    BY MigrateTypes
  <2>8. k = KeptInOrder(r, A, b, o)
    BY DEF KeptOf
  <2>9. g = GroupChecksByTable(r, A, b, o)
    BY DEF MigratedGroup
  <2> HIDE DEF y, g, k, r, A, b, o
  <2>10. GroupChecksByTable(w, A, b, k) = GroupChecksByTable(r, A, b, o)
    BY <2>6, <2>7, <2>8, GroupedAgain
  <2> HIDE DEF w
  <2> QED BY <1>1, <1>2, <2>1, <2>2, <2>3, <2>4, <2>5, <2>9, <2>10
<1> HIDE DEF y, g, k
<1>6. ASSUME NEW again PROVE ~HasToMigrate(y, again)
  BY <1>1, <1>5 DEF HasToMigrate
<1> QED BY <1>2, <1>3, <1>4, <1>6 DEF y

\* Whatever the files hold, migrate has nothing to do twice.
LEMMA MigrationConvergesWhenTyped == ASSUME TypeOK PROVE MigrationConverges
<1> SUFFICES ASSUME NEW f \in Files, NEW first, MigrateProblems(files[f]) = {}
             PROVE  LET after == Migrated(f, first)[f]
                    IN  /\ IsInjective(TablesOf(Plain(after)))
                        /\ \A again \in {"checks", "tables"} : ~HasToMigrate(after, again)
  BY DEF MigrationConverges
<1> DEFINE y == MigratedFile(files[f], first)
<1>1. IsFile(files[f])
  BY DEF TypeOK
<1>2. Migrated(f, first)[f] = y
  BY DEF Migrated, MigratedFile, TypeOK
<1>3. IsInjective(TablesOf(Plain(y))) /\ \A again : ~HasToMigrate(y, again)
  BY <1>1, Converges
<1> HIDE DEF y
<1> QED BY <1>2, <1>3

\* dbfresh config migrate, run on what it printed, has nothing to do.
THEOREM MigrationAlwaysConverges == Spec => []MigrationConverges
<1>1. TypeOK => MigrationConverges
  BY MigrationConvergesWhenTyped
<1> QED BY TypeCorrect, <1>1, PTL
=============================================================================
