---------------------- MODULE JackPortAutoConnectProofs ----------------------
(***************************************************************************)
(* Proofs about JackPortAutoConnect, for all finite sets of ports, all ids *)
(* and every number of events.                                             *)
(***************************************************************************)
EXTENDS JackPortAutoConnect, SequenceTheorems, FiniteSetTheorems, FunctionTheorems,
        WellFoundedInduction, TLAPS

(***************************************************************************)
(* Induction.  The rules of the library take the property as an operator;  *)
(* with a set for the property they follow from the fact that the natural  *)
(* numbers are well founded.                                               *)
(***************************************************************************)

\* A set of natural numbers that holds 0 and the successor of each member holds all.
LEMMA NatSetInduction ==
  ASSUME NEW S, 0 \in S, \A n \in Nat : n \in S => n + 1 \in S
  PROVE  \A n \in Nat : n \in S
<1> SUFFICES ASSUME NEW n \in Nat, n \notin S
             PROVE  FALSE
  OBVIOUS
<1> DEFINE T == {k \in Nat : k \notin S}
           R == {ss \in Nat \X Nat : ss[1] < ss[2]}
<1>1. IsWellFoundedOn(R, Nat)
  BY NatLessThanWellFounded DEF OpToRel
<1>2. PICK x \in T : \A y \in T : ~(<<y, x>> \in R)
  <2>1. T \subseteq Nat /\ n \in T
    OBVIOUS
  <2> HIDE DEF R, T
  <2> QED
    BY <1>1, <2>1, WFMin
<1>3. x # 0
  OBVIOUS
<1>4. x - 1 \in Nat /\ x - 1 \notin T
  <2>1. x - 1 \in Nat
    BY <1>3
  <2>2. <<x - 1, x>> \in R
    BY <2>1
  <2> QED
    BY <1>2, <2>1, <2>2
<1>5. (x - 1) + 1 \in S
  BY <1>4
<1> QED
  BY <1>5

\* Some numbers up to n have a greatest.
LEMMA Greatest ==
  ASSUME NEW n \in Nat, NEW T \in SUBSET (1..n), T # {}
  PROVE  \E m \in T : \A k \in T : k <= m
<1> DEFINE S == {k \in Nat : \A U \in SUBSET (1..k) : U # {} => \E m \in U : \A i \in U : i <= m}
<1>1. 0 \in S
  <2>1. \A U \in SUBSET (1..0) : U = {}
    OBVIOUS
  <2> QED
    BY <2>1
<1>2. ASSUME NEW k \in Nat, k \in S
      PROVE  k + 1 \in S
  <2> SUFFICES ASSUME NEW U \in SUBSET (1..(k + 1)), U # {}
               PROVE  \E m \in U : \A i \in U : i <= m
    OBVIOUS
  <2>1. CASE k + 1 \in U
    BY <2>1
  <2>2. CASE k + 1 \notin U
    <3>1. U \in SUBSET (1..k)
      BY <2>2
    <3> QED
      BY <1>2, <3>1
  <2> QED
    BY <2>1, <2>2
<1>3. n \in S
  <2> HIDE DEF S
  <2> QED
    BY <1>1, <1>2, NatSetInduction
<1> QED
  BY <1>3

(***************************************************************************)
(* The notifications of a set of connections.                              *)
(***************************************************************************)

\* The sequence of a finite set has its members, and only these.
LEMMA SetToSeqFacts ==
  ASSUME NEW S, IsFiniteSet(S)
  PROVE  /\ Cardinality(S) \in Nat
         /\ SetToSeq(S) \in [1..Cardinality(S) -> S]
         /\ \A x \in S : \E i \in 1..Cardinality(S) : SetToSeq(S)[i] = x
<1> DEFINE n == Cardinality(S)
           f == SetToSeq(S)
<1>1. n \in Nat /\ ExistsBijection(1..n, S)
  BY FS_CardinalityType
<1>2. PICK g : g \in Bijection(1..n, S)
  BY <1>1, Fun_ExistsBij, Zenon
<1>3. g \in [1..n -> S] /\ IsInjective(g)
  <2>1. g \in [1..n -> S] /\ \A a, b \in 1..n : g[a] = g[b] => a = b
    <3> HIDE DEF n
    <3> QED
      BY <1>2, Fun_BijectionProperties
  <2> QED
    BY <2>1, Zenon DEF IsInjective
<1>4. f \in [1..n -> S] /\ IsInjective(f)
  BY <1>3, Zenon DEF SetToSeq
<1>5. f \in Injection(1..n, S)
  BY <1>4, Zenon DEF Injection
<1>6. IsFiniteSet(1..n) /\ Cardinality(1..n) = n
  BY <1>1, FS_Interval
<1>7. f \in Surjection(1..n, S)
  <2> HIDE DEF f
  <2> QED
    BY <1>5, <1>6, FS_Injection
<1>8. \A x \in S : \E i \in 1..n : f[i] = x
  <2> HIDE DEF f, n
  <2> QED
    BY <1>7 DEF Surjection
<1> QED
  BY <1>1, <1>4, <1>8

\* Each connection is notified with the ids of its ports.
LEMMA ChangesFacts ==
  ASSUME NEW pairs \in SUBSET Pair, NEW connect \in BOOLEAN, IsFiniteSet(pairs),
         \A p \in pairs : idOf[p[1]] \in Id /\ idOf[p[2]] \in Id
  PROVE  /\ Changes(pairs, connect) \in Seq(PortChange)
         /\ \A p \in pairs : \E i \in DOMAIN Changes(pairs, connect) :
               Changes(pairs, connect)[i] = Change(idOf[p[1]], idOf[p[2]], connect)
         /\ \A i \in DOMAIN Changes(pairs, connect) : \E p \in pairs :
               Changes(pairs, connect)[i] = Change(idOf[p[1]], idOf[p[2]], connect)
<1> DEFINE n == Cardinality(pairs)
           s == SetToSeq(pairs)
           of == [p \in pairs |-> Change(idOf[p[1]], idOf[p[2]], connect)]
           t == [i \in 1..n |-> of[s[i]]]
<1>1. /\ n \in Nat /\ s \in [1..n -> pairs]
      /\ \A p \in pairs : \E i \in 1..n : s[i] = p
  BY SetToSeqFacts
<1>2. Len(s) = n
  BY <1>1
<1>3. Changes(pairs, connect) = t
  BY <1>2 DEF Changes
<1>4. \A i \in 1..n : s[i] \in pairs
  BY <1>1
<1>5. \A p \in pairs : of[p] = Change(idOf[p[1]], idOf[p[2]], connect) /\ of[p] \in PortChange
  BY DEF PortChange
<1>6. \A i \in 1..n : t[i] = of[s[i]]
  OBVIOUS
<1> HIDE DEF s, n, of
<1>7. t \in Seq(PortChange) /\ DOMAIN t = 1..n
  BY <1>1, <1>4, <1>5
<1> HIDE DEF t
<1>8. \A p \in pairs : \E i \in 1..n : t[i] = of[p]
  BY <1>1, <1>6
<1>9. \A i \in 1..n : \E p \in pairs : t[i] = of[p]
  BY <1>4, <1>6
<1> QED
  BY <1>3, <1>5, <1>7, <1>8, <1>9

(***************************************************************************)
(* The last change of two ids.                                             *)
(***************************************************************************)

\* There is none, or it was the one or the other.
LEMMA LatestFacts ==
  ASSUME NEW S, NEW s \in Seq(S), NEW a, NEW b
  PROVE  /\ ~Silent(s, a, b) => \E v : Latest(s, a, b, v)
         /\ \A v : Latest(s, a, b, v) => ~Silent(s, a, b)
         /\ \A v, w : Latest(s, a, b, v) /\ Latest(s, a, b, w) => v = w
<1> USE DEF Silent, Latest
<1>1. ASSUME ~Silent(s, a, b)
      PROVE  \E v : Latest(s, a, b, v)
  <2> DEFINE T == {i \in 1..Len(s) : IsChange(s[i], a, b)}
  <2>1. T # {} /\ T \in SUBSET (1..Len(s)) /\ Len(s) \in Nat /\ DOMAIN s = 1..Len(s)
    BY <1>1
  <2>2. PICK i \in T : \A j \in T : j <= i
    <3> HIDE DEF T
    <3> QED
      BY <2>1, Greatest
  <2> QED
    BY <2>1, <2>2
<1>2. ASSUME NEW v, NEW w, Latest(s, a, b, v), Latest(s, a, b, w)
      PROVE  v = w
  <2>1. PICK i \in DOMAIN s : IsChange(s[i], a, b) /\ s[i].connect = v
                              /\ \A j \in DOMAIN s : IsChange(s[j], a, b) => j <= i
    BY <1>2
  <2>2. PICK k \in DOMAIN s : IsChange(s[k], a, b) /\ s[k].connect = w
                              /\ \A j \in DOMAIN s : IsChange(s[j], a, b) => j <= k
    BY <1>2
  <2>3. i = k
    BY <2>1, <2>2
  <2> QED
    BY <2>1, <2>2, <2>3
<1> QED
  BY <1>1, <1>2

\* When one sequence follows another its last change is the last of both.
LEMMA ConcatLatest ==
  ASSUME NEW S, NEW s \in Seq(S), NEW t \in Seq(S), NEW a, NEW b
  PROVE  /\ Silent(s \o t, a, b) <=> Silent(s, a, b) /\ Silent(t, a, b)
         /\ \A v : Latest(s \o t, a, b, v) <=>
                      Latest(t, a, b, v) \/ (Silent(t, a, b) /\ Latest(s, a, b, v))
<1> DEFINE u == s \o t
           m == Len(s)
           n == Len(t)
<1>1. /\ u \in Seq(S) /\ m \in Nat /\ n \in Nat /\ Len(u) = m + n
      /\ DOMAIN s = 1..m /\ DOMAIN t = 1..n /\ DOMAIN u = 1..(m + n)
  BY ConcatProperties, LenProperties
<1>2. (\A i \in 1..m : u[i] = s[i]) /\ (\A i \in 1..n : u[m + i] = t[i])
  BY <1>1, ConcatProperties
<1>3. \A i \in DOMAIN u : i \in 1..m \/ \E j \in 1..n : i = m + j
  <2> SUFFICES ASSUME NEW i \in 1..(m + n), i \notin 1..m
               PROVE  \E j \in 1..n : i = m + j
    BY <1>1
  <2>1. i - m \in 1..n /\ i = m + (i - m)
    BY <1>1
  <2> QED
    BY <2>1
<1> HIDE DEF u, m, n
<1>4. Silent(u, a, b) <=> Silent(s, a, b) /\ Silent(t, a, b)
  <2>1. ASSUME Silent(u, a, b)
        PROVE  Silent(s, a, b) /\ Silent(t, a, b)
    <3>1. \A i \in 1..m : i \in DOMAIN u
      BY <1>1
    <3>2. \A i \in 1..n : m + i \in DOMAIN u
      BY <1>1
    <3> QED
      BY <1>1, <1>2, <2>1, <3>1, <3>2 DEF Silent
  <2>2. ASSUME Silent(s, a, b), Silent(t, a, b)
        PROVE  Silent(u, a, b)
    BY <1>1, <1>2, <1>3, <2>2 DEF Silent
  <2> QED
    BY <2>1, <2>2
<1>5. ASSUME NEW v, Latest(t, a, b, v)
      PROVE  Latest(u, a, b, v)
  <2>1. PICK i \in 1..n : IsChange(t[i], a, b) /\ t[i].connect = v
                          /\ \A j \in 1..n : IsChange(t[j], a, b) => j <= i
    BY <1>1, <1>5 DEF Latest
  <2>2. m + i \in DOMAIN u /\ IsChange(u[m + i], a, b) /\ u[m + i].connect = v
    BY <1>1, <1>2, <2>1
  <2>3. ASSUME NEW j \in DOMAIN u, IsChange(u[j], a, b)
        PROVE  j <= m + i
    <3>1. CASE j \in 1..m
      BY <1>1, <3>1
    <3>2. ASSUME NEW k \in 1..n, j = m + k
          PROVE  j <= m + i
      <4>1. k <= i
        BY <1>2, <2>1, <2>3, <3>2
      <4> QED
        BY <1>1, <3>2, <4>1
    <3> QED
      BY <1>3, <3>1, <3>2
  <2> QED
    BY <2>2, <2>3 DEF Latest
<1>6. ASSUME NEW v, Silent(t, a, b), Latest(s, a, b, v)
      PROVE  Latest(u, a, b, v)
  <2>1. PICK i \in 1..m : IsChange(s[i], a, b) /\ s[i].connect = v
                          /\ \A j \in 1..m : IsChange(s[j], a, b) => j <= i
    BY <1>1, <1>6 DEF Latest
  <2>2. i \in DOMAIN u /\ IsChange(u[i], a, b) /\ u[i].connect = v
    BY <1>1, <1>2, <2>1
  <2>3. ASSUME NEW j \in DOMAIN u, IsChange(u[j], a, b)
        PROVE  j <= i
    BY <1>1, <1>2, <1>3, <1>6, <2>1, <2>3 DEF Silent
  <2> QED
    BY <2>2, <2>3 DEF Latest
<1>7. ASSUME NEW v, Latest(u, a, b, v), ~Latest(t, a, b, v)
      PROVE  Silent(t, a, b) /\ Latest(s, a, b, v)
  <2>1. Silent(t, a, b)
    <3> SUFFICES ASSUME ~Silent(t, a, b)
                 PROVE  FALSE
      OBVIOUS
    <3>1. PICK w : Latest(t, a, b, w)
      BY LatestFacts
    <3>2. v = w
      <4>1. Latest(u, a, b, w)
        BY <1>5, <3>1
      <4> QED
        BY <1>1, <1>7, <4>1, LatestFacts
    <3> QED
      BY <1>7, <3>1, <3>2
  <2>2. ~Silent(u, a, b)
    BY <1>1, <1>7, LatestFacts
  <2>3. PICK w : Latest(s, a, b, w)
    BY <1>4, <2>1, <2>2, LatestFacts
  <2>4. v = w
    <3>1. Latest(u, a, b, w)
      BY <1>6, <2>1, <2>3
    <3> QED
      BY <1>1, <1>7, <3>1, LatestFacts
  <2> QED
    BY <2>1, <2>3, <2>4
<1> QED
  BY <1>4, <1>5, <1>6, <1>7 DEF u

\* One notification.
LEMMA SingleLatest ==
  ASSUME NEW n, NEW a, NEW b
  PROVE  /\ Silent(<<n>>, a, b) <=> ~IsChange(n, a, b)
         /\ \A v : Latest(<<n>>, a, b, v) <=> IsChange(n, a, b) /\ n.connect = v
<1>1. DOMAIN <<n>> = {1} /\ <<n>>[1] = n
  OBVIOUS
<1> QED
  BY <1>1 DEF Silent, Latest

\* A notification at the end of a sequence.
LEMMA AppendLatest ==
  ASSUME NEW S, NEW s \in Seq(S), NEW n \in S, NEW a, NEW b
  PROVE  /\ Silent(Append(s, n), a, b) <=> Silent(s, a, b) /\ ~IsChange(n, a, b)
         /\ \A v : Latest(Append(s, n), a, b, v) <=>
                      IF IsChange(n, a, b) THEN n.connect = v ELSE Latest(s, a, b, v)
<1>1. Append(s, n) = s \o <<n>> /\ <<n>> \in Seq(S)
  BY AppendIsConcat
<1>2. /\ Silent(s \o <<n>>, a, b) <=> Silent(s, a, b) /\ Silent(<<n>>, a, b)
      /\ \A v : Latest(s \o <<n>>, a, b, v) <=>
                   Latest(<<n>>, a, b, v) \/ (Silent(<<n>>, a, b) /\ Latest(s, a, b, v))
  BY <1>1, ConcatLatest
<1> QED
  BY <1>1, <1>2, SingleLatest

\* A notification at the head of a sequence.
LEMMA HeadLatest ==
  ASSUME NEW S, NEW s \in Seq(S), s # <<>>, NEW a, NEW b
  PROVE  /\ Silent(s, a, b) <=> ~IsChange(Head(s), a, b) /\ Silent(Tail(s), a, b)
         /\ \A v : Latest(s, a, b, v) <=>
                      \/ Latest(Tail(s), a, b, v)
                      \/ Silent(Tail(s), a, b) /\ IsChange(Head(s), a, b) /\ Head(s).connect = v
<1>1. Head(s) \in S /\ Tail(s) \in Seq(S) /\ <<Head(s)>> \in Seq(S)
  BY HeadTailProperties
<1>2. s = <<Head(s)>> \o Tail(s)
  OBVIOUS
<1>3. /\ Silent(<<Head(s)>> \o Tail(s), a, b) <=>
            Silent(<<Head(s)>>, a, b) /\ Silent(Tail(s), a, b)
      /\ \A v : Latest(<<Head(s)>> \o Tail(s), a, b, v) <=>
                   Latest(Tail(s), a, b, v) \/ (Silent(Tail(s), a, b) /\ Latest(<<Head(s)>>, a, b, v))
  BY <1>1, ConcatLatest
<1> QED
  BY <1>2, <1>3, SingleLatest

\* The notifications of some connections at the end of a sequence.
LEMMA ChangesLatest ==
  ASSUME NEW pairs \in SUBSET Pair, NEW connect \in BOOLEAN, IsFiniteSet(pairs),
         \A p \in pairs : idOf[p[1]] \in Id /\ idOf[p[2]] \in Id,
         NEW s \in Seq(Notification), NEW a, NEW b
  PROVE  LET t == s \o Changes(pairs, connect)
             among == \E p \in pairs : idOf[p[1]] = a /\ idOf[p[2]] = b
         IN  /\ t \in Seq(Notification)
             /\ Silent(t, a, b) <=> Silent(s, a, b) /\ ~among
             /\ \A v : Latest(t, a, b, v) <=>
                          IF among THEN v = connect ELSE Latest(s, a, b, v)
<1> DEFINE c == Changes(pairs, connect)
           among == \E p \in pairs : idOf[p[1]] = a /\ idOf[p[2]] = b
<1>1. /\ c \in Seq(PortChange)
      /\ \A p \in pairs : \E i \in DOMAIN c : c[i] = Change(idOf[p[1]], idOf[p[2]], connect)
      /\ \A i \in DOMAIN c : \E p \in pairs : c[i] = Change(idOf[p[1]], idOf[p[2]], connect)
  BY ChangesFacts
<1>2. c \in Seq(Notification)
  <2>1. PortChange \subseteq Notification
    BY DEF Notification
  <2> HIDE DEF c
  <2> QED
    BY <1>1, <2>1, SeqMonotonic
<1> HIDE DEF c
<1>3. Silent(c, a, b) <=> ~among
  <2>1. \A x, y, v : IsChange(Change(x, y, v), a, b) <=> x = a /\ y = b
    BY DEF IsChange, Change
  <2> QED
    BY <1>1, <2>1 DEF Silent
<1>4. \A v : Latest(c, a, b, v) => v = connect
  BY <1>1 DEF Latest, Change
<1>5. among => Latest(c, a, b, connect)
  <2>1. among => \E v : Latest(c, a, b, v)
    BY <1>2, <1>3, LatestFacts
  <2> QED
    BY <1>4, <2>1
<1>6. ~among => \A v : ~Latest(c, a, b, v)
  BY <1>2, <1>3, LatestFacts
<1>7. s \o c \in Seq(Notification)
  BY <1>2, ConcatProperties
<1>8. /\ Silent(s \o c, a, b) <=> Silent(s, a, b) /\ Silent(c, a, b)
      /\ \A v : Latest(s \o c, a, b, v) <=>
                   Latest(c, a, b, v) \/ (Silent(c, a, b) /\ Latest(s, a, b, v))
  BY <1>2, ConcatLatest
<1> QED
  BY <1>3, <1>4, <1>5, <1>6, <1>7, <1>8 DEF c

(***************************************************************************)
(* The pending changes, one after the other.                               *)
(***************************************************************************)

\* The greatest of the first numbers, and of any of them.
LEMMA MaxFacts ==
  ASSUME NEW n \in Nat
  PROVE  /\ n # 0 => Max(1..n) = n /\ (1..n) \ {n} = 1..(n - 1)
         /\ \A T \in SUBSET (1..(n + 1)) : T # {} => T \ {Max(T)} \in SUBSET (1..n)
<1>1. ASSUME NEW k \in Nat, NEW T \in SUBSET (1..k), T # {}
      PROVE  Max(T) \in T /\ \A i \in T : Max(T) >= i
  <2>1. \E m \in T : \A i \in T : m >= i
    BY <1>1, Greatest
  <2> QED
    BY <2>1 DEF Max
<1>2. ASSUME n # 0
      PROVE  Max(1..n) = n /\ (1..n) \ {n} = 1..(n - 1)
  <2>1. n \in 1..n
    BY <1>2
  <2>2. Max(1..n) \in 1..n /\ \A i \in 1..n : Max(1..n) >= i
    BY <1>1, <2>1
  <2>3. Max(1..n) >= n
    BY <2>1, <2>2
  <2> QED
    BY <2>2, <2>3
<1>3. ASSUME NEW T \in SUBSET (1..(n + 1)), T # {}
      PROVE  T \ {Max(T)} \in SUBSET (1..n)
  <2>1. n + 1 \in Nat
    OBVIOUS
  <2>2. Max(T) \in T /\ \A i \in T : Max(T) >= i
    BY <1>1, <1>3, <2>1
  <2>3. ASSUME NEW i \in T, i # Max(T)
        PROVE  i \in 1..n
    <3>1. i \in 1..(n + 1) /\ Max(T) \in 1..(n + 1) /\ Max(T) >= i
      BY <2>2
    <3> QED
      BY <2>3, <3>1
  <2> QED
    BY <2>3
<1> QED
  BY <1>2, <1>3

\* The states of the maps after each of n changes.
IsRun(g, maps, s, n) ==
    /\ g[0] = maps
    /\ \A k \in 1..n : g[k] = Apply(g[k - 1], s[k])
    /\ ApplyAll(maps, s) = g[n]

\* jackOnGraphReordered() passes through a state of the maps after each change.
LEMMA ApplyRun ==
  ASSUME NEW maps, NEW s, NEW n \in Nat, DOMAIN s = 1..n
  PROVE  \E g : IsRun(g, maps, s, n)
<1> DEFINE Body(h, x) == IF x = {} THEN maps ELSE Apply(h[x \ {Max(x)}], s[Max(x)])
           D == {k \in Nat : \E h : h = [x \in SUBSET (1..k) |-> Body(h, x)]}
           iter == CHOOSE h : h = [x \in SUBSET (1..n) |-> Body(h, x)]
           g == [k \in 0..n |-> iter[1..k]]
<1>1. ApplyAll(maps, s) = iter[1..n]
  BY DEF ApplyAll, FoldLeft, MapThenFoldSet
<1>2. 0 \in D
  <2> DEFINE h == [x \in SUBSET (1..0) |-> maps]
  <2>1. \A x \in SUBSET (1..0) : x = {}
    OBVIOUS
  <2>2. h = [x \in SUBSET (1..0) |-> Body(h, x)]
    BY <2>1
  <2> QED
    BY <2>2
<1>3. ASSUME NEW k \in Nat, k \in D
      PROVE  k + 1 \in D
  <2>1. PICK h : h = [x \in SUBSET (1..k) |-> Body(h, x)]
    BY <1>3
  <2> DEFINE H == [x \in SUBSET (1..(k + 1)) |-> Body(h, x)]
  <2>2. \A x \in SUBSET (1..k) : H[x] = h[x]
    <3>1. SUBSET (1..k) \subseteq SUBSET (1..(k + 1))
      OBVIOUS
    <3>2. \A x \in SUBSET (1..k) : h[x] = Body(h, x)
      <4> HIDE DEF Body
      <4> QED
        BY <2>1, Zenon
    <3> HIDE DEF Body
    <3> QED
      BY <3>1, <3>2
  <2>3. \A x \in SUBSET (1..(k + 1)) : Body(h, x) = Body(H, x)
    <3> HIDE DEF H
    <3> QED
      BY <2>2, MaxFacts
  <2>4. H = [x \in SUBSET (1..(k + 1)) |-> Body(H, x)]
    <3>1. \A x \in SUBSET (1..(k + 1)) : H[x] = Body(H, x)
      <4>1. \A x \in SUBSET (1..(k + 1)) : H[x] = Body(h, x)
        BY Zenon
      <4> HIDE DEF H, Body
      <4> QED
        BY <2>3, <4>1
    <3>2. H = [x \in SUBSET (1..(k + 1)) |-> H[x]]
      OBVIOUS
    <3> HIDE DEF H, Body
    <3> QED
      BY <3>1, <3>2
  <2> QED
    <3> HIDE DEF H, Body
    <3> QED
      BY <2>4
<1>4. n \in D
  <2> HIDE DEF D
  <2> QED
    BY <1>2, <1>3, NatSetInduction
<1>5. iter = [x \in SUBSET (1..n) |-> Body(iter, x)]
  <2> HIDE DEF Body
  <2> QED
    BY <1>4, Zenon
<1>6. \A x \in SUBSET (1..n) : iter[x] = Body(iter, x)
  <2> HIDE DEF Body, iter
  <2> QED
    BY <1>5, Zenon
<1>7. g[0] = maps
  <2>1. (1..0) \in SUBSET (1..n) /\ 1..0 = {}
    OBVIOUS
  <2>2. iter[1..0] = maps
    <3> HIDE DEF iter
    <3> QED
      BY <1>6, <2>1
  <2> HIDE DEF iter
  <2> QED
    BY <2>2
<1>8. ASSUME NEW k \in 1..n
      PROVE  g[k] = Apply(g[k - 1], s[k])
  <2>1. k \in Nat /\ k # 0 /\ (1..k) \in SUBSET (1..n) /\ 1..k # {}
    OBVIOUS
  <2>2. Max(1..k) = k /\ (1..k) \ {k} = 1..(k - 1)
    BY <2>1, MaxFacts
  <2>3. iter[1..k] = Apply(iter[1..(k - 1)], s[k])
    <3> HIDE DEF iter
    <3> QED
      BY <1>6, <2>1, <2>2
  <2>4. g[k] = iter[1..k] /\ g[k - 1] = iter[1..(k - 1)]
    <3> HIDE DEF iter
    <3> QED
      OBVIOUS
  <2> QED
    BY <2>3, <2>4
<1>9. g[n] = iter[1..n]
  <2> HIDE DEF iter
  <2> QED
    OBVIOUS
<1> QED
  <2> HIDE DEF iter, g
  <2>1. IsRun(g, maps, s, n)
    BY <1>1, <1>7, <1>8, <1>9 DEF IsRun
  <2> QED
    BY <2>1

(***************************************************************************)
(* Ports, ids and connections.                                             *)
(***************************************************************************)

\* TypeOK without the flags.
TypesOK ==
    /\ idOf \in [Port -> Id \cup {NoId}]
    /\ usedIds \subseteq Id
    /\ links \subseteq PresentPairs
    /\ queue \in Seq(Notification) /\ batch \in Seq(Notification)
    /\ pending \in Seq(PortChange)
    /\ prevCount \in Nat
    /\ outs \subseteq Pair /\ ins \subseteq Pair
    /\ events \in 0..MaxEvents
    /\ cut \subseteq Pair

FlagsOK ==
    /\ reused \in BOOLEAN /\ dirty \in BOOLEAN
    /\ auto \in BOOLEAN /\ monitor \in BOOLEAN /\ blind \in BOOLEAN

\* The type invariant in its parts.
LEMMA TypeParts ==
  /\ TypeOK <=> TypesOK /\ FlagsOK
  /\ TypeOK' <=> TypesOK' /\ FlagsOK'
<1>1. \A a, b, c : {a, b, c} \subseteq BOOLEAN <=> a \in BOOLEAN /\ b \in BOOLEAN /\ c \in BOOLEAN
  BY Zenon
<1>2. \A s, t : {s, t} \subseteq Seq(Notification) <=>
                   s \in Seq(Notification) /\ t \in Seq(Notification)
  BY Zenon
<1> QED
  BY <1>1, <1>2, Zenon DEF TypeOK, TypesOK, FlagsOK

\* Two ids name at most one pair of ports, and some pairs are finitely many.
LEMMA PairFacts ==
  ASSUME TypesOK, IdsInv
  PROVE  /\ \A p \in Pair : p[1] \in Port /\ p[2] \in Port /\ p = <<p[1], p[2]>>
         /\ \A p \in PresentPairs : idOf[p[1]] \in Id /\ idOf[p[2]] \in Id
         /\ \A p \in PresentPairs, q \in Pair :
               idOf[p[1]] = idOf[q[1]] /\ idOf[p[2]] = idOf[q[2]] => p = q
         /\ \A p \in PresentPairs : Linked(idOf[p[1]], idOf[p[2]]) <=> p \in links
         /\ \A S \in SUBSET Pair : IsFiniteSet(S)
<1>1. \A p \in Pair : p[1] \in Port /\ p[2] \in Port /\ p = <<p[1], p[2]>>
  BY DEF Pair, Port
<1>2. \A p \in PresentPairs : idOf[p[1]] \in Id /\ idOf[p[2]] \in Id
  BY <1>1 DEF PresentPairs, Present, TypesOK
<1>3. ASSUME NEW p \in PresentPairs, NEW q \in Pair,
             idOf[p[1]] = idOf[q[1]], idOf[p[2]] = idOf[q[2]]
      PROVE  p = q
  <2>1. p[1] = q[1] /\ p[2] = q[2]
    BY <1>1, <1>3 DEF IdsInv, PresentPairs
  <2> QED
    BY <1>1, <2>1 DEF PresentPairs
<1>4. \A p \in PresentPairs : Linked(idOf[p[1]], idOf[p[2]]) <=> p \in links
  BY <1>3 DEF Linked, TypesOK, PresentPairs
<1>5. IsFiniteSet(Pair)
  BY JackAssumption, FS_Product DEF Pair
<1>6. \A S \in SUBSET Pair : IsFiniteSet(S)
  BY <1>5, FS_Subset
<1> QED
  BY <1>1, <1>2, <1>3, <1>4, <1>6

\* The members of sequences that grow and shrink.
LEMMA MemberFacts ==
  ASSUME NEW S, NEW s \in Seq(S)
  PROVE  /\ ToSet(s) \subseteq S
         /\ ToSet(<<>>) = {}
         /\ \A t \in Seq(S) : ToSet(s \o t) = ToSet(s) \cup ToSet(t)
         /\ \A e \in S : ToSet(Append(s, e)) = ToSet(s) \cup {e}
         /\ s # <<>> => ToSet(s) = ToSet(Tail(s)) \cup {Head(s)}
<1>1. ToSet(s) \subseteq S
  BY DEF ToSet
<1>2. ToSet(<<>>) = {}
  BY DEF ToSet
<1>3. ASSUME NEW t \in Seq(S)
      PROVE  ToSet(s \o t) = ToSet(s) \cup ToSet(t)
  <2>1. Range(s \o t) = Range(s) \cup Range(t)
    BY RangeConcatenation
  <2> QED
    BY <2>1 DEF ToSet, Range
<1>4. \A e : ToSet(<<e>>) = {e}
  <2>1. \A e : DOMAIN <<e>> = {1} /\ <<e>>[1] = e
    OBVIOUS
  <2> QED
    BY <2>1 DEF ToSet
<1>5. \A e \in S : ToSet(Append(s, e)) = ToSet(s) \cup {e}
  <2>1. \A e \in S : Append(s, e) = s \o <<e>> /\ <<e>> \in Seq(S)
    BY AppendIsConcat
  <2> QED
    BY <1>3, <1>4, <2>1
<1>6. ASSUME s # <<>>
      PROVE  ToSet(s) = ToSet(Tail(s)) \cup {Head(s)}
  <2>1. s = <<Head(s)>> \o Tail(s) /\ <<Head(s)>> \in Seq(S) /\ Tail(s) \in Seq(S)
    BY <1>6, HeadTailProperties
  <2>2. ToSet(<<Head(s)>> \o Tail(s)) = ToSet(<<Head(s)>>) \cup ToSet(Tail(s))
    BY <2>1, RangeConcatenation DEF ToSet, Range
  <2> QED
    BY <1>4, <2>1, <2>2
<1> QED
  BY <1>1, <1>2, <1>3, <1>5, <1>6

\* savePortConnection() for one change touches no other pair of ports.
LEMMA ApplyFacts ==
  ASSUME TypesOK, IdsInv, NEW maps, NEW c \in PortChange,
         maps.out \in SUBSET Pair, maps.in = maps.out
  PROVE  LET r == Apply(maps, c)
         IN  /\ r.out \in SUBSET Pair /\ r.in = r.out
             /\ ~monitor => r.out = maps.out
             /\ \A p \in Pair :
                   IF IsChange(c, idOf[p[1]], idOf[p[2]])
                   THEN monitor => (p \in r.out <=> c.connect)
                   ELSE p \in r.out <=> p \in maps.out
<1> DEFINE of == {p \in Pair : idOf[p[1]] = c.a /\ idOf[p[2]] = c.b}
           q == CHOOSE p \in of : TRUE
<1>1. c.type = "connect" /\ c.a \in Id /\ c.b \in Id /\ c.connect \in BOOLEAN
  BY DEF PortChange, Change
<1>2. \A p \in Pair : IsChange(c, idOf[p[1]], idOf[p[2]]) <=> p \in of
  BY <1>1 DEF IsChange
<1>3. CASE of = {}
  <2>1. Apply(maps, c) = maps
    BY <1>3 DEF Apply
  <2> QED
    BY <1>2, <1>3, <2>1
<1>4. CASE of # {}
  <2>1. q \in of
    BY <1>4
  <2>2. q \in PresentPairs
    BY <1>1, <2>1, JackAssumption DEF PresentPairs, Present
  <2>3. of = {q}
    <3>1. \A p \in of : p = q
      <4> HIDE DEF q
      <4> QED
        BY <2>1, <2>2, PairFacts
    <3> HIDE DEF q, of
    <3> QED
      BY <2>1, <3>1
  <2>4. Apply(maps, c) = Save(maps, q, c.connect)
    BY <1>4 DEF Apply
  <2>5. q \in Pair
    BY <2>1
  <2> HIDE DEF q, of
  <2>6. CASE ~monitor
    BY <1>2, <2>4, <2>6 DEF Save
  <2>7. CASE monitor /\ c.connect
    BY <1>2, <2>3, <2>4, <2>5, <2>7 DEF Save
  <2>8. CASE monitor /\ ~c.connect
    BY <1>2, <2>3, <2>4, <2>5, <2>8 DEF Save
  <2> QED
    BY <2>6, <2>7, <2>8
<1> QED
  BY <1>3, <1>4

\* What the pending changes leave in the maps: of each pair of ports that is there
\* what the last change said, and what nobody undid.
LEMMA ReorderFacts ==
  ASSUME TypesOK, IdsInv, SameMaps
  PROVE  LET r == ApplyAll([out |-> outs, in |-> ins], pending)
         IN  /\ r.out \in SUBSET Pair /\ r.in = r.out
             /\ monitor => \A p \in Pair :
                   /\ Latest(pending, idOf[p[1]], idOf[p[2]], TRUE) => p \in r.out
                   /\ Latest(pending, idOf[p[1]], idOf[p[2]], FALSE) => p \notin r.out
                   /\ Silent(pending, idOf[p[1]], idOf[p[2]]) => (p \in r.out <=> p \in outs)
             /\ ~monitor => r.out = outs
             /\ \A p \in outs \ r.out :
                   \E c \in ToSet(pending) : IsChange(c, idOf[p[1]], idOf[p[2]]) /\ ~c.connect
<1> DEFINE n == Len(pending)
           IsOf(i, p) == IsChange(pending[i], idOf[p[1]], idOf[p[2]])
           \* The last change of p among the first k.
           LastOf(k, p, i) == i \in 1..k /\ IsOf(i, p) /\ \A j \in 1..k : IsOf(j, p) => j <= i
<1>1. n \in Nat /\ DOMAIN pending = 1..n /\ \A i \in 1..n : pending[i] \in PortChange
  BY DEF TypesOK
<1>c. \A c \in PortChange : c.connect \in BOOLEAN
  BY DEF PortChange, Change
<1>2. PICK g : IsRun(g, [out |-> outs, in |-> ins], pending, n)
  <2> HIDE DEF n
  <2> QED
    BY <1>1, ApplyRun
<1> DEFINE Kept(k) ==
               /\ g[k].out \in SUBSET Pair /\ g[k].in = g[k].out
               /\ monitor => \A p \in Pair :
                     /\ \A i \in 1..k : LastOf(k, p, i) => (p \in g[k].out <=> pending[i].connect)
                     /\ (\A i \in 1..k : ~IsOf(i, p)) => (p \in g[k].out <=> p \in outs)
               /\ ~monitor => g[k].out = outs
               /\ \A p \in outs \ g[k].out : \E i \in 1..k : IsOf(i, p) /\ ~pending[i].connect
           D == {k \in Nat : k <= n => Kept(k)}
<1>3. 0 \in D
  BY <1>2 DEF IsRun, SameMaps, TypesOK
<1>4. ASSUME NEW k \in Nat, k \in D
      PROVE  k + 1 \in D
  <2> SUFFICES ASSUME k + 1 <= n
               PROVE  Kept(k + 1)
    OBVIOUS
  <2>1. Kept(k)
    BY <1>1, <1>4
  <2>2. k + 1 \in 1..n /\ (k + 1) - 1 = k
    BY <1>1
  <2> DEFINE c == pending[k + 1]
             r == g[k + 1]
  <2>3. c \in PortChange /\ r = Apply(g[k], c)
    BY <1>1, <1>2, <2>2 DEF IsRun
  <2>4. c.connect \in BOOLEAN
    BY <1>c, <2>3
  <2>5. /\ r.out \in SUBSET Pair /\ r.in = r.out
        /\ ~monitor => r.out = g[k].out
        /\ \A p \in Pair :
              IF IsOf(k + 1, p) THEN monitor => (p \in r.out <=> c.connect)
              ELSE p \in r.out <=> p \in g[k].out
    <3> HIDE DEF c, r
    <3>1. g[k].out \in SUBSET Pair /\ g[k].in = g[k].out
      BY <2>1
    <3> QED
      BY <2>3, <3>1, ApplyFacts DEF c
  <2>6. ASSUME monitor, NEW p \in Pair, NEW i \in 1..(k + 1), LastOf(k + 1, p, i)
        PROVE  p \in r.out <=> pending[i].connect
    <3>1. CASE i = k + 1
      BY <2>5, <2>6, <3>1
    <3>2. CASE i # k + 1
      <4>1. i \in 1..k /\ ~IsOf(k + 1, p)
        BY <2>6, <3>2
      <4>2. LastOf(k, p, i)
        BY <2>6, <4>1
      <4>3. p \in g[k].out <=> pending[i].connect
        BY <2>1, <2>6, <4>1, <4>2
      <4> QED
        BY <2>5, <4>1, <4>3
    <3> QED
      BY <3>1, <3>2
  <2>7. ASSUME monitor, NEW p \in Pair, \A i \in 1..(k + 1) : ~IsOf(i, p)
        PROVE  p \in r.out <=> p \in outs
    <3>1. ~IsOf(k + 1, p) /\ \A i \in 1..k : ~IsOf(i, p)
      BY <2>7
    <3> QED
      BY <2>1, <2>5, <2>7, <3>1
  <2>8. ASSUME NEW p \in outs \ r.out
        PROVE  \E i \in 1..(k + 1) : IsOf(i, p) /\ ~pending[i].connect
    <3>1. p \in Pair
      BY DEF TypesOK
    <3>2. CASE p \in g[k].out
      <4>1. IsOf(k + 1, p) /\ monitor
        BY <2>5, <2>8, <3>1, <3>2
      <4>2. ~c.connect
        BY <2>4, <2>5, <2>8, <3>1, <4>1
      <4> QED
        BY <2>2, <4>1, <4>2
    <3>3. CASE p \notin g[k].out
      <4>1. \E i \in 1..k : IsOf(i, p) /\ ~pending[i].connect
        BY <2>1, <2>8, <3>3
      <4> QED
        BY <4>1
    <3> QED
      BY <3>2, <3>3
  <2> QED
    BY <2>1, <2>5, <2>6, <2>7, <2>8
<1>5. Kept(n)
  <2>1. n \in D
    <3> HIDE DEF D, n
    <3> QED
      BY <1>1, <1>3, <1>4, NatSetInduction
  <2> QED
    BY <1>1, <2>1
<1>6. \A p \in Pair : \A v : Latest(pending, idOf[p[1]], idOf[p[2]], v) =>
         \E i \in 1..n : LastOf(n, p, i) /\ pending[i].connect = v
  BY <1>1 DEF Latest
<1>7. \A p \in Pair : Silent(pending, idOf[p[1]], idOf[p[2]]) => \A i \in 1..n : ~IsOf(i, p)
  BY <1>1 DEF Silent
<1>8. \A i \in 1..n : pending[i] \in ToSet(pending)
  BY <1>1 DEF ToSet
<1> HIDE DEF LastOf, IsOf, n
<1>9. /\ g[n].out \in SUBSET Pair /\ g[n].in = g[n].out
      /\ ~monitor => g[n].out = outs
  BY <1>5
<1>10. ASSUME monitor, NEW p \in Pair
       PROVE  /\ Latest(pending, idOf[p[1]], idOf[p[2]], TRUE) => p \in g[n].out
              /\ Latest(pending, idOf[p[1]], idOf[p[2]], FALSE) => p \notin g[n].out
              /\ Silent(pending, idOf[p[1]], idOf[p[2]]) => (p \in g[n].out <=> p \in outs)
  <2>1. Latest(pending, idOf[p[1]], idOf[p[2]], TRUE) => p \in g[n].out
    BY <1>5, <1>6, <1>10
  <2>2. Latest(pending, idOf[p[1]], idOf[p[2]], FALSE) => p \notin g[n].out
    BY <1>5, <1>6, <1>10
  <2>3. Silent(pending, idOf[p[1]], idOf[p[2]]) => (p \in g[n].out <=> p \in outs)
    BY <1>5, <1>7, <1>10
  <2> QED
    BY <2>1, <2>2, <2>3
<1>11. ASSUME NEW p \in outs \ g[n].out
       PROVE  \E c \in ToSet(pending) : IsChange(c, idOf[p[1]], idOf[p[2]]) /\ ~c.connect
  BY <1>5, <1>8 DEF IsOf
<1>12. ApplyAll([out |-> outs, in |-> ins], pending) = g[n]
  BY <1>2 DEF IsRun
<1> QED
  BY <1>9, <1>10, <1>11, <1>12

(***************************************************************************)
(* Every notification that is not handled yet.                             *)
(***************************************************************************)

\* The notifications not handled yet are a list of notifications.
LEMMA UnhandledFacts ==
  ASSUME TypesOK
  PROVE  /\ batch \o queue \in Seq(Notification)
         /\ pending \in Seq(Notification)
         /\ Unhandled \in Seq(Notification)
<1>1. pending \in Seq(Notification)
  <2>1. PortChange \subseteq Notification
    BY DEF Notification
  <2> QED
    BY <2>1, SeqMonotonic DEF TypesOK
<1> QED
  BY <1>1, ConcatProperties DEF TypesOK, Unhandled

\* JACK queues some more of them.
LEMMA QueueGrows ==
  ASSUME TypesOK, NEW s \in Seq(Notification), queue' = queue \o s, batch' = batch,
         pending' = pending
  PROVE  Unhandled' = Unhandled \o s /\ queue' \in Seq(Notification)
<1>1. /\ queue \in Seq(Notification) /\ batch \in Seq(Notification)
      /\ pending \in Seq(Notification) /\ batch \o queue \in Seq(Notification)
  BY UnhandledFacts DEF TypesOK
<1>a. ASSUME NEW u \in Seq(Notification), NEW v \in Seq(Notification), NEW w \in Seq(Notification)
      PROVE  (u \o v) \o w = u \o (v \o w)
  BY ONLY ConcatAssociative
<1>2. batch \o (queue \o s) = (batch \o queue) \o s
  BY <1>1, <1>a
<1>3. pending \o ((batch \o queue) \o s) = (pending \o (batch \o queue)) \o s
  BY <1>1, <1>a
<1>4. queue \o s \in Seq(Notification)
  BY <1>1, ConcatProperties
<1> QED
  BY <1>2, <1>3, <1>4 DEF Unhandled

\* What is known of a type of notification.
LEMMA NotificationFacts ==
  /\ \A c \in PortChange : c.type = "connect" /\ c.a \in Id /\ c.b \in Id /\ c.connect \in BOOLEAN
  /\ \A n \in Notification : n.type = "connect" => n \in PortChange
  /\ \A id : Registration(id).type = "registration" /\ Registration(id).id = id
  /\ Reorder \in Notification /\ Reorder.type = "reorder"
  /\ \A id \in Id : Registration(id) \in Notification
  /\ \A n, a, b : IsChange(n, a, b) => n.type = "connect"
<1>1. \A c \in PortChange : c.type = "connect" /\ c.a \in Id /\ c.b \in Id /\ c.connect \in BOOLEAN
  BY DEF PortChange, Change
<1>2. \A id : Registration(id).type = "registration" /\ Registration(id).id = id
  BY DEF Registration
<1>3. Reorder \in Notification /\ Reorder.type = "reorder"
  BY DEF Notification, Reorder
<1>4. \A id \in Id : Registration(id) \in Notification
  BY DEF Notification
<1>5. \A n \in Notification : n.type = "connect" => n \in PortChange
  BY <1>2, <1>3 DEF Notification
<1>6. \A n, a, b : IsChange(n, a, b) => n.type = "connect"
  BY DEF IsChange
<1> QED
  BY <1>1, <1>2, <1>3, <1>4, <1>5, <1>6

\* The last change, if there is one, is a connection or a disconnection.
LEMMA LatestValue ==
  ASSUME NEW s \in Seq(Notification), NEW a, NEW b
  PROVE  \/ Silent(s, a, b)
         \/ Latest(s, a, b, TRUE)
         \/ Latest(s, a, b, FALSE)
<1> SUFFICES ASSUME ~Silent(s, a, b)
             PROVE  Latest(s, a, b, TRUE) \/ Latest(s, a, b, FALSE)
  OBVIOUS
<1>1. PICK v : Latest(s, a, b, v)
  BY LatestFacts
<1>2. PICK i \in DOMAIN s : IsChange(s[i], a, b) /\ s[i].connect = v
  BY <1>1 DEF Latest
<1>3. s[i] \in PortChange
  BY <1>2, NotificationFacts
<1>4. v \in BOOLEAN
  BY <1>2, <1>3, NotificationFacts
<1> QED
  BY <1>1, <1>4

\* The last change, when some connections are reported after other notifications.
LEMMA ReportLatest ==
  ASSUME TypesOK, IdsInv, NEW pairs \in SUBSET PresentPairs, NEW connect \in BOOLEAN,
         NEW s \in Seq(Notification), NEW a, NEW b
  PROVE  LET among == \E p \in pairs : idOf[p[1]] = a /\ idOf[p[2]] = b
         IN  /\ Silent(s \o Changes(pairs, connect), a, b) <=> Silent(s, a, b) /\ ~among
             /\ \A v : Latest(s \o Changes(pairs, connect), a, b, v) =>
                   IF among THEN v = connect ELSE Latest(s, a, b, v)
<1>1. /\ pairs \in SUBSET Pair /\ IsFiniteSet(pairs)
      /\ \A p \in pairs : idOf[p[1]] \in Id /\ idOf[p[2]] \in Id
  BY PairFacts DEF PresentPairs
<1> QED
  BY <1>1, ChangesLatest

\* JACK reports some connections made or undone.
LEMMA ReportFacts ==
  ASSUME TypesOK, IdsInv, NEW pairs \in SUBSET PresentPairs, NEW connect \in BOOLEAN,
         queue' = queue \o Changes(pairs, connect), batch' = batch, pending' = pending
  PROVE  /\ queue' \in Seq(Notification)
         /\ \A a, b : LET among == \E p \in pairs : idOf[p[1]] = a /\ idOf[p[2]] = b
                      IN  /\ Silent(Unhandled', a, b) <=> Silent(Unhandled, a, b) /\ ~among
                          /\ \A v : Latest(Unhandled', a, b, v) =>
                                IF among THEN v = connect ELSE Latest(Unhandled, a, b, v)
         /\ ToSet(Unhandled) \subseteq ToSet(Unhandled')
         /\ \A c \in ToSet(Unhandled') : c \notin ToSet(Unhandled) =>
               \E p \in pairs : c = Change(idOf[p[1]], idOf[p[2]], connect)
<1> DEFINE s == Changes(pairs, connect)
<1>1. /\ pairs \in SUBSET Pair /\ IsFiniteSet(pairs)
      /\ \A p \in pairs : idOf[p[1]] \in Id /\ idOf[p[2]] \in Id
  BY PairFacts DEF PresentPairs
<1>2. /\ s \in Seq(PortChange)
      /\ \A i \in DOMAIN s : \E p \in pairs : s[i] = Change(idOf[p[1]], idOf[p[2]], connect)
  BY <1>1, ChangesFacts
<1>3. s \in Seq(Notification)
  <2>1. PortChange \subseteq Notification
    BY DEF Notification
  <2> HIDE DEF s
  <2> QED
    BY <1>2, <2>1, SeqMonotonic
<1>4. Unhandled \in Seq(Notification)
  BY UnhandledFacts
<1>5. Unhandled' = Unhandled \o s /\ queue' \in Seq(Notification)
  <2>1. queue' = queue \o s
    OBVIOUS
  <2> HIDE DEF s
  <2> QED
    BY <1>3, <2>1, QueueGrows
<1>6. ASSUME NEW a, NEW b
      PROVE  LET among == \E p \in pairs : idOf[p[1]] = a /\ idOf[p[2]] = b
             IN  /\ Silent(Unhandled \o s, a, b) <=> Silent(Unhandled, a, b) /\ ~among
                 /\ \A v : Latest(Unhandled \o s, a, b, v) =>
                       IF among THEN v = connect ELSE Latest(Unhandled, a, b, v)
  BY <1>1, <1>4, ChangesLatest
<1>7. ToSet(Unhandled \o s) = ToSet(Unhandled) \cup ToSet(s)
  <2> HIDE DEF s
  <2> QED
    BY <1>3, <1>4, MemberFacts
<1>8. \A c \in ToSet(s) : \E p \in pairs : c = Change(idOf[p[1]], idOf[p[2]], connect)
  BY <1>2 DEF ToSet
<1> HIDE DEF s
<1> QED
  BY <1>5, <1>6, <1>7, <1>8

\* JACK reports something else.
LEMMA OtherFacts ==
  ASSUME TypesOK, NEW n \in Notification, n.type # "connect",
         queue' = Append(queue, n), batch' = batch, pending' = pending
  PROVE  /\ queue' \in Seq(Notification)
         /\ \A a, b : /\ Silent(Unhandled', a, b) <=> Silent(Unhandled, a, b)
                      /\ \A v : Latest(Unhandled', a, b, v) => Latest(Unhandled, a, b, v)
         /\ ToSet(Unhandled') = ToSet(Unhandled) \cup {n}
<1>1. <<n>> \in Seq(Notification) /\ queue' = queue \o <<n>>
  BY AppendIsConcat DEF TypesOK
<1>2. Unhandled' = Unhandled \o <<n>> /\ queue' \in Seq(Notification)
  BY <1>1, QueueGrows
<1>3. Unhandled \in Seq(Notification)
  BY UnhandledFacts
<1>4. Unhandled' = Append(Unhandled, n)
  BY <1>2, <1>3, AppendIsConcat
<1>5. \A a, b : ~IsChange(n, a, b)
  BY DEF IsChange
<1>6. \A a, b : /\ Silent(Append(Unhandled, n), a, b) <=> Silent(Unhandled, a, b)
                /\ \A v : Latest(Append(Unhandled, n), a, b, v) => Latest(Unhandled, a, b, v)
  BY <1>3, <1>5, AppendLatest
<1>7. ToSet(Append(Unhandled, n)) = ToSet(Unhandled) \cup {n}
  BY <1>3, MemberFacts
<1> QED
  BY <1>2, <1>4, <1>6, <1>7

(***************************************************************************)
(* The steps.  Each of the first two lemmas is one part of the invariant   *)
(* for several of them.                                                    *)
(***************************************************************************)

\* Connections are made or undone and reported, or nothing is.
LEMMA LatestStep ==
  ASSUME TypesOK, IdsInv, LatestInv,
         NEW pairs \in SUBSET PresentPairs, NEW connect \in BOOLEAN,
         links' = IF connect THEN links \cup pairs ELSE links \ pairs,
         \A p \in links' : idOf'[p[1]] = idOf[p[1]] /\ idOf'[p[2]] = idOf[p[2]],
         \A a, b : LET among == \E p \in pairs : idOf[p[1]] = a /\ idOf[p[2]] = b
                   IN  \A v : Latest(Unhandled', a, b, v) =>
                          IF among THEN v = connect ELSE Latest(Unhandled, a, b, v)
  PROVE  LatestInv'
<1> SUFFICES ASSUME NEW a \in Id, NEW b \in Id
             PROVE  /\ Latest(Unhandled', a, b, TRUE) => Linked(a, b)'
                    /\ Latest(Unhandled', a, b, FALSE) => ~Linked(a, b)'
  BY DEF LatestInv
<1>1. Linked(a, b)' <=> \E p \in links' : idOf[p[1]] = a /\ idOf[p[2]] = b
  BY DEF Linked
<1>2. links \subseteq PresentPairs
  BY DEF TypesOK
<1>3. CASE \E p \in pairs : idOf[p[1]] = a /\ idOf[p[2]] = b
  <2>1. PICK p \in pairs : idOf[p[1]] = a /\ idOf[p[2]] = b
    BY <1>3
  <2>2. \A q \in PresentPairs : idOf[q[1]] = a /\ idOf[q[2]] = b => q = p
    BY <2>1, PairFacts DEF PresentPairs
  <2>3. Linked(a, b)' <=> connect
    BY <1>1, <1>2, <2>1, <2>2
  <2>4. \A v : Latest(Unhandled', a, b, v) => v = connect
    BY <1>3
  <2> QED
    BY <2>3, <2>4
<1>4. CASE ~\E p \in pairs : idOf[p[1]] = a /\ idOf[p[2]] = b
  <2>1. Linked(a, b)' <=> Linked(a, b)
    BY <1>1, <1>4 DEF Linked
  <2> QED
    BY <1>4, <2>1 DEF LatestInv
<1> QED
  BY <1>3, <1>4

\* What was saved stays so.
LEMMA SavedStep ==
  ASSUME SavedInv, monitor' = monitor, outs' = outs,
         \A p \in links' : Silent(Unhandled', idOf'[p[1]], idOf'[p[2]]) =>
            p \in links /\ Silent(Unhandled, idOf[p[1]], idOf[p[2]])
  PROVE  SavedInv'
BY DEF SavedInv

\* Register keeps the invariant.
LEMMA RegisterStep ==
  ASSUME IInv, NEW p \in Port, Register(p)
  PROVE  IInv'
<1>0. TypesOK /\ FlagsOK /\ IdsInv /\ LatestInv /\ SavedInv /\ LinkedInv /\ CutInv
  BY TypeParts DEF IInv
<1>1. PICK id \in Id \ {idOf[q] : q \in Port} :
         /\ idOf' = [idOf EXCEPT ![p] = id]
         /\ usedIds' = usedIds \cup {id}
         /\ reused' = (reused \/ id \in usedIds)
         /\ queue' = Append(queue, Registration(id))
  BY DEF Register
<1>2. /\ ~Present(p) /\ dirty' = TRUE
      /\ UNCHANGED <<links, prevCount, batch, pending, outs, ins, auto, monitor, cut, blind>>
  BY DEF Register
<1>3. id \in Id /\ id # NoId /\ \A q \in Port : idOf[q] # id
  BY <1>1, JackAssumption
<1>4. /\ \A q \in Port : idOf'[q] = IF q = p THEN id ELSE idOf[q]
      /\ \A q \in Pair : q[1] \in Port /\ q[2] \in Port
  BY <1>0, <1>1, PairFacts DEF TypesOK
<1>5. /\ queue' \in Seq(Notification)
      /\ \A a, b : /\ Silent(Unhandled', a, b) <=> Silent(Unhandled, a, b)
                   /\ \A v : Latest(Unhandled', a, b, v) => Latest(Unhandled, a, b, v)
      /\ ToSet(Unhandled') = ToSet(Unhandled) \cup {Registration(id)}
  BY <1>0, <1>1, <1>2, <1>3, NotificationFacts, OtherFacts
<1>6. \A q \in PresentPairs : /\ q \in Pair /\ q[1] # p /\ q[2] # p
                              /\ idOf'[q[1]] = idOf[q[1]] /\ idOf'[q[2]] = idOf[q[2]]
  BY <1>2, <1>4 DEF PresentPairs
<1>7. PresentPairs \subseteq PresentPairs'
  BY <1>6 DEF PresentPairs, Present
<1>8. TypesOK'
  <2>1. events' \in 0..MaxEvents
    BY <1>0, JackAssumption DEF Register, Event, TypesOK
  <2>2. idOf' \in [Port -> Id \cup {NoId}] /\ usedIds' \subseteq Id
    BY <1>0, <1>1, <1>3 DEF TypesOK
  <2> QED
    BY <1>0, <1>2, <1>5, <1>7, <2>1, <2>2 DEF TypesOK
<1>9. FlagsOK'
  BY <1>0, <1>1, <1>2, Zenon DEF FlagsOK
<1>10. IdsInv'
  BY <1>0, <1>1, <1>3, <1>4 DEF IdsInv, Present
<1>11. LatestInv'
  <2>1. links' = links \cup {} /\ links \subseteq PresentPairs
    BY <1>0, <1>2 DEF TypesOK
  <2> QED
    BY <1>0, <1>5, <1>6, <2>1, LatestStep
<1>12. SavedInv'
  <2>1. links \subseteq PresentPairs
    BY <1>0 DEF TypesOK
  <2> QED
    BY <1>0, <1>2, <1>5, <1>6, <2>1, SavedStep
<1>13. LinkedInv'
  <2> SUFFICES ASSUME auto, ~blind, NEW q \in outs, q \in PresentPairs', q \notin links,
                      Silent(Unhandled', idOf'[q[1]], idOf'[q[2]])
               PROVE  \E i \in {1, 2} : Registration(idOf'[q[i]]) \in ToSet(Unhandled')
    BY <1>2 DEF LinkedInv
  <2>1. CASE q \in PresentPairs
    BY <1>0, <1>5, <1>6, <2>1 DEF LinkedInv
  <2>2. CASE q \notin PresentPairs
    <3>1. q[1] = p \/ q[2] = p
      BY <1>4, <2>2 DEF PresentPairs, Present
    <3>2. q \in Pair
      BY <1>0 DEF TypesOK
    <3> QED
      BY <1>4, <1>5, <3>1, <3>2
  <2> QED
    BY <2>1, <2>2
<1>14. CutInv'
  <2> SUFFICES ASSUME NEW c \in ToSet(Unhandled'), c.type = "connect"
               PROVE  /\ c.a \in usedIds' /\ c.b \in usedIds'
                      /\ ~reused' /\ ~c.connect =>
                            \A q \in Pair : idOf'[q[1]] = c.a /\ idOf'[q[2]] = c.b => q \in cut
    BY <1>2 DEF CutInv
  <2>1. c \in ToSet(Unhandled)
    BY <1>5, NotificationFacts
  <2>2. c.a \in usedIds /\ c.b \in usedIds
    BY <1>0, <2>1 DEF CutInv
  <2>3. ASSUME ~reused', ~c.connect, NEW q \in Pair, idOf'[q[1]] = c.a, idOf'[q[2]] = c.b
        PROVE  q \in cut
    <3>1. id \notin usedIds /\ ~reused
      BY <1>1, <2>3
    <3>2. idOf[q[1]] = c.a /\ idOf[q[2]] = c.b
      BY <1>4, <2>2, <2>3, <3>1
    <3> QED
      BY <1>0, <2>1, <2>3, <3>1, <3>2 DEF CutInv
  <2> QED
    BY <1>1, <2>2, <2>3
<1> QED
  BY <1>2, <1>8, <1>9, <1>10, <1>11, <1>12, <1>13, <1>14, TypeParts DEF IInv, SameMaps

\* JACK reports the connections that end with a client, or that a user undoes.
LEMMA UnregisterStep ==
  ASSUME IInv, NEW p \in Port, Unregister(p)
  PROVE  IInv'
<1>0. TypesOK /\ FlagsOK /\ IdsInv /\ LatestInv /\ SavedInv /\ LinkedInv /\ CutInv
  BY TypeParts DEF IInv
<1> DEFINE gone == {l \in links : p \in {l[1], l[2]}}
<1>1. /\ links' = links \ gone
      /\ queue' = queue \o Changes(gone, FALSE)
      /\ idOf' = [idOf EXCEPT ![p] = NoId]
      /\ dirty' = TRUE
      /\ UNCHANGED <<usedIds, reused, prevCount, batch, pending, outs, ins, auto, monitor, cut,
                     blind>>
  BY DEF Unregister
<1>2. /\ \A q \in Port : idOf'[q] = IF q = p THEN NoId ELSE idOf[q]
      /\ \A q \in Pair : q[1] \in Port /\ q[2] \in Port
  BY <1>0, <1>1, PairFacts DEF TypesOK
<1>3. \A l \in links : l \in PresentPairs /\ l \in Pair
  BY <1>0 DEF TypesOK, PresentPairs
<1>4. gone \in SUBSET PresentPairs /\ gone \in SUBSET links
  BY <1>3
<1>5. /\ queue' \in Seq(Notification)
      /\ \A a, b : LET among == \E l \in gone : idOf[l[1]] = a /\ idOf[l[2]] = b
                   IN  /\ Silent(Unhandled', a, b) <=> Silent(Unhandled, a, b) /\ ~among
                       /\ \A v : Latest(Unhandled', a, b, v) =>
                             IF among THEN v = FALSE ELSE Latest(Unhandled, a, b, v)
      /\ ToSet(Unhandled) \subseteq ToSet(Unhandled')
      /\ \A c \in ToSet(Unhandled') : c \notin ToSet(Unhandled) =>
            \E l \in gone : c = Change(idOf[l[1]], idOf[l[2]], FALSE)
  <2>1. queue' = queue \o Changes(gone, FALSE) /\ batch' = batch /\ pending' = pending
    BY <1>1
  <2> HIDE DEF gone
  <2> QED
    BY <1>0, <1>4, <2>1, ReportFacts
<1>6. \A q \in Pair : q \in PresentPairs' =>
         /\ q \in PresentPairs /\ q[1] # p /\ q[2] # p
         /\ idOf'[q[1]] = idOf[q[1]] /\ idOf'[q[2]] = idOf[q[2]]
  BY <1>2 DEF PresentPairs, Present
<1>7. \A l \in links' : l \in PresentPairs'
  BY <1>1, <1>2, <1>3 DEF PresentPairs, Present
<1>8. \A l \in links' : /\ l \in links /\ l \in Pair
                        /\ idOf'[l[1]] = idOf[l[1]] /\ idOf'[l[2]] = idOf[l[2]]
  BY <1>1, <1>3, <1>6, <1>7
<1> HIDE DEF gone
<1>9. TypesOK'
  <2>1. events' \in 0..MaxEvents
    BY <1>0, JackAssumption DEF Unregister, Event, TypesOK
  <2>2. idOf' \in [Port -> Id \cup {NoId}]
    BY <1>0, <1>1 DEF TypesOK
  <2> QED
    BY <1>0, <1>1, <1>5, <1>7, <2>1, <2>2 DEF TypesOK
<1>10. FlagsOK'
  BY <1>0, <1>1, Zenon DEF FlagsOK
<1>11. IdsInv'
  BY <1>0, <1>1, <1>2 DEF IdsInv, Present
<1>12. LatestInv'
  <2>1. links' = IF FALSE THEN links \cup gone ELSE links \ gone
    BY <1>1
  <2> QED
    BY <1>0, <1>4, <1>5, <1>8, <2>1, LatestStep
<1>13. SavedInv'
  BY <1>0, <1>1, <1>5, <1>8, SavedStep
<1>14. LinkedInv'
  <2> SUFFICES ASSUME auto, ~blind, NEW q \in outs, q \in PresentPairs', q \notin links',
                      Silent(Unhandled', idOf'[q[1]], idOf'[q[2]])
               PROVE  \E i \in {1, 2} : Registration(idOf'[q[i]]) \in ToSet(Unhandled')
    BY <1>1 DEF LinkedInv
  <2>1. q \in Pair
    BY <1>0 DEF TypesOK
  <2>2. /\ q \in PresentPairs /\ q[1] # p /\ q[2] # p
        /\ idOf'[q[1]] = idOf[q[1]] /\ idOf'[q[2]] = idOf[q[2]]
    BY <1>6, <2>1
  <2>3. q \notin links
    BY <1>1, <2>2 DEF gone
  <2> QED
    BY <1>0, <1>5, <2>2, <2>3 DEF LinkedInv
<1>15. CutInv'
  <2> SUFFICES ASSUME NEW c \in ToSet(Unhandled'), c.type = "connect"
               PROVE  /\ c.a \in usedIds /\ c.b \in usedIds
                      /\ ~reused /\ ~c.connect =>
                            \A q \in Pair : idOf'[q[1]] = c.a /\ idOf'[q[2]] = c.b => q \in cut
    BY <1>1 DEF CutInv
  <2>1. CASE c \in ToSet(Unhandled)
    <3>1. c.a \in usedIds /\ c.b \in usedIds
      BY <1>0, <2>1 DEF CutInv
    <3>2. c.a # NoId /\ c.b # NoId
      BY <1>0, <3>1, JackAssumption DEF TypesOK
    <3>3. \A q \in Pair : idOf'[q[1]] = c.a /\ idOf'[q[2]] = c.b =>
             idOf[q[1]] = c.a /\ idOf[q[2]] = c.b
      BY <1>2, <3>2
    <3> QED
      BY <1>0, <2>1, <3>1, <3>3 DEF CutInv
  <2>2. CASE c \notin ToSet(Unhandled)
    <3>1. PICK l \in gone : c = Change(idOf[l[1]], idOf[l[2]], FALSE)
      BY <1>5, <2>2
    <3>2. l \in PresentPairs /\ l \in Pair /\ p \in {l[1], l[2]}
      BY <1>3, <1>4 DEF gone
    <3>3. c.a = idOf[l[1]] /\ c.b = idOf[l[2]]
      BY <3>1 DEF Change
    <3>4. c.a \in usedIds /\ c.b \in usedIds
      BY <1>0, <1>2, <3>2, <3>3 DEF IdsInv, PresentPairs
    <3>5. ASSUME NEW q \in Pair, idOf'[q[1]] = c.a, idOf'[q[2]] = c.b
          PROVE  FALSE
      <4>1. c.a # NoId /\ c.b # NoId
        BY <1>0, <3>4, JackAssumption DEF TypesOK
      <4>2. q[1] # p /\ q[2] # p /\ idOf[q[1]] = c.a /\ idOf[q[2]] = c.b
        BY <1>2, <3>5, <4>1
      <4>3. l = q
        BY <1>0, <3>2, <3>3, <4>2, PairFacts
      <4> QED
        BY <3>2, <4>2, <4>3
    <3> QED
      BY <3>4, <3>5
  <2> QED
    BY <2>1, <2>2
<1> QED
  BY <1>0, <1>1, <1>9, <1>10, <1>11, <1>12, <1>13, <1>14, <1>15, TypeParts DEF IInv, SameMaps

\* The connections that are to be made are reported, and nothing that was reported
\* or saved changes.
LEMMA ConnectAllStep ==
  ASSUME TypesOK, IdsInv, LatestInv, SavedInv, CutInv,
         NEW pairs \in SUBSET PresentPairs, ConnectAll(pairs),
         UNCHANGED <<idOf, usedIds, reused, batch, pending, outs, monitor, cut>>
  PROVE  /\ queue' \in Seq(Notification)
         /\ links' \subseteq PresentPairs'
         /\ ToSet(Unhandled) \subseteq ToSet(Unhandled')
         /\ \A p \in PresentPairs : Silent(Unhandled', idOf[p[1]], idOf[p[2]]) =>
               p \notin pairs /\ Silent(Unhandled, idOf[p[1]], idOf[p[2]])
         /\ LatestInv' /\ SavedInv' /\ CutInv'
<1>1. links' = links \cup pairs /\ queue' = queue \o Changes(pairs, TRUE)
  BY DEF ConnectAll
<1>2. /\ queue' \in Seq(Notification)
      /\ \A a, b : LET among == \E l \in pairs : idOf[l[1]] = a /\ idOf[l[2]] = b
                   IN  /\ Silent(Unhandled', a, b) <=> Silent(Unhandled, a, b) /\ ~among
                       /\ \A v : Latest(Unhandled', a, b, v) =>
                             IF among THEN v = TRUE ELSE Latest(Unhandled, a, b, v)
      /\ ToSet(Unhandled) \subseteq ToSet(Unhandled')
      /\ \A c \in ToSet(Unhandled') : c \notin ToSet(Unhandled) =>
            \E l \in pairs : c = Change(idOf[l[1]], idOf[l[2]], TRUE)
  BY <1>1, ReportFacts
<1>3. links' \subseteq PresentPairs' /\ links' \subseteq PresentPairs
  BY <1>1 DEF TypesOK, PresentPairs, Present
<1>4. \A p \in PresentPairs : Silent(Unhandled', idOf[p[1]], idOf[p[2]]) =>
         p \notin pairs /\ Silent(Unhandled, idOf[p[1]], idOf[p[2]])
  BY <1>2
<1>5. LatestInv'
  <2>1. links' = IF TRUE THEN links \cup pairs ELSE links \ pairs
    BY <1>1
  <2> QED
    BY <1>2, <2>1, LatestStep
<1>6. SavedInv'
  BY <1>1, <1>3, <1>4, SavedStep
<1>7. CutInv'
  <2> SUFFICES ASSUME NEW c \in ToSet(Unhandled'), c.type = "connect"
               PROVE  /\ c.a \in usedIds /\ c.b \in usedIds
                      /\ ~reused /\ ~c.connect =>
                            \A q \in Pair : idOf[q[1]] = c.a /\ idOf[q[2]] = c.b => q \in cut
    BY DEF CutInv
  <2>1. CASE c \in ToSet(Unhandled)
    BY <2>1 DEF CutInv
  <2>2. CASE c \notin ToSet(Unhandled)
    <3>1. PICK l \in pairs : c = Change(idOf[l[1]], idOf[l[2]], TRUE)
      BY <1>2, <2>2
    <3>2. c.a = idOf[l[1]] /\ c.b = idOf[l[2]] /\ c.connect = TRUE
      BY <3>1 DEF Change
    <3>3. l[1] \in Port /\ l[2] \in Port /\ Present(l[1]) /\ Present(l[2])
      BY PairFacts DEF PresentPairs
    <3> QED
      BY <3>2, <3>3 DEF IdsInv
  <2> QED
    BY <2>1, <2>2
<1> QED
  BY <1>2, <1>3, <1>4, <1>5, <1>6, <1>7

\* UserConnect keeps the invariant.
LEMMA UserConnectStep ==
  ASSUME IInv, NEW p \in Pair, UserConnect(p)
  PROVE  IInv'
<1>0. TypesOK /\ FlagsOK /\ IdsInv /\ LatestInv /\ SavedInv /\ LinkedInv /\ CutInv
  BY TypeParts DEF IInv
<1>1. /\ {p} \in SUBSET PresentPairs /\ ConnectAll({p})
      /\ UNCHANGED <<idOf, usedIds, reused, prevCount, batch, pending, outs, ins, auto, monitor,
                     cut, blind>>
  BY DEF UserConnect
<1>2. /\ queue' \in Seq(Notification)
      /\ links' \subseteq PresentPairs'
      /\ ToSet(Unhandled) \subseteq ToSet(Unhandled')
      /\ \A q \in PresentPairs : Silent(Unhandled', idOf[q[1]], idOf[q[2]]) =>
            q \notin {p} /\ Silent(Unhandled, idOf[q[1]], idOf[q[2]])
      /\ LatestInv' /\ SavedInv' /\ CutInv'
  BY <1>0, <1>1, ConnectAllStep
<1>3. TypesOK'
  <2>1. events' \in 0..MaxEvents
    BY <1>0, JackAssumption DEF UserConnect, Event, TypesOK
  <2> QED
    BY <1>0, <1>1, <1>2, <2>1 DEF TypesOK
<1>4. FlagsOK'
  BY <1>0, <1>1, Zenon DEF FlagsOK, ConnectAll
<1>5. IdsInv'
  BY <1>0, <1>1 DEF IdsInv, Present
<1>6. LinkedInv'
  BY <1>0, <1>1, <1>2 DEF LinkedInv, ConnectAll, PresentPairs, Present
<1> QED
  BY <1>1, <1>2, <1>3, <1>4, <1>5, <1>6, TypeParts DEF IInv, SameMaps

\* UserDisconnect keeps the invariant.
LEMMA UserDisconnectStep ==
  ASSUME IInv, NEW p \in Pair, UserDisconnect(p)
  PROVE  IInv'
<1>0. TypesOK /\ FlagsOK /\ IdsInv /\ LatestInv /\ SavedInv /\ LinkedInv /\ CutInv
  BY TypeParts DEF IInv
<1>1. /\ p \in links /\ links' = links \ {p} /\ queue' = queue \o Changes({p}, FALSE)
      /\ dirty' = TRUE /\ cut' = cut \cup {p}
      /\ UNCHANGED <<idOf, usedIds, reused, prevCount, batch, pending, outs, ins, auto, monitor,
                     blind>>
  BY DEF UserDisconnect
<1>2. p \in PresentPairs /\ {p} \in SUBSET PresentPairs
  BY <1>0, <1>1 DEF TypesOK
<1>3. /\ queue' \in Seq(Notification)
      /\ \A a, b : LET among == \E l \in {p} : idOf[l[1]] = a /\ idOf[l[2]] = b
                   IN  /\ Silent(Unhandled', a, b) <=> Silent(Unhandled, a, b) /\ ~among
                       /\ \A v : Latest(Unhandled', a, b, v) =>
                             IF among THEN v = FALSE ELSE Latest(Unhandled, a, b, v)
      /\ ToSet(Unhandled) \subseteq ToSet(Unhandled')
      /\ \A c \in ToSet(Unhandled') : c \notin ToSet(Unhandled) =>
            \E l \in {p} : c = Change(idOf[l[1]], idOf[l[2]], FALSE)
  BY <1>0, <1>1, <1>2, ReportFacts
<1>4. TypesOK'
  <2>1. events' \in 0..MaxEvents
    BY <1>0, JackAssumption DEF UserDisconnect, Event, TypesOK
  <2>2. links' \subseteq PresentPairs'
    BY <1>0, <1>1 DEF TypesOK, PresentPairs, Present
  <2> QED
    BY <1>0, <1>1, <1>3, <2>1, <2>2 DEF TypesOK
<1>5. FlagsOK'
  BY <1>0, <1>1, Zenon DEF FlagsOK
<1>6. IdsInv'
  BY <1>0, <1>1 DEF IdsInv, Present
<1>7. LatestInv'
  <2>1. links' = IF FALSE THEN links \cup {p} ELSE links \ {p}
    BY <1>1
  <2> QED
    BY <1>0, <1>1, <1>2, <1>3, <2>1, LatestStep
<1>8. SavedInv'
  BY <1>0, <1>1, <1>3, SavedStep
<1>9. LinkedInv'
  BY <1>0, <1>1, <1>3 DEF LinkedInv, PresentPairs, Present
<1>10. CutInv'
  <2> SUFFICES ASSUME NEW c \in ToSet(Unhandled'), c.type = "connect"
               PROVE  /\ c.a \in usedIds /\ c.b \in usedIds
                      /\ ~reused /\ ~c.connect =>
                            \A q \in Pair : idOf[q[1]] = c.a /\ idOf[q[2]] = c.b => q \in cut'
    BY <1>1 DEF CutInv
  <2>1. CASE c \in ToSet(Unhandled)
    BY <1>0, <1>1, <2>1 DEF CutInv
  <2>2. CASE c \notin ToSet(Unhandled)
    <3>1. c = Change(idOf[p[1]], idOf[p[2]], FALSE)
      BY <1>3, <2>2
    <3>2. c.a = idOf[p[1]] /\ c.b = idOf[p[2]]
      BY <3>1 DEF Change
    <3>3. p[1] \in Port /\ p[2] \in Port /\ Present(p[1]) /\ Present(p[2])
      BY <1>0, <1>2, PairFacts DEF PresentPairs
    <3>4. \A q \in Pair : idOf[q[1]] = c.a /\ idOf[q[2]] = c.b => q = p
      BY <1>0, <1>2, <3>2, PairFacts
    <3> QED
      BY <1>0, <1>1, <3>2, <3>3, <3>4 DEF IdsInv
  <2> QED
    BY <2>1, <2>2
<1> QED
  BY <1>1, <1>4, <1>5, <1>6, <1>7, <1>8, <1>9, <1>10, <1>0, TypeParts DEF IInv, SameMaps

\* A notification moves on, or one that is no change is added.
LEMMA QuietStep ==
  ASSUME IInv,
         UNCHANGED <<idOf, usedIds, reused, links, outs, ins, auto, monitor, cut, blind>>,
         \A a, b : /\ Silent(Unhandled', a, b) <=> Silent(Unhandled, a, b)
                   /\ \A v : Latest(Unhandled', a, b, v) => Latest(Unhandled, a, b, v),
         ToSet(Unhandled) \subseteq ToSet(Unhandled'),
         \A c \in ToSet(Unhandled') : c.type = "connect" => c \in ToSet(Unhandled)
  PROVE  /\ PresentPairs' = PresentPairs
         /\ IdsInv' /\ LatestInv' /\ SavedInv' /\ LinkedInv' /\ CutInv' /\ SameMaps'
         /\ ~blind' => monitor'
<1>0. TypesOK /\ FlagsOK /\ IdsInv /\ LatestInv /\ SavedInv /\ LinkedInv /\ CutInv
  BY TypeParts DEF IInv
<1>1. PresentPairs' = PresentPairs
  BY DEF PresentPairs, Present
<1>2. IdsInv'
  BY <1>0 DEF IdsInv, Present
<1>3. LatestInv'
  <2>1. links' = links \cup {} /\ links \subseteq PresentPairs
    BY <1>0 DEF TypesOK
  <2> QED
    BY <1>0, <2>1, LatestStep
<1>4. SavedInv'
  BY <1>0, SavedStep
<1>5. LinkedInv'
  BY <1>0, <1>1 DEF LinkedInv
<1>6. CutInv'
  BY <1>0 DEF CutInv
<1> QED
  BY <1>1, <1>2, <1>3, <1>4, <1>5, <1>6 DEF IInv, SameMaps

\* GraphReordered keeps the invariant.
LEMMA GraphReorderedStep ==
  ASSUME IInv, GraphReordered
  PROVE  IInv'
<1>0. TypesOK /\ FlagsOK
  BY TypeParts DEF IInv
<1>1. /\ dirty' = FALSE /\ queue' = Append(queue, Reorder)
      /\ UNCHANGED <<idOf, usedIds, reused, links, prevCount, batch, pending, outs, ins, auto,
                     monitor, events, cut, blind>>
  BY DEF GraphReordered
<1>2. /\ queue' \in Seq(Notification)
      /\ \A a, b : /\ Silent(Unhandled', a, b) <=> Silent(Unhandled, a, b)
                   /\ \A v : Latest(Unhandled', a, b, v) => Latest(Unhandled, a, b, v)
      /\ ToSet(Unhandled') = ToSet(Unhandled) \cup {Reorder}
  BY <1>0, <1>1, NotificationFacts, OtherFacts
<1>3. /\ PresentPairs' = PresentPairs
      /\ IdsInv' /\ LatestInv' /\ SavedInv' /\ LinkedInv' /\ CutInv' /\ SameMaps'
      /\ ~blind' => monitor'
  BY <1>1, <1>2, NotificationFacts, QuietStep
<1>4. TypesOK'
  BY <1>0, <1>1, <1>2, <1>3 DEF TypesOK
<1>5. FlagsOK'
  BY <1>0, <1>1, Zenon DEF FlagsOK
<1> QED
  BY <1>3, <1>4, <1>5, TypeParts DEF IInv

\* SlowTimer keeps the invariant.
LEMMA SlowTimerStep ==
  ASSUME IInv, SlowTimer
  PROVE  IInv'
<1>0. TypesOK /\ FlagsOK
  BY TypeParts DEF IInv
<1>1. /\ UNCHANGED <<idOf, usedIds, reused, links, dirty, pending, outs, ins, auto, monitor,
                     events, cut, blind>>
      /\ batch = <<>>
      /\ \/ prevCount' = Len(queue) /\ UNCHANGED <<queue, batch>>
         \/ batch' = queue /\ queue' = <<>> /\ UNCHANGED prevCount
  BY DEF SlowTimer, jack
<1>2. queue \in Seq(Notification)
  BY <1>0 DEF TypesOK
<1>3. batch' \o queue' = batch \o queue
  <2>1. <<>> \o queue = queue /\ queue \o <<>> = queue
    BY <1>2, ConcatEmptySeq
  <2> QED
    BY <1>1, <2>1
<1>4. Unhandled' = Unhandled
  BY <1>1, <1>3 DEF Unhandled
<1>5. /\ PresentPairs' = PresentPairs
      /\ IdsInv' /\ LatestInv' /\ SavedInv' /\ LinkedInv' /\ CutInv' /\ SameMaps'
      /\ ~blind' => monitor'
  BY <1>1, <1>4, QuietStep
<1>6. TypesOK'
  <2>1. Len(queue) \in Nat
    BY <1>2, LenProperties
  <2>2. <<>> \in Seq(Notification)
    OBVIOUS
  <2> QED
    BY <1>0, <1>1, <1>5, <2>1, <2>2 DEF TypesOK
<1>7. FlagsOK'
  BY <1>0, <1>1, Zenon DEF FlagsOK
<1> QED
  BY <1>5, <1>6, <1>7, TypeParts DEF IInv

\* The first notification of the batch.
LEMMA BatchFacts ==
  ASSUME TypesOK, batch # <<>>
  PROVE  /\ Head(batch) \in Notification /\ Tail(batch) \in Seq(Notification)
         /\ Tail(batch) \o queue \in Seq(Notification)
         /\ batch \o queue = <<Head(batch)>> \o (Tail(batch) \o queue)
<1>1. Head(batch) \in Notification /\ Tail(batch) \in Seq(Notification)
  BY HeadTailProperties DEF TypesOK
<1>2. batch = <<Head(batch)>> \o Tail(batch) /\ <<Head(batch)>> \in Seq(Notification)
  BY <1>1 DEF TypesOK
<1>3. \A u, v, w \in Seq(Notification) : (u \o v) \o w = u \o (v \o w)
  BY ConcatAssociative
<1>4. (<<Head(batch)>> \o Tail(batch)) \o queue = <<Head(batch)>> \o (Tail(batch) \o queue)
  BY <1>1, <1>2, <1>3 DEF TypesOK
<1>5. Tail(batch) \o queue \in Seq(Notification)
  BY <1>1, ConcatProperties DEF TypesOK
<1> QED
  BY <1>1, <1>2, <1>4, <1>5

\* HandleChange keeps the invariant.
LEMMA HandleChangeStep ==
  ASSUME IInv, HandleChange
  PROVE  IInv'
<1>0. TypesOK /\ FlagsOK
  BY TypeParts DEF IInv
<1> DEFINE h == Head(batch)
           rest == Tail(batch) \o queue
<1>1. /\ batch # <<>> /\ h.type = "connect"
      /\ batch' = Tail(batch) /\ pending' = Append(pending, h)
      /\ UNCHANGED <<idOf, usedIds, reused, links, dirty, queue, prevCount, outs, ins, auto,
                     monitor, events, cut, blind>>
  BY DEF HandleChange, jack
<1>2. /\ h \in PortChange /\ h \in Notification /\ Tail(batch) \in Seq(Notification)
      /\ rest \in Seq(Notification) /\ batch \o queue = <<h>> \o rest
  BY <1>0, <1>1, BatchFacts, NotificationFacts
<1>3. pending' \in Seq(PortChange)
  BY <1>0, <1>1, <1>2, AppendProperties DEF TypesOK
<1>4. Unhandled' = Unhandled
  <2>1. \A u, v, w \in Seq(Notification) : (u \o v) \o w = u \o (v \o w)
    BY ConcatAssociative
  <2>2. pending \in Seq(Notification) /\ <<h>> \in Seq(Notification)
    BY <1>0, <1>2, UnhandledFacts
  <2>3. Append(pending, h) = pending \o <<h>>
    BY <1>2, <2>2, AppendIsConcat
  <2>4. batch' \o queue' = rest
    BY <1>1
  <2> HIDE DEF h, rest
  <2>5. (pending \o <<h>>) \o rest = pending \o (<<h>> \o rest)
    BY <1>2, <2>1, <2>2
  <2> QED
    BY <1>1, <1>2, <2>3, <2>4, <2>5 DEF Unhandled
<1>5. /\ PresentPairs' = PresentPairs
      /\ IdsInv' /\ LatestInv' /\ SavedInv' /\ LinkedInv' /\ CutInv' /\ SameMaps'
      /\ ~blind' => monitor'
  BY <1>1, <1>4, QuietStep
<1>6. TypesOK'
  BY <1>0, <1>1, <1>2, <1>3, <1>5 DEF TypesOK
<1>7. FlagsOK'
  BY <1>0, <1>1, Zenon DEF FlagsOK
<1> QED
  BY <1>5, <1>6, <1>7, TypeParts DEF IInv

\* The pending changes leave each connection as its last change says, so that the
\* rest of the notifications is all that is to be known of those they name.
LEMMA HandleReorderStep ==
  ASSUME IInv, HandleReorder
  PROVE  IInv' /\ (~reused => outs \ outs' \subseteq cut)
<1>0. /\ TypesOK /\ FlagsOK /\ IdsInv /\ LatestInv /\ SavedInv /\ LinkedInv /\ CutInv
      /\ SameMaps /\ (~blind => monitor)
  BY TypeParts DEF IInv
<1> DEFINE h == Head(batch)
           rest == Tail(batch) \o queue
           r == ApplyAll([out |-> outs, in |-> ins], pending)
<1>1. /\ batch # <<>> /\ h.type = "reorder"
      /\ batch' = Tail(batch) /\ pending' = <<>> /\ outs' = r.out /\ ins' = r.in
      /\ UNCHANGED <<idOf, usedIds, reused, links, dirty, queue, prevCount, auto, monitor,
                     events, cut, blind>>
  BY DEF HandleReorder, jack, SetMaps
<1>2. /\ h \in Notification /\ Tail(batch) \in Seq(Notification)
      /\ rest \in Seq(Notification) /\ batch \o queue = <<h>> \o rest
  BY <1>0, <1>1, BatchFacts
<1>3. /\ outs' \in SUBSET Pair /\ ins' = outs'
      /\ monitor => \A p \in Pair :
            /\ Latest(pending, idOf[p[1]], idOf[p[2]], TRUE) => p \in outs'
            /\ Latest(pending, idOf[p[1]], idOf[p[2]], FALSE) => p \notin outs'
            /\ Silent(pending, idOf[p[1]], idOf[p[2]]) => (p \in outs' <=> p \in outs)
      /\ ~monitor => outs' = outs
      /\ \A p \in outs \ outs' :
            \E c \in ToSet(pending) : IsChange(c, idOf[p[1]], idOf[p[2]]) /\ ~c.connect
  <2> HIDE DEF r
  <2> QED
    BY <1>0, <1>1, ReorderFacts DEF r
<1> HIDE DEF h, rest, r
<1>4. Unhandled' = rest
  <2>1. <<>> \o rest = rest
    BY <1>2, ConcatEmptySeq
  <2> QED
    BY <1>1, <2>1 DEF Unhandled, rest
<1>5. pending \in Seq(Notification) /\ <<h>> \in Seq(Notification)
  BY <1>0, <1>2, UnhandledFacts
<1>6. Unhandled = pending \o (<<h>> \o rest) /\ <<h>> \o rest \in Seq(Notification)
  BY <1>2, <1>5, ConcatProperties DEF Unhandled
<1>7. \A a, b : ~IsChange(h, a, b)
  BY <1>1 DEF IsChange
<1>8. ASSUME NEW a, NEW b
      PROVE  /\ Silent(Unhandled, a, b) <=> Silent(pending, a, b) /\ Silent(rest, a, b)
             /\ \A v : Latest(rest, a, b, v) => Latest(Unhandled, a, b, v)
             /\ \A v : Silent(rest, a, b) /\ Latest(pending, a, b, v) => Latest(Unhandled, a, b, v)
  <2>1. /\ Silent(<<h>> \o rest, a, b) <=> Silent(<<h>>, a, b) /\ Silent(rest, a, b)
        /\ \A v : Latest(<<h>> \o rest, a, b, v) <=>
                     Latest(rest, a, b, v) \/ (Silent(rest, a, b) /\ Latest(<<h>>, a, b, v))
    BY <1>2, <1>5, ConcatLatest
  <2>2. /\ Silent(pending \o (<<h>> \o rest), a, b) <=>
              Silent(pending, a, b) /\ Silent(<<h>> \o rest, a, b)
        /\ \A v : Latest(pending \o (<<h>> \o rest), a, b, v) <=>
                     \/ Latest(<<h>> \o rest, a, b, v)
                     \/ Silent(<<h>> \o rest, a, b) /\ Latest(pending, a, b, v)
    BY <1>5, <1>6, ConcatLatest
  <2> QED
    BY <1>6, <1>7, <2>1, <2>2, SingleLatest
<1>9. ToSet(Unhandled) = ToSet(pending) \cup ({h} \cup ToSet(rest))
  <2>a. \A u, v \in Seq(Notification) : ToSet(u \o v) = ToSet(u) \cup ToSet(v)
    BY MemberFacts
  <2>1. ToSet(<<h>> \o rest) = ToSet(<<h>>) \cup ToSet(rest)
    BY <1>2, <1>5, <2>a
  <2>2. ToSet(pending \o (<<h>> \o rest)) = ToSet(pending) \cup ToSet(<<h>> \o rest)
    BY <1>5, <1>6, <2>a
  <2>3. ToSet(<<h>>) = {h}
    <3>1. DOMAIN <<h>> = {1} /\ <<h>>[1] = h
      OBVIOUS
    <3> QED
      BY <3>1 DEF ToSet
  <2> QED
    BY <1>6, <2>1, <2>2, <2>3
<1>10. /\ PresentPairs' = PresentPairs /\ links \subseteq PresentPairs
       /\ \A p \in PresentPairs : p \in Pair /\ idOf[p[1]] \in Id /\ idOf[p[2]] \in Id
  BY <1>0, <1>1, PairFacts DEF PresentPairs, Present, TypesOK
<1>11. \A p \in PresentPairs : Linked(idOf[p[1]], idOf[p[2]]) <=> p \in links
  BY <1>0, PairFacts
<1>12. TypesOK'
  <2>1. <<>> \in Seq(PortChange)
    OBVIOUS
  <2> QED
    BY <1>0, <1>1, <1>2, <1>3, <1>10, <2>1 DEF TypesOK
<1>13. FlagsOK'
  BY <1>0, <1>1, Zenon DEF FlagsOK
<1>14. IdsInv'
  BY <1>0, <1>1 DEF IdsInv, Present
<1>15. LatestInv'
  <2>1. links' = links \cup {}
    BY <1>1
  <2> QED
    BY <1>0, <1>1, <1>4, <1>8, <2>1, LatestStep
<1>16. SavedInv'
  <2> SUFFICES ASSUME monitor, NEW p \in links, Silent(rest, idOf[p[1]], idOf[p[2]])
               PROVE  p \in outs'
    BY <1>1, <1>4 DEF SavedInv
  <2>1. CASE Silent(pending, idOf[p[1]], idOf[p[2]])
    <3>1. p \in outs
      BY <1>0, <1>8, <2>1 DEF SavedInv
    <3> QED
      BY <1>3, <1>10, <2>1, <3>1
  <2>2. CASE Latest(pending, idOf[p[1]], idOf[p[2]], TRUE)
    BY <1>3, <1>10, <2>2
  <2>3. CASE Latest(pending, idOf[p[1]], idOf[p[2]], FALSE)
    <3>1. ~Linked(idOf[p[1]], idOf[p[2]])
      BY <1>0, <1>8, <1>10, <2>3 DEF LatestInv
    <3> QED
      BY <1>10, <1>11, <3>1
  <2> QED
    BY <1>5, <2>1, <2>2, <2>3, LatestValue
<1>17. LinkedInv'
  <2> SUFFICES ASSUME auto, ~blind, NEW p \in outs', p \in PresentPairs, p \notin links,
                      Silent(rest, idOf[p[1]], idOf[p[2]])
               PROVE  \E i \in {1, 2} : Registration(idOf[p[i]]) \in ToSet(rest)
    BY <1>1, <1>4, <1>10 DEF LinkedInv
  <2>1. monitor
    BY <1>0
  <2>2. CASE Silent(pending, idOf[p[1]], idOf[p[2]])
    <3>1. p \in outs /\ Silent(Unhandled, idOf[p[1]], idOf[p[2]])
      BY <1>3, <1>8, <1>10, <2>1, <2>2
    <3>2. PICK i \in {1, 2} : Registration(idOf[p[i]]) \in ToSet(Unhandled)
      BY <1>0, <3>1 DEF LinkedInv
    <3>3. \A c \in ToSet(pending) : c.type = "connect"
      BY <1>0, MemberFacts, NotificationFacts DEF TypesOK
    <3>4. Registration(idOf[p[i]]) \in ToSet(rest)
      BY <1>1, <1>9, <3>2, <3>3, NotificationFacts
    <3> QED
      BY <3>4
  <2>3. CASE Latest(pending, idOf[p[1]], idOf[p[2]], TRUE)
    <3>1. Linked(idOf[p[1]], idOf[p[2]])
      BY <1>0, <1>8, <1>10, <2>3 DEF LatestInv
    <3> QED
      BY <1>11, <3>1
  <2>4. CASE Latest(pending, idOf[p[1]], idOf[p[2]], FALSE)
    BY <1>3, <1>10, <2>1, <2>4
  <2> QED
    BY <1>5, <2>2, <2>3, <2>4, LatestValue
<1>18. CutInv'
  BY <1>0, <1>1, <1>4, <1>9 DEF CutInv
<1>19. ASSUME ~reused
       PROVE  outs \ outs' \subseteq cut
  <2> SUFFICES ASSUME NEW p \in outs \ outs'
               PROVE  p \in cut
    OBVIOUS
  <2>1. PICK c \in ToSet(pending) : IsChange(c, idOf[p[1]], idOf[p[2]]) /\ ~c.connect
    BY <1>3
  <2>2. p \in Pair
    BY <1>0 DEF TypesOK
  <2> QED
    BY <1>0, <1>9, <1>19, <2>1, <2>2 DEF CutInv, IsChange
<1> QED
  BY <1>0, <1>1, <1>3, <1>12, <1>13, <1>14, <1>15, <1>16, <1>17, <1>18, <1>19, TypeParts
     DEF IInv, SameMaps

\* HandleRegistration keeps the invariant.
LEMMA HandleRegistrationStep ==
  ASSUME IInv, HandleRegistration
  PROVE  IInv'
<1>0. /\ TypesOK /\ FlagsOK /\ IdsInv /\ LatestInv /\ SavedInv /\ LinkedInv /\ CutInv
      /\ SameMaps /\ (~blind => monitor)
  BY TypeParts DEF IInv
<1> DEFINE h == Head(batch)
           rest == Tail(batch) \o queue
           found == {p \in Port : idOf[p] = h.id}
           pairs == IF auto THEN ToConnect([out |-> outs, in |-> ins], found) ELSE {}
           s == Changes(pairs, TRUE)
<1>1. /\ batch # <<>> /\ h.type = "registration"
      /\ batch' = Tail(batch) /\ links' = links \cup pairs /\ queue' = queue \o s
      /\ dirty' = (dirty \/ pairs # {})
      /\ UNCHANGED <<idOf, usedIds, reused, prevCount, pending, outs, ins, auto, monitor,
                     events, cut, blind>>
  BY DEF HandleRegistration, ConnectAll
<1>2. /\ h \in Notification /\ Tail(batch) \in Seq(Notification)
      /\ rest \in Seq(Notification) /\ batch \o queue = <<h>> \o rest
  BY <1>0, <1>1, BatchFacts
<1>3. pairs \in SUBSET PresentPairs /\ pairs \in SUBSET Pair
  BY DEF ToConnect, PresentPairs
<1>4. auto => \A p \in PresentPairs :
         p \in outs /\ (idOf[p[1]] = h.id \/ idOf[p[2]] = h.id) => p \in links'
  <2>1. \A p \in PresentPairs : p[1] \in Port /\ p[2] \in Port
    BY <1>0, PairFacts DEF PresentPairs
  <2> QED
    BY <1>0, <1>1, <2>1 DEF ToConnect, SameMaps
<1> HIDE DEF h, rest, found, pairs
<1>5. /\ IsFiniteSet(pairs)
      /\ \A p \in pairs : idOf[p[1]] \in Id /\ idOf[p[2]] \in Id
  BY <1>0, <1>3, PairFacts
<1>6. /\ s \in Seq(PortChange)
      /\ \A i \in DOMAIN s : \E p \in pairs : s[i] = Change(idOf[p[1]], idOf[p[2]], TRUE)
  BY <1>3, <1>5, ChangesFacts
<1>7. ASSUME NEW a, NEW b
      PROVE  LET among == \E p \in pairs : idOf[p[1]] = a /\ idOf[p[2]] = b
             IN  /\ Silent(rest \o s, a, b) <=> Silent(rest, a, b) /\ ~among
                 /\ \A v : Latest(rest \o s, a, b, v) =>
                       IF among THEN v = TRUE ELSE Latest(rest, a, b, v)
  BY <1>0, <1>2, <1>3, ReportLatest
<1> HIDE DEF s
<1>8. s \in Seq(Notification) /\ pending \in Seq(Notification) /\ <<h>> \in Seq(Notification)
  <2>1. PortChange \subseteq Notification
    BY DEF Notification
  <2> QED
    BY <1>0, <1>2, <1>6, <2>1, SeqMonotonic, UnhandledFacts
<1>9. /\ rest \o s \in Seq(Notification) /\ queue' \in Seq(Notification)
      /\ <<h>> \o rest \in Seq(Notification)
  BY <1>0, <1>1, <1>2, <1>8, ConcatProperties DEF TypesOK
<1>10. Unhandled = pending \o (<<h>> \o rest) /\ Unhandled' = pending \o (rest \o s)
  <2>1. \A u, v, w \in Seq(Notification) : (u \o v) \o w = u \o (v \o w)
    BY ConcatAssociative
  <2>2. Tail(batch) \o (queue \o s) = rest \o s
    BY <1>0, <1>2, <1>8, <2>1 DEF TypesOK, rest
  <2> QED
    BY <1>1, <1>2, <2>2 DEF Unhandled
<1>11. \A a, b : ~IsChange(h, a, b)
  BY <1>1 DEF IsChange
<1>12. ASSUME NEW a, NEW b
       PROVE  LET among == \E p \in pairs : idOf[p[1]] = a /\ idOf[p[2]] = b
              IN  /\ Silent(Unhandled', a, b) <=> Silent(Unhandled, a, b) /\ ~among
                  /\ \A v : Latest(Unhandled', a, b, v) =>
                        IF among THEN v = TRUE ELSE Latest(Unhandled, a, b, v)
  <2>1. /\ Silent(<<h>> \o rest, a, b) <=> Silent(<<h>>, a, b) /\ Silent(rest, a, b)
        /\ \A v : Latest(<<h>> \o rest, a, b, v) <=>
                     Latest(rest, a, b, v) \/ (Silent(rest, a, b) /\ Latest(<<h>>, a, b, v))
    BY <1>2, <1>8, ConcatLatest
  <2>2. /\ Silent(pending \o (<<h>> \o rest), a, b) <=>
              Silent(pending, a, b) /\ Silent(<<h>> \o rest, a, b)
        /\ \A v : Latest(pending \o (<<h>> \o rest), a, b, v) <=>
                     \/ Latest(<<h>> \o rest, a, b, v)
                     \/ Silent(<<h>> \o rest, a, b) /\ Latest(pending, a, b, v)
    BY <1>8, <1>9, ConcatLatest
  <2>3. /\ Silent(pending \o (rest \o s), a, b) <=>
              Silent(pending, a, b) /\ Silent(rest \o s, a, b)
        /\ \A v : Latest(pending \o (rest \o s), a, b, v) <=>
                     \/ Latest(rest \o s, a, b, v)
                     \/ Silent(rest \o s, a, b) /\ Latest(pending, a, b, v)
    BY <1>8, <1>9, ConcatLatest
  <2>4. /\ Silent(<<h>>, a, b)
        /\ \A v : ~Latest(<<h>>, a, b, v)
    BY <1>11, SingleLatest
  <2> QED
    BY <1>7, <1>10, <2>1, <2>2, <2>3, <2>4
<1>13. /\ ToSet(Unhandled) = ToSet(pending) \cup ({h} \cup ToSet(rest))
       /\ ToSet(Unhandled') = ToSet(pending) \cup (ToSet(rest) \cup ToSet(s))
  <2>1. \A u, v \in Seq(Notification) : ToSet(u \o v) = ToSet(u) \cup ToSet(v)
    BY MemberFacts
  <2>2. ToSet(<<h>>) = {h}
    <3>1. DOMAIN <<h>> = {1} /\ <<h>>[1] = h
      OBVIOUS
    <3> QED
      BY <3>1 DEF ToSet
  <2>3. /\ ToSet(<<h>> \o rest) = ToSet(<<h>>) \cup ToSet(rest)
        /\ ToSet(rest \o s) = ToSet(rest) \cup ToSet(s)
    BY <1>2, <1>8, <2>1
  <2>4. /\ ToSet(pending \o (<<h>> \o rest)) = ToSet(pending) \cup ToSet(<<h>> \o rest)
        /\ ToSet(pending \o (rest \o s)) = ToSet(pending) \cup ToSet(rest \o s)
    BY <1>8, <1>9, <2>1
  <2> QED
    BY <1>10, <2>2, <2>3, <2>4
<1>14. /\ PresentPairs' = PresentPairs
       /\ \A p \in PresentPairs : p \in Pair /\ p[1] \in Port /\ p[2] \in Port
                                  /\ Present(p[1]) /\ Present(p[2])
  BY <1>0, <1>1, PairFacts DEF PresentPairs, Present
<1>15. links' \subseteq PresentPairs
  BY <1>0, <1>1, <1>3 DEF TypesOK
<1>16. TypesOK'
  BY <1>0, <1>1, <1>2, <1>9, <1>14, <1>15 DEF TypesOK
<1>17. FlagsOK'
  BY <1>0, <1>1, Zenon DEF FlagsOK
<1>18. IdsInv'
  BY <1>0, <1>1 DEF IdsInv, Present
<1>19. LatestInv'
  <2>1. links' = IF TRUE THEN links \cup pairs ELSE links \ pairs
    BY <1>1
  <2> QED
    BY <1>0, <1>1, <1>3, <1>12, <2>1, LatestStep
<1>20. SavedInv'
  <2>1. \A p \in links' : Silent(Unhandled', idOf[p[1]], idOf[p[2]]) =>
           p \in links /\ Silent(Unhandled, idOf[p[1]], idOf[p[2]])
    BY <1>1, <1>12
  <2> QED
    BY <1>0, <1>1, <2>1, SavedStep
<1>21. LinkedInv'
  <2> SUFFICES ASSUME auto, ~blind, NEW p \in outs, p \in PresentPairs, p \notin links',
                      Silent(Unhandled', idOf[p[1]], idOf[p[2]])
               PROVE  \E i \in {1, 2} : Registration(idOf[p[i]]) \in ToSet(Unhandled')
    BY <1>1, <1>14 DEF LinkedInv
  <2>1. p \notin links /\ Silent(Unhandled, idOf[p[1]], idOf[p[2]])
    BY <1>1, <1>12
  <2>2. PICK i \in {1, 2} : Registration(idOf[p[i]]) \in ToSet(Unhandled)
    BY <1>0, <2>1 DEF LinkedInv
  <2>3. Registration(idOf[p[i]]) # h
    BY <1>4, <2>2, NotificationFacts
  <2> QED
    BY <1>13, <2>2, <2>3
<1>22. CutInv'
  <2> SUFFICES ASSUME NEW c \in ToSet(Unhandled'), c.type = "connect"
               PROVE  /\ c.a \in usedIds /\ c.b \in usedIds
                      /\ ~reused /\ ~c.connect =>
                            \A q \in Pair : idOf[q[1]] = c.a /\ idOf[q[2]] = c.b => q \in cut
    BY <1>1 DEF CutInv
  <2>1. CASE c \in ToSet(Unhandled)
    BY <1>0, <2>1 DEF CutInv
  <2>2. CASE c \notin ToSet(Unhandled)
    <3>1. c \in ToSet(s)
      BY <1>13, <2>2
    <3>2. PICK l \in pairs : c = Change(idOf[l[1]], idOf[l[2]], TRUE)
      BY <1>6, <3>1 DEF ToSet
    <3>3. c.a = idOf[l[1]] /\ c.b = idOf[l[2]] /\ c.connect = TRUE
      BY <3>2 DEF Change
    <3> QED
      BY <1>0, <1>3, <1>14, <3>3 DEF IdsInv
  <2> QED
    BY <2>1, <2>2
<1> QED
  BY <1>0, <1>1, <1>16, <1>17, <1>18, <1>19, <1>20, <1>21, <1>22, TypeParts DEF IInv, SameMaps

\* Switching the monitoring keeps the invariant and forgets no connection.
LEMMA SetMonitorStep ==
  ASSUME IInv, SetMonitor
  PROVE  IInv' /\ outs \subseteq outs'
<1>0. /\ TypesOK /\ FlagsOK /\ IdsInv /\ LatestInv /\ SavedInv /\ LinkedInv /\ CutInv /\ SameMaps
  BY TypeParts DEF IInv
<1>1. /\ monitor' = ~monitor /\ blind' = TRUE
      /\ UNCHANGED <<idOf, usedIds, reused, links, dirty, queue, prevCount, batch, pending, auto,
                     cut>>
  BY DEF SetMonitor, jack
<1>2. /\ outs' = IF ~monitor THEN outs \cup links ELSE outs
      /\ ins' = IF ~monitor THEN ins \cup links ELSE ins
  BY DEF SetMonitor, SetMaps, SaveAll
<1>3. links \subseteq PresentPairs /\ links \subseteq Pair /\ PresentPairs' = PresentPairs
  BY <1>0, <1>1 DEF TypesOK, PresentPairs, Present
<1>4. Unhandled' = Unhandled
  BY <1>1 DEF Unhandled
<1>5. TypesOK'
  <2>1. events' \in 0..MaxEvents
    BY <1>0, JackAssumption DEF SetMonitor, Event, TypesOK
  <2> QED
    BY <1>0, <1>1, <1>2, <1>3, <2>1 DEF TypesOK
<1>6. FlagsOK'
  BY <1>0, <1>1, Zenon DEF FlagsOK
<1>7. IdsInv'
  BY <1>0, <1>1 DEF IdsInv, Present
<1>8. LatestInv'
  <2>1. links' = links \cup {}
    BY <1>1
  <2> QED
    BY <1>0, <1>1, <1>3, <1>4, <2>1, LatestStep
<1>9. SavedInv' /\ LinkedInv' /\ CutInv'
  BY <1>0, <1>1, <1>2, <1>4 DEF SavedInv, LinkedInv, CutInv
<1>10. SameMaps' /\ outs \subseteq outs' /\ (~blind' => monitor')
  BY <1>0, <1>1, <1>2 DEF SameMaps
<1> QED
  BY <1>5, <1>6, <1>7, <1>8, <1>9, <1>10, TypeParts DEF IInv

\* SetAuto keeps the invariant.
LEMMA SetAutoStep ==
  ASSUME IInv, SetAuto
  PROVE  IInv'
<1>0. /\ TypesOK /\ FlagsOK /\ IdsInv /\ LatestInv /\ SavedInv /\ LinkedInv /\ CutInv /\ SameMaps
  BY TypeParts DEF IInv
<1> DEFINE pairs == IF auto THEN {} ELSE ToConnect([out |-> outs, in |-> ins], Port)
<1>1. /\ auto' = ~auto /\ ConnectAll(pairs)
      /\ UNCHANGED <<idOf, usedIds, reused, prevCount, batch, pending, outs, ins, monitor, cut,
                     blind>>
  BY DEF SetAuto
<1>2. pairs \in SUBSET PresentPairs
  BY DEF ToConnect
<1>3. /\ PresentPairs' = PresentPairs
      /\ \A p \in PresentPairs : p[1] \in Port /\ p[2] \in Port
  BY <1>0, <1>1, PairFacts DEF PresentPairs, Present
<1>4. auto' => \A p \in outs \cap PresentPairs : p \in links'
  BY <1>1, <1>3 DEF ToConnect, ConnectAll
<1> HIDE DEF pairs
<1>5. /\ queue' \in Seq(Notification)
      /\ links' \subseteq PresentPairs'
      /\ ToSet(Unhandled) \subseteq ToSet(Unhandled')
      /\ LatestInv' /\ SavedInv' /\ CutInv'
  BY <1>0, <1>1, <1>2, ConnectAllStep
<1>6. TypesOK'
  <2>1. events' \in 0..MaxEvents
    BY <1>0, JackAssumption DEF SetAuto, Event, TypesOK
  <2> QED
    BY <1>0, <1>1, <1>5, <2>1 DEF TypesOK
<1>7. FlagsOK'
  BY <1>0, <1>1, Zenon DEF FlagsOK, ConnectAll
<1>8. IdsInv'
  BY <1>0, <1>1 DEF IdsInv, Present
<1>9. LinkedInv'
  BY <1>1, <1>3, <1>4 DEF LinkedInv
<1> QED
  BY <1>0, <1>1, <1>5, <1>6, <1>7, <1>8, <1>9, TypeParts DEF IInv, SameMaps

(***************************************************************************)
(* The theorems.                                                           *)
(***************************************************************************)

\* The invariant holds at the start.
LEMMA InitInvariant ==
  ASSUME Init
  PROVE  IInv
<1>1. PICK assigned \in [Port -> Id \cup {NoId}], saved \in SUBSET Pair, made \in SUBSET Pair :
         /\ \A p, q \in Port : assigned[p] = assigned[q] /\ p # q => assigned[p] = NoId
         /\ idOf = assigned
         /\ usedIds = {assigned[p] : p \in Port} \ {NoId}
         /\ links = {p \in saved : assigned[p[1]] # NoId /\ assigned[p[2]] # NoId}
         /\ outs = saved
         /\ ins = saved
         /\ made \subseteq links
         /\ queue = Changes(made, TRUE)
         /\ dirty = (made # {})
  BY DEF Init
<1>2. /\ prevCount = 0 /\ batch = <<>> /\ pending = <<>> /\ auto = TRUE /\ monitor = TRUE
      /\ events = 0 /\ cut = {} /\ blind = FALSE /\ reused = FALSE
  BY DEF Init
<1>3. /\ links = outs \cap PresentPairs /\ links \subseteq PresentPairs
      /\ idOf \in [Port -> Id \cup {NoId}] /\ usedIds \subseteq Id
  BY <1>1 DEF PresentPairs, Present
<1>4. IdsInv
  BY <1>1 DEF IdsInv, Present
<1>5. /\ \A p \in PresentPairs : p[1] \in Port /\ p[2] \in Port /\ Present(p[1]) /\ Present(p[2])
                                 /\ idOf[p[1]] \in Id /\ idOf[p[2]] \in Id
      /\ IsFiniteSet(made)
  <2>1. \A p \in PresentPairs : p[1] \in Port /\ p[2] \in Port /\ Present(p[1]) /\ Present(p[2])
    BY DEF PresentPairs, Pair, Port
  <2>2. IsFiniteSet(made)
    BY JackAssumption, FS_Product, FS_Subset DEF Pair
  <2> QED
    BY <1>3, <2>1, <2>2 DEF Present
<1>6. /\ \A p \in made : idOf[p[1]] \in Id /\ idOf[p[2]] \in Id
      /\ made \subseteq links
  BY <1>1, <1>3, <1>5
<1>7. /\ queue \in Seq(PortChange)
      /\ \A i \in DOMAIN queue : \E p \in made : queue[i] = Change(idOf[p[1]], idOf[p[2]], TRUE)
  BY <1>1, <1>5, <1>6, ChangesFacts
<1>8. queue \in Seq(Notification)
  <2>1. PortChange \subseteq Notification
    BY DEF Notification
  <2> QED
    BY <1>7, <2>1, SeqMonotonic
<1>9. TypesOK
  <2>1. <<>> \in Seq(Notification) /\ <<>> \in Seq(PortChange) /\ 0 \in 0..MaxEvents
    BY JackAssumption
  <2>2. outs \subseteq Pair /\ ins \subseteq Pair
    BY <1>1
  <2> QED
    BY <1>2, <1>3, <1>8, <2>1, <2>2 DEF TypesOK
<1>10. FlagsOK
  BY <1>1, <1>2, Zenon DEF FlagsOK
<1>11. Unhandled = queue
  <2>1. <<>> \o queue = queue
    BY <1>8, ConcatEmptySeq
  <2> QED
    BY <1>2, <2>1 DEF Unhandled
<1>12. LatestInv
  <2>1. ASSUME NEW a, NEW b, NEW v, Latest(queue, a, b, v)
        PROVE  v = TRUE /\ Linked(a, b)
    <3>1. PICK i \in DOMAIN queue : IsChange(queue[i], a, b) /\ queue[i].connect = v
      BY <2>1 DEF Latest
    <3>2. PICK p \in made : queue[i] = Change(idOf[p[1]], idOf[p[2]], TRUE)
      BY <1>7, <3>1
    <3>a. queue[i].a = idOf[p[1]] /\ queue[i].b = idOf[p[2]] /\ queue[i].connect = TRUE
      BY <3>2 DEF Change
    <3>3. v = TRUE /\ idOf[p[1]] = a /\ idOf[p[2]] = b
      BY <3>1, <3>a DEF IsChange
    <3> QED
      BY <1>6, <3>3 DEF Linked
  <2> QED
    BY <1>11, <2>1 DEF LatestInv
<1>13. SavedInv /\ LinkedInv
  BY <1>3 DEF SavedInv, LinkedInv
<1>14. CutInv
  <2> SUFFICES ASSUME NEW c \in ToSet(queue), c.type = "connect"
               PROVE  /\ c.a \in usedIds /\ c.b \in usedIds
                      /\ ~reused /\ ~c.connect =>
                            \A q \in Pair : idOf[q[1]] = c.a /\ idOf[q[2]] = c.b => q \in cut
    BY <1>11 DEF CutInv
  <2>1. PICK p \in made : c = Change(idOf[p[1]], idOf[p[2]], TRUE)
    BY <1>7 DEF ToSet
  <2>2. c.a = idOf[p[1]] /\ c.b = idOf[p[2]] /\ c.connect = TRUE
    BY <2>1 DEF Change
  <2>3. p \in PresentPairs
    BY <1>3, <1>6
  <2> QED
    BY <1>4, <1>5, <2>2, <2>3 DEF IdsInv
<1>15. SameMaps
  BY <1>1 DEF SameMaps
<1> QED
  BY <1>2, <1>4, <1>9, <1>10, <1>12, <1>13, <1>14, <1>15, TypeParts DEF IInv

\* Every step keeps the invariant.
LEMMA NextInvariant ==
  ASSUME IInv, [Next]_vars
  PROVE  IInv'
<1>1. ASSUME NEW p \in Port, Register(p) \/ Unregister(p)
      PROVE  IInv'
  BY <1>1, RegisterStep, UnregisterStep
<1>2. ASSUME NEW p \in Pair, UserConnect(p) \/ UserDisconnect(p)
      PROVE  IInv'
  BY <1>2, UserConnectStep, UserDisconnectStep
<1>3. ASSUME GraphReordered \/ SlowTimer
      PROVE  IInv'
  BY <1>3, GraphReorderedStep, SlowTimerStep
<1>4. ASSUME HandleChange \/ HandleReorder \/ HandleRegistration
      PROVE  IInv'
  BY <1>4, HandleChangeStep, HandleReorderStep, HandleRegistrationStep
<1>5. ASSUME SetMonitor \/ SetAuto
      PROVE  IInv'
  BY <1>5, SetMonitorStep, SetAutoStep
<1>6. ASSUME UNCHANGED vars
      PROVE  IInv'
  <2>1. /\ UNCHANGED <<idOf, usedIds, reused, links, outs, ins, auto, monitor, cut, blind>>
        /\ UNCHANGED <<dirty, queue, batch, pending, prevCount, events>>
    BY <1>6 DEF vars
  <2>2. Unhandled' = Unhandled
    BY <2>1 DEF Unhandled
  <2>3. TypesOK /\ FlagsOK
    BY TypeParts DEF IInv
  <2>4. /\ PresentPairs' = PresentPairs
        /\ IdsInv' /\ LatestInv' /\ SavedInv' /\ LinkedInv' /\ CutInv' /\ SameMaps'
        /\ ~blind' => monitor'
    BY <2>1, <2>2, QuietStep
  <2>5. TypesOK'
    BY <2>1, <2>3, <2>4 DEF TypesOK
  <2>6. FlagsOK'
    BY <2>1, <2>3, Zenon DEF FlagsOK
  <2> QED
    BY <2>4, <2>5, <2>6, TypeParts DEF IInv
<1> QED
  BY <1>1, <1>2, <1>3, <1>4, <1>5, <1>6 DEF Next

\* Whatever ports come and go while their notifications wait, the last change that
\* waits for two ids says whether JACK connects them, and what is saved and made of
\* the others (processJackNotifications, jackOnGraphReordered).
THEOREM NotificationsTell == Spec => []IInv
<1>1. Init => IInv
  BY InitInvariant
<1>2. IInv /\ [Next]_vars => IInv'
  BY NextInvariant
<1> QED
  BY <1>1, <1>2, PTL DEF Spec

\* The outputs' map and the inputs' map are the same relation.
THEOREM MapsAgree == Spec => []SameMaps
<1>1. IInv => SameMaps
  BY DEF IInv
<1> QED
  BY <1>1, NotificationsTell, PTL

\* Once all notifications are handled, what is saved is what JACK connects, as far as
\* the server could see.
THEOREM SettledAsLinked == Spec => []SavedAsLinked
<1>1. ASSUME IInv
      PROVE  SavedAsLinked
  <2>1. TypesOK /\ SavedInv /\ LinkedInv /\ TypeOK
    BY <1>1, TypeParts DEF IInv
  <2>2. ASSUME Settled
        PROVE  /\ monitor => links \subseteq outs
               /\ auto /\ ~blind => outs \cap PresentPairs \subseteq links
    <3>1. Unhandled = <<>>
      <4>1. <<>> \o (<<>> \o <<>>) = <<>>
        OBVIOUS
      <4> QED
        BY <2>2, <4>1 DEF Settled, Unhandled
    <3>2. DOMAIN <<>> = {}
      OBVIOUS
    <3>3. ToSet(Unhandled) = {} /\ \A a, b : Silent(Unhandled, a, b)
      BY <3>1, <3>2 DEF ToSet, Silent
    <3> QED
      BY <2>1, <3>3 DEF SavedInv, LinkedInv
  <2> QED
    BY <2>1, <2>2 DEF SavedAsLinked, LinksSaved, SavedLinked
<1> QED
  BY <1>1, NotificationsTell, PTL

\* While JACK gives new ports new ids, the end of a client forgets nothing.
THEOREM FreshExitKept == Spec => FreshExitIsNotSaved
<1>1. ASSUME IInv, [Next]_vars
      PROVE  [~reused => outs \ outs' \subseteq cut]_vars
  <2>1. CASE HandleReorder
    BY <1>1, <2>1, HandleReorderStep
  <2>2. CASE SetMonitor
    BY <1>1, <2>2, SetMonitorStep
  <2>3. CASE ~HandleReorder /\ ~SetMonitor
    <3>1. outs' = outs
      BY <1>1, <2>3 DEF Next, vars, Register, Unregister, UserConnect, UserDisconnect,
                        GraphReordered, SlowTimer, HandleChange, HandleRegistration, SetAuto
    <3> QED
      BY <3>1
  <2> QED
    BY <2>1, <2>2, <2>3
<1> QED
  BY <1>1, NotificationsTell, PTL DEF Spec, FreshExitIsNotSaved

=============================================================================
