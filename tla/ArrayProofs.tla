---------------------------- MODULE ArrayProofs ----------------------------
(***************************************************************************)
(* Proofs about the two machines that keep a keyed array: StripList, for   *)
(* every number of GUIs, every largest key and all lists that files and    *)
(* clients bring, and ChannelArray, for every number of channels and any   *)
(* keys that clients write.                                                *)
(***************************************************************************)
EXTENDS StripList, PartsInstances, SequenceTheorems, FiniteSetTheorems,
    FunctionTheorems, WellFoundedInduction, TLAPS

(***************************************************************************)
(* Induction.  The rules of the library take the property as an operator;  *)
(* with a set for the property they follow from the fact that the natural  *)
(* numbers are well founded.                                               *)
(***************************************************************************)

\* A set of natural numbers that holds 0 and the successor of each member holds all.
LEMMA NatSetInduction ==
  ASSUME NEW S, 0 \in S, \A n \in Nat : n \in S => n + 1 \in S
  PROVE  \A n \in Nat : n \in S
<1> SUFFICES ASSUME NEW n \in Nat, n \notin S
             PROVE  FALSE
  OBVIOUS
<1> DEFINE T == {k \in Nat : k \notin S}
           R == {ss \in Nat \X Nat : ss[1] < ss[2]}
<1>1. IsWellFoundedOn(R, Nat)
  BY NatLessThanWellFounded DEF OpToRel
<1>2. PICK x \in T : \A y \in T : ~(<<y, x>> \in R)
  <2>1. T \subseteq Nat /\ n \in T
    OBVIOUS
  <2> HIDE DEF R, T
  <2> QED
    BY <1>1, <2>1, WFMin
<1>3. x # 0
  OBVIOUS
<1>4. x - 1 \in Nat /\ x - 1 \notin T
  <2>1. x - 1 \in Nat
    BY <1>3
  <2>2. <<x - 1, x>> \in R
    BY <2>1
  <2> QED
    BY <1>2, <2>1, <2>2
<1>5. (x - 1) + 1 \in S
  BY <1>4
<1> QED
  BY <1>5

\* Some numbers up to n have a greatest.
LEMMA Greatest ==
  ASSUME NEW n \in Nat, NEW T \in SUBSET (1..n), T # {}
  PROVE  \E m \in T : \A k \in T : k <= m
<1> DEFINE S == {k \in Nat : \A U \in SUBSET (1..k) : U # {} => \E m \in U : \A i \in U : i <= m}
<1>1. 0 \in S
  <2>1. \A U \in SUBSET (1..0) : U = {}
    OBVIOUS
  <2> QED
    BY <2>1
<1>2. ASSUME NEW k \in Nat, k \in S
      PROVE  k + 1 \in S
  <2> SUFFICES ASSUME NEW U \in SUBSET (1..(k + 1)), U # {}
               PROVE  \E m \in U : \A i \in U : i <= m
    OBVIOUS
  <2>1. CASE k + 1 \in U
    BY <2>1
  <2>2. CASE k + 1 \notin U
    <3>1. U \in SUBSET (1..k)
      BY <2>2
    <3> QED
      BY <1>2, <3>1
  <2> QED
    BY <2>1, <2>2
<1>3. n \in S
  <2> HIDE DEF S
  <2> QED
    BY <1>1, <1>2, NatSetInduction
<1> QED
  BY <1>3

\* The greatest of the first numbers, and of any of them.
LEMMA MaxFacts ==
  ASSUME NEW n \in Nat
  PROVE  /\ n # 0 => Max(1..n) = n /\ (1..n) \ {n} = 1..(n - 1)
         /\ \A T \in SUBSET (1..(n + 1)) : T # {} => T \ {Max(T)} \in SUBSET (1..n)
<1>1. ASSUME NEW k \in Nat, NEW T \in SUBSET (1..k), T # {}
      PROVE  Max(T) \in T /\ \A i \in T : Max(T) >= i
  <2>1. \E m \in T : \A i \in T : m >= i
    BY <1>1, Greatest
  <2> QED
    BY <2>1 DEF Max
<1>2. ASSUME n # 0
      PROVE  Max(1..n) = n /\ (1..n) \ {n} = 1..(n - 1)
  <2>1. n \in 1..n
    BY <1>2
  <2>2. Max(1..n) \in 1..n /\ \A i \in 1..n : Max(1..n) >= i
    BY <1>1, <2>1
  <2>3. Max(1..n) >= n
    BY <2>1, <2>2
  <2> QED
    BY <2>2, <2>3
<1>3. ASSUME NEW T \in SUBSET (1..(n + 1)), T # {}
      PROVE  T \ {Max(T)} \in SUBSET (1..n)
  <2>1. n + 1 \in Nat
    OBVIOUS
  <2>2. Max(T) \in T /\ \A i \in T : Max(T) >= i
    BY <1>1, <1>3, <2>1
  <2>3. ASSUME NEW i \in T, i # Max(T)
        PROVE  i \in 1..n
    <3>1. i \in 1..(n + 1) /\ Max(T) \in 1..(n + 1) /\ Max(T) >= i
      BY <2>2
    <3> QED
      BY <2>3, <3>1
  <2> QED
    BY <2>3
<1> QED
  BY <1>2, <1>3

\* What is kept after each of the n keys of a list.
IsPickRun(g, S, s, n) ==
    /\ g[0] = <<>>
    /\ \A k \in 1..n : g[k] = Keep(S, g[k - 1], s[k])
    /\ Pick(s, S) = g[n]

\* A list is read key by key.
LEMMA PickRun ==
  ASSUME NEW S, NEW s, NEW n \in Nat, DOMAIN s = 1..n
  PROVE  \E g : IsPickRun(g, S, s, n)
<1> DEFINE Body(h, x) == IF x = {} THEN <<>> ELSE Keep(S, h[x \ {Max(x)}], s[Max(x)])
           D == {k \in Nat : \E h : h = [x \in SUBSET (1..k) |-> Body(h, x)]}
           iter == CHOOSE h : h = [x \in SUBSET (1..n) |-> Body(h, x)]
           g == [k \in 0..n |-> iter[1..k]]
<1>1. Pick(s, S) = iter[1..n]
  BY DEF Pick, FoldLeft, MapThenFoldSet
<1>2. 0 \in D
  <2> DEFINE h == [x \in SUBSET (1..0) |-> <<>>]
  <2>1. \A x \in SUBSET (1..0) : x = {}
    OBVIOUS
  <2>2. h = [x \in SUBSET (1..0) |-> Body(h, x)]
    BY <2>1
  <2> QED
    BY <2>2
<1>3. ASSUME NEW k \in Nat, k \in D
      PROVE  k + 1 \in D
  <2>1. PICK h : h = [x \in SUBSET (1..k) |-> Body(h, x)]
    BY <1>3
  <2> DEFINE H == [x \in SUBSET (1..(k + 1)) |-> Body(h, x)]
  <2>2. \A x \in SUBSET (1..k) : H[x] = h[x]
    <3>1. SUBSET (1..k) \subseteq SUBSET (1..(k + 1))
      OBVIOUS
    <3>2. \A x \in SUBSET (1..k) : h[x] = Body(h, x)
      <4> HIDE DEF Body
      <4> QED
        BY <2>1, Zenon
    <3> HIDE DEF Body
    <3> QED
      BY <3>1, <3>2
  <2>3. \A x \in SUBSET (1..(k + 1)) : Body(h, x) = Body(H, x)
    <3> HIDE DEF H
    <3> QED
      BY <2>2, MaxFacts
  <2>4. H = [x \in SUBSET (1..(k + 1)) |-> Body(H, x)]
    <3>1. \A x \in SUBSET (1..(k + 1)) : H[x] = Body(H, x)
      <4>1. \A x \in SUBSET (1..(k + 1)) : H[x] = Body(h, x)
        BY Zenon
      <4> HIDE DEF H, Body
      <4> QED
        BY <2>3, <4>1
    <3>2. H = [x \in SUBSET (1..(k + 1)) |-> H[x]]
      OBVIOUS
    <3> HIDE DEF H, Body
    <3> QED
      BY <3>1, <3>2
  <2> QED
    <3> HIDE DEF H, Body
    <3> QED
      BY <2>4
<1>4. n \in D
  <2> HIDE DEF D
  <2> QED
    BY <1>2, <1>3, NatSetInduction
<1>5. iter = [x \in SUBSET (1..n) |-> Body(iter, x)]
  <2> HIDE DEF Body
  <2> QED
    BY <1>4, Zenon
<1>6. \A x \in SUBSET (1..n) : iter[x] = Body(iter, x)
  <2> HIDE DEF Body, iter
  <2> QED
    BY <1>5, Zenon
<1>7. g[0] = <<>>
  <2>1. (1..0) \in SUBSET (1..n) /\ 1..0 = {}
    OBVIOUS
  <2>2. iter[1..0] = <<>>
    <3> HIDE DEF iter
    <3> QED
      BY <1>6, <2>1
  <2> HIDE DEF iter
  <2> QED
    BY <2>2
<1>8. ASSUME NEW k \in 1..n
      PROVE  g[k] = Keep(S, g[k - 1], s[k])
  <2>1. k \in Nat /\ k # 0 /\ (1..k) \in SUBSET (1..n) /\ 1..k # {}
    OBVIOUS
  <2>2. Max(1..k) = k /\ (1..k) \ {k} = 1..(k - 1)
    BY <2>1, MaxFacts
  <2>3. iter[1..k] = Keep(S, iter[1..(k - 1)], s[k])
    <3> HIDE DEF iter
    <3> QED
      BY <1>6, <2>1, <2>2
  <2>4. g[k] = iter[1..k] /\ g[k - 1] = iter[1..(k - 1)]
    <3> HIDE DEF iter
    <3> QED
      OBVIOUS
  <2> QED
    BY <2>3, <2>4
<1>9. g[n] = iter[1..n]
  <2> HIDE DEF iter
  <2> QED
    OBVIOUS
<1> QED
  <2> HIDE DEF iter, g
  <2>1. IsPickRun(g, S, s, n)
    BY <1>1, <1>7, <1>8, <1>9 DEF IsPickRun
  <2> QED
    BY <2>1

\* The layout after each of the n keys of the list received.
IsPlaceRun(g, s, new, n) ==
    /\ g[0] = [order |-> s, aborted |-> FALSE]
    /\ \A k \in 1..n : g[k] = Place(new, g[k - 1], k)
    /\ PlaceAll(s, new) = g[n]

\* execute() places one key after the other.
LEMMA PlaceRun ==
  ASSUME NEW s, NEW new, NEW n \in Nat, DOMAIN new = 1..n
  PROVE  \E g : IsPlaceRun(g, s, new, n)
<1> DEFINE base == [order |-> s, aborted |-> FALSE]
           Step(r, i) == Place(new, r, [j \in DOMAIN new |-> j][i])
           Body(h, x) == IF x = {} THEN base ELSE Step(h[x \ {Max(x)}], Max(x))
           D == {k \in Nat : \E h : h = [x \in SUBSET (1..k) |-> Body(h, x)]}
           iter == CHOOSE h : h = [x \in SUBSET (1..n) |-> Body(h, x)]
           g == [k \in 0..n |-> iter[1..k]]
<1>1. PlaceAll(s, new) = iter[1..n]
  BY DEF PlaceAll, FoldLeft, MapThenFoldSet
<1>2. 0 \in D
  <2> DEFINE h == [x \in SUBSET (1..0) |-> base]
  <2>1. \A x \in SUBSET (1..0) : x = {}
    OBVIOUS
  <2>2. h = [x \in SUBSET (1..0) |-> Body(h, x)]
    BY <2>1
  <2> QED
    BY <2>2
<1>3. ASSUME NEW k \in Nat, k \in D
      PROVE  k + 1 \in D
  <2>1. PICK h : h = [x \in SUBSET (1..k) |-> Body(h, x)]
    BY <1>3
  <2> DEFINE H == [x \in SUBSET (1..(k + 1)) |-> Body(h, x)]
  <2>2. \A x \in SUBSET (1..k) : H[x] = h[x]
    <3>1. SUBSET (1..k) \subseteq SUBSET (1..(k + 1))
      OBVIOUS
    <3>2. \A x \in SUBSET (1..k) : h[x] = Body(h, x)
      <4> HIDE DEF Body
      <4> QED
        BY <2>1, Zenon
    <3> HIDE DEF Body
    <3> QED
      BY <3>1, <3>2
  <2>3. \A x \in SUBSET (1..(k + 1)) : Body(h, x) = Body(H, x)
    <3>1. \A x \in SUBSET (1..(k + 1)) : x # {} => h[x \ {Max(x)}] = H[x \ {Max(x)}]
      <4> HIDE DEF H
      <4> QED
        BY <2>2, MaxFacts
    <3> HIDE DEF H, Step
    <3> QED
      BY <3>1, Zenon
  <2>4. H = [x \in SUBSET (1..(k + 1)) |-> Body(H, x)]
    <3>1. \A x \in SUBSET (1..(k + 1)) : H[x] = Body(H, x)
      <4>1. \A x \in SUBSET (1..(k + 1)) : H[x] = Body(h, x)
        BY Zenon
      <4> HIDE DEF H, Body
      <4> QED
        BY <2>3, <4>1
    <3>2. H = [x \in SUBSET (1..(k + 1)) |-> H[x]]
      OBVIOUS
    <3> HIDE DEF H, Body
    <3> QED
      BY <3>1, <3>2
  <2> QED
    <3> HIDE DEF H, Body
    <3> QED
      BY <2>4
<1>4. n \in D
  <2> HIDE DEF D
  <2> QED
    BY <1>2, <1>3, NatSetInduction
<1>5. iter = [x \in SUBSET (1..n) |-> Body(iter, x)]
  <2> HIDE DEF Body
  <2> QED
    BY <1>4, Zenon
<1>6. \A x \in SUBSET (1..n) : iter[x] = Body(iter, x)
  <2> HIDE DEF Body, iter
  <2> QED
    BY <1>5, Zenon
<1>7. g[0] = base
  <2>1. (1..0) \in SUBSET (1..n) /\ 1..0 = {}
    OBVIOUS
  <2>2. iter[1..0] = base
    <3> HIDE DEF iter
    <3> QED
      BY <1>6, <2>1
  <2> HIDE DEF iter
  <2> QED
    BY <2>2
<1>8. ASSUME NEW k \in 1..n
      PROVE  g[k] = Place(new, g[k - 1], k)
  <2>1. k \in Nat /\ k # 0 /\ (1..k) \in SUBSET (1..n) /\ 1..k # {}
    OBVIOUS
  <2>2. Max(1..k) = k /\ (1..k) \ {k} = 1..(k - 1)
    BY <2>1, MaxFacts
  <2>3. iter[1..k] = Place(new, iter[1..(k - 1)], [i \in DOMAIN new |-> i][k])
    <3> HIDE DEF iter
    <3> QED
      BY <1>6, <2>1, <2>2
  <2>4. g[k] = iter[1..k] /\ g[k - 1] = iter[1..(k - 1)]
    <3> HIDE DEF iter
    <3> QED
      OBVIOUS
  <2> QED
    BY <2>3, <2>4
<1>9. g[n] = iter[1..n]
  <2> HIDE DEF iter
  <2> QED
    OBVIOUS
<1> QED
  <2> HIDE DEF iter, g
  <2>1. IsPlaceRun(g, s, new, n)
    BY <1>1, <1>7, <1>8, <1>9 DEF IsPlaceRun
  <2> QED
    BY <2>1

(***************************************************************************)
(* Lists of keys.                                                          *)
(***************************************************************************)

\* The members of a list are the elements it contains.
LEMMA Members ==
  ASSUME NEW T, NEW s \in Seq(T)
  PROVE  /\ ToSet(s) \subseteq T
         /\ \A x : x \in ToSet(s) <=> \E i \in 1..Len(s) : s[i] = x
         /\ \A x : Contains(s, x) <=> x \in ToSet(s)
BY DEF ToSet, Contains

\* Appending to a list.
LEMMA AppendFacts ==
  ASSUME NEW T, NEW s \in Seq(T), NEW k \in T
  PROVE  /\ Append(s, k) \in Seq(T)
         /\ Len(Append(s, k)) = Len(s) + 1
         /\ \A i \in 1..Len(s) : Append(s, k)[i] = s[i]
         /\ Append(s, k)[Len(s) + 1] = k
         /\ ToSet(Append(s, k)) = ToSet(s) \cup {k}
         /\ k \notin ToSet(s) /\ IsInjective(s) => IsInjective(Append(s, k))
<1>1. /\ Append(s, k) \in Seq(T)
      /\ Len(Append(s, k)) = Len(s) + 1
      /\ \A i \in 1..Len(s) : Append(s, k)[i] = s[i]
      /\ Append(s, k)[Len(s) + 1] = k
  OBVIOUS
<1>2. \A i \in 1..(Len(s) + 1) : i \in 1..Len(s) \/ i = Len(s) + 1
  OBVIOUS
<1>3. ToSet(Append(s, k)) = ToSet(s) \cup {k}
  <2>1. \A x : x \in ToSet(Append(s, k)) <=> \E i \in 1..(Len(s) + 1) : Append(s, k)[i] = x
    <3> DEFINE t == Append(s, k)
    <3>1. t \in Seq(T) /\ Len(t) = Len(s) + 1
      BY <1>1
    <3> HIDE DEF t
    <3>2. \A x : x \in ToSet(t) <=> \E i \in 1..Len(t) : t[i] = x
      BY <3>1, Members
    <3>3. \A x : x \in ToSet(t) <=> \E i \in 1..(Len(s) + 1) : t[i] = x
      BY <3>1, <3>2
    <3> QED
      BY <3>3 DEF t
  <2>2. \A x : x \in ToSet(s) <=> \E i \in 1..Len(s) : s[i] = x
    BY Members
  <2>3. ASSUME NEW x \in ToSet(Append(s, k))
        PROVE  x \in ToSet(s) \cup {k}
    BY <1>1, <1>2, <2>1, <2>2
  <2>4. ASSUME NEW x \in ToSet(s) \cup {k}
        PROVE  x \in ToSet(Append(s, k))
    <3>1. CASE x = k
      <4>1. Len(s) + 1 \in 1..(Len(s) + 1)
        OBVIOUS
      <4> QED
        BY <1>1, <2>1, <3>1, <4>1
    <3>2. CASE x \in ToSet(s)
      <4>1. \A i \in 1..Len(s) : i \in 1..(Len(s) + 1)
        OBVIOUS
      <4> QED
        BY <1>1, <2>1, <2>2, <3>2, <4>1
    <3> QED
      BY <3>1, <3>2
  <2> QED
    BY <2>3, <2>4
<1>4. ASSUME k \notin ToSet(s), IsInjective(s)
      PROVE  IsInjective(Append(s, k))
  <2>1. \A i \in 1..Len(s) : s[i] # k
    BY <1>4, Members
  <2>2. \A i, j \in 1..Len(s) : s[i] = s[j] => i = j
    BY <1>4 DEF IsInjective
  <2>3. DOMAIN Append(s, k) = 1..(Len(s) + 1)
    BY <1>1
  <2> QED
    BY <1>1, <1>2, <2>1, <2>2, <2>3 DEF IsInjective
<1> QED
  BY <1>1, <1>3, <1>4

\* Reading one more key.
LEMMA KeepFacts ==
  ASSUME NEW T, NEW S
  PROVE  \A kept \in Seq(T), k \in T : IsInjective(kept) =>
            /\ Keep(S, kept, k) \in Seq(T) /\ IsInjective(Keep(S, kept, k))
            /\ \A x : x \in ToSet(Keep(S, kept, k)) <=> x \in ToSet(kept) \/ (x \in S /\ x = k)
<1> SUFFICES ASSUME NEW kept \in Seq(T), NEW k \in T, IsInjective(kept)
             PROVE  /\ Keep(S, kept, k) \in Seq(T) /\ IsInjective(Keep(S, kept, k))
                    /\ \A x : x \in ToSet(Keep(S, kept, k)) <=> x \in ToSet(kept) \/ (x \in S /\ x = k)
  OBVIOUS
<1>1. CASE k \in S /\ ~Contains(kept, k)
  <2>1. k \notin ToSet(kept)
    BY <1>1, Members
  <2> QED
    BY <1>1, <2>1, AppendFacts DEF Keep
<1>2. CASE ~(k \in S /\ ~Contains(kept, k))
  <2>1. k \in S => k \in ToSet(kept)
    BY <1>2, Members
  <2>2. Keep(S, kept, k) = kept
    BY <1>2 DEF Keep
  <2> QED
    BY <2>1, <2>2
<1> QED
  BY <1>1, <1>2

\* What is picked is what is wanted, each key once.
LEMMA PickFacts ==
  ASSUME NEW T, NEW S, NEW s \in Seq(T)
  PROVE  /\ Pick(s, S) \in Seq(T) /\ IsInjective(Pick(s, S))
         /\ ToSet(Pick(s, S)) = S \cap ToSet(s)
<1>1. Len(s) \in Nat /\ DOMAIN s = 1..Len(s)
  OBVIOUS
<1>2. PICK g : IsPickRun(g, S, s, Len(s))
  BY <1>1, PickRun
<1> DEFINE Read(k) == {s[i] : i \in 1..k}
           Good(k) == /\ g[k] \in Seq(T) /\ IsInjective(g[k])
                      /\ ToSet(g[k]) = S \cap Read(k)
           D == {k \in Nat : k <= Len(s) => Good(k)}
<1>3. 0 \in D
  <2>1. g[0] = <<>> /\ Read(0) = {}
    BY <1>2 DEF IsPickRun
  <2>2. <<>> \in Seq(T) /\ IsInjective(<<>>) /\ ToSet(<<>>) = {}
    BY DEF IsInjective, ToSet
  <2> QED
    BY <2>1, <2>2
<1>4. ASSUME NEW k \in Nat, k \in D
      PROVE  k + 1 \in D
  <2> SUFFICES ASSUME k + 1 <= Len(s)
               PROVE  Good(k + 1)
    OBVIOUS
  <2>1. Good(k)
    BY <1>4
  <2>2. k + 1 \in 1..Len(s) /\ (k + 1) - 1 = k
    OBVIOUS
  <2>3. g[k + 1] = Keep(S, g[k], s[k + 1])
    BY <1>2, <2>2 DEF IsPickRun
  <2>4. s[k + 1] \in T
    BY <2>2
  <2>5. Read(k + 1) = Read(k) \cup {s[k + 1]}
    <3>1. 1..(k + 1) = (1..k) \cup {k + 1}
      OBVIOUS
    <3> QED
      BY <3>1
  <2> HIDE DEF Read
  <2>6. /\ Keep(S, g[k], s[k + 1]) \in Seq(T) /\ IsInjective(Keep(S, g[k], s[k + 1]))
        /\ \A x : x \in ToSet(Keep(S, g[k], s[k + 1]))
                    <=> x \in ToSet(g[k]) \/ (x \in S /\ x = s[k + 1])
    <3>1. \A kept \in Seq(T), e \in T : IsInjective(kept) =>
             /\ Keep(S, kept, e) \in Seq(T) /\ IsInjective(Keep(S, kept, e))
             /\ \A x : x \in ToSet(Keep(S, kept, e)) <=> x \in ToSet(kept) \/ (x \in S /\ x = e)
      BY KeepFacts
    <3> QED
      BY <2>1, <2>4, <3>1
  <2>7. ToSet(g[k + 1]) = S \cap Read(k + 1)
    BY <2>1, <2>3, <2>5, <2>6
  <2> QED
    BY <2>3, <2>6, <2>7
<1>5. Len(s) \in D
  <2> HIDE DEF D
  <2> QED
    BY <1>1, <1>3, <1>4, NatSetInduction
<1>6. Good(Len(s)) /\ Pick(s, S) = g[Len(s)]
  BY <1>1, <1>2, <1>5 DEF IsPickRun
<1>7. ToSet(s) = Read(Len(s))
  BY <1>1 DEF ToSet
<1> QED
  BY <1>6, <1>7

\* Picking the first keys of a list without duplicates.
LEMMA PickFirst ==
  ASSUME NEW T, NEW S, NEW s \in Seq(T), IsInjective(s), NEW p \in 0..Len(s),
         \A i \in 1..Len(s) : s[i] \in S <=> i <= p
  PROVE  Pick(s, S) = [i \in 1..p |-> s[i]]
<1>1. Len(s) \in Nat /\ DOMAIN s = 1..Len(s)
  OBVIOUS
<1>2. PICK g : IsPickRun(g, S, s, Len(s))
  BY <1>1, PickRun
<1> DEFINE Upto(k) == IF k <= p THEN k ELSE p
           D == {k \in Nat : k <= Len(s) => g[k] = [i \in 1..Upto(k) |-> s[i]]}
<1>3. 0 \in D
  <2>1. g[0] = <<>>
    BY <1>2 DEF IsPickRun
  <2>2. Upto(0) = 0 /\ [i \in 1..0 |-> s[i]] = <<>>
    OBVIOUS
  <2> QED
    BY <2>1, <2>2
<1>4. ASSUME NEW k \in Nat, k \in D
      PROVE  k + 1 \in D
  <2> SUFFICES ASSUME k + 1 <= Len(s)
               PROVE  g[k + 1] = [i \in 1..Upto(k + 1) |-> s[i]]
    OBVIOUS
  <2> DEFINE u == [i \in 1..Upto(k) |-> s[i]]
  <2>1. g[k] = u
    BY <1>4
  <2>2. k + 1 \in 1..Len(s) /\ (k + 1) - 1 = k
    OBVIOUS
  <2>3. g[k + 1] = Keep(S, u, s[k + 1])
    BY <1>2, <2>1, <2>2 DEF IsPickRun
  <2>4. u \in Seq(T) /\ Len(u) = Upto(k)
    OBVIOUS
  <2>5. CASE k + 1 <= p
    <3>1. s[k + 1] \in S /\ s[k + 1] \in T /\ Upto(k) = k /\ Upto(k + 1) = k + 1
      BY <2>2, <2>5
    <3>2. ~Contains(u, s[k + 1])
      <4>1. \A i \in 1..k : s[i] # s[k + 1]
        BY <1>1, <2>2 DEF IsInjective
      <4>2. Len(u) = k /\ \A i \in 1..k : u[i] = s[i]
        BY <2>4, <3>1
      <4> HIDE DEF u
      <4> QED
        BY <4>1, <4>2 DEF Contains
    <3>3. Keep(S, u, s[k + 1]) = Append(u, s[k + 1])
      BY <3>1, <3>2 DEF Keep
    <3>4. Append(u, s[k + 1]) = [i \in 1..(k + 1) |-> s[i]]
      BY <2>4, <3>1
    <3> QED
      BY <2>3, <3>1, <3>3, <3>4
  <2>6. CASE ~(k + 1 <= p)
    <3>1. s[k + 1] \notin S /\ Upto(k) = p /\ Upto(k + 1) = p
      BY <2>2, <2>6
    <3> QED
      BY <2>3, <3>1 DEF Keep
  <2> QED
    BY <2>5, <2>6
<1>5. Len(s) \in D
  <2> HIDE DEF D
  <2> QED
    BY <1>1, <1>3, <1>4, NatSetInduction
<1>6. Upto(Len(s)) = p
  OBVIOUS
<1>7. Pick(s, S) = g[Len(s)]
  BY <1>2 DEF IsPickRun
<1>8. g[Len(s)] = [i \in 1..Upto(Len(s)) |-> s[i]]
  BY <1>1, <1>5
<1> QED
  BY <1>6, <1>7, <1>8

(***************************************************************************)
(* Layouts: positions, removals and insertions.                            *)
(***************************************************************************)

\* Some numbers from 1 on have a least.
LEMMA Least ==
  ASSUME NEW n \in Nat, NEW T \in SUBSET (1..n), T # {}
  PROVE  Min(T) \in T /\ \A k \in T : Min(T) <= k
<1> DEFINE U == {n + 1 - k : k \in T}
<1>1. U \in SUBSET (1..n) /\ U # {}
  <2>1. \A k \in T : n + 1 - k \in 1..n
    OBVIOUS
  <2> QED
    BY <2>1
<1>2. PICK m \in U : \A k \in U : k <= m
  <2> HIDE DEF U
  <2> QED
    BY <1>1, Greatest
<1>3. n + 1 - m \in T
  BY <1>2
<1>4. ASSUME NEW k \in T
      PROVE  n + 1 - m <= k
  <2>1. n + 1 - k \in U
    OBVIOUS
  <2> HIDE DEF U
  <2>2. m \in 1..n /\ n + 1 - k <= m
    BY <1>1, <1>2, <2>1
  <2> QED
    BY <2>2
<1> QED
  BY <1>3, <1>4 DEF Min

\* Position() finds the first occurrence.
LEMMA PositionFacts ==
  ASSUME NEW T, NEW s \in Seq(T), NEW k
  PROVE  /\ k \in ToSet(s) => Position(s, k) \in 1..Len(s) /\ s[Position(s, k)] = k
         /\ IsInjective(s) => \A i \in 1..Len(s) : s[i] = k => Position(s, k) = i
<1> DEFINE I == {i \in 1..Len(s) : s[i] = k}
<1>1. Position(s, k) = IF I # {} THEN Min(I) ELSE 0
  BY DEF Position, SelectInSeq
<1>2. I # {} => Min(I) \in I
  <2>1. Len(s) \in Nat /\ I \in SUBSET (1..Len(s))
    OBVIOUS
  <2> HIDE DEF I
  <2> QED
    BY <2>1, Least
<1>3. k \in ToSet(s) => I # {}
  BY Members
<1>4. ASSUME IsInjective(s), NEW i \in 1..Len(s), s[i] = k
      PROVE  Position(s, k) = i
  <2>1. I # {}
    BY <1>4
  <2>2. Min(I) \in 1..Len(s) /\ s[Min(I)] = k
    BY <1>2, <2>1
  <2> HIDE DEF I
  <2>3. Min(I) = i
    BY <1>4, <2>2 DEF IsInjective
  <2> QED
    BY <1>1, <2>1, <2>3
<1> QED
  BY <1>1, <1>2, <1>3, <1>4

\* A list without its p-th key.
LEMMA RemoveFacts ==
  ASSUME NEW T, NEW s \in Seq(T), IsInjective(s), NEW p \in 1..Len(s)
  PROVE  LET r == RemoveAt(s, p)
         IN  /\ r \in Seq(T) /\ Len(r) = Len(s) - 1
             /\ \A i \in 1..Len(r) : r[i] = IF i < p THEN s[i] ELSE s[i + 1]
             /\ IsInjective(r)
             /\ ToSet(r) = ToSet(s) \ {s[p]}
<1> DEFINE a == SubSeq(s, 1, p - 1)
           b == SubSeq(s, p + 1, Len(s))
           r == RemoveAt(s, p)
<1>1. a \in Seq(T) /\ Len(a) = p - 1 /\ \A i \in 1..(p - 1) : a[i] = s[i]
  OBVIOUS
<1>2. b \in Seq(T) /\ Len(b) = Len(s) - p /\ \A i \in 1..(Len(s) - p) : b[i] = s[p + i]
  OBVIOUS
<1>3. r = a \o b
  BY DEF RemoveAt
<1>4. r \in Seq(T) /\ Len(r) = Len(s) - 1
  <2> HIDE DEF a, b, r
  <2> QED
    BY <1>1, <1>2, <1>3
<1>5. \A i \in 1..Len(r) : r[i] = IF i < p THEN s[i] ELSE s[i + 1]
  <2> HIDE DEF a, b, r
  <2>1. \A i \in 1..(Len(a) + Len(b)) : (a \o b)[i] = IF i <= Len(a) THEN a[i] ELSE b[i - Len(a)]
    BY <1>1, <1>2
  <2> SUFFICES ASSUME NEW i \in 1..Len(r)
               PROVE  r[i] = IF i < p THEN s[i] ELSE s[i + 1]
    OBVIOUS
  <2>2. i \in 1..(Len(a) + Len(b))
    BY <1>1, <1>2, <1>4
  <2>3. r[i] = IF i <= Len(a) THEN a[i] ELSE b[i - Len(a)]
    BY <1>3, <2>1, <2>2
  <2>4. CASE i < p
    BY <1>1, <2>3, <2>4
  <2>5. CASE i >= p
    <3>1. i - (p - 1) \in 1..(Len(s) - p) /\ p + (i - (p - 1)) = i + 1
      BY <1>4, <2>5
    <3>2. b[i - (p - 1)] = s[i + 1]
      BY <1>2, <3>1
    <3> QED
      BY <1>1, <2>3, <2>5, <3>2
  <2> QED
    BY <2>4, <2>5
<1> HIDE DEF a, b, r
<1>6. \A i, j \in 1..Len(s) : s[i] = s[j] => i = j
  BY DEF IsInjective
<1>7. IsInjective(r)
  <2>1. DOMAIN r = 1..Len(r)
    BY <1>4
  <2>2. \A i, j \in 1..Len(r) : r[i] = r[j] => i = j
    BY <1>4, <1>5, <1>6
  <2> QED
    BY <2>1, <2>2 DEF IsInjective
<1>8. ToSet(r) = ToSet(s) \ {s[p]}
  <2>1. \A x : x \in ToSet(r) <=> \E i \in 1..Len(r) : r[i] = x
    BY <1>4, Members
  <2>2. \A x : x \in ToSet(s) <=> \E i \in 1..Len(s) : s[i] = x
    BY Members
  <2>3. ASSUME NEW x \in ToSet(r)
        PROVE  x \in ToSet(s) \ {s[p]}
    <3>1. PICK i \in 1..Len(r) : r[i] = x
      BY <2>1
    <3>2. CASE i < p
      <4>1. i \in 1..Len(s) /\ s[i] = x /\ i # p
        BY <1>4, <1>5, <3>1, <3>2
      <4> QED
        BY <1>6, <2>2, <4>1
    <3>3. CASE ~(i < p)
      <4>1. i + 1 \in 1..Len(s) /\ s[i + 1] = x /\ i + 1 # p
        BY <1>4, <1>5, <3>1, <3>3
      <4> QED
        BY <1>6, <2>2, <4>1
    <3> QED
      BY <3>2, <3>3
  <2>4. ASSUME NEW x \in ToSet(s) \ {s[p]}
        PROVE  x \in ToSet(r)
    <3>1. PICK i \in 1..Len(s) : s[i] = x
      BY <2>2
    <3>2. i # p
      BY <2>4, <3>1
    <3>3. CASE i < p
      <4>1. i \in 1..Len(r) /\ r[i] = x
        BY <1>4, <1>5, <3>1, <3>3
      <4> QED
        BY <2>1, <4>1
    <3>4. CASE i > p
      <4>1. i - 1 \in 1..Len(r) /\ r[i - 1] = x
        BY <1>4, <1>5, <3>1, <3>4
      <4> QED
        BY <2>1, <4>1
    <3> QED
      BY <3>2, <3>3, <3>4
  <2> QED
    BY <2>3, <2>4
<1> QED
  BY <1>4, <1>5, <1>7, <1>8 DEF r

\* A list with one more key, inserted at a position.
LEMMA InsertFacts ==
  ASSUME NEW T, NEW s \in Seq(T), IsInjective(s), NEW p \in 1..(Len(s) + 1),
         NEW k \in T, k \notin ToSet(s)
  PROVE  LET r == InsertAt(s, p, k)
         IN  /\ r \in Seq(T) /\ Len(r) = Len(s) + 1
             /\ \A i \in 1..Len(r) : r[i] = IF i < p THEN s[i] ELSE IF i = p THEN k ELSE s[i - 1]
             /\ IsInjective(r)
             /\ ToSet(r) = ToSet(s) \cup {k}
<1> DEFINE a == SubSeq(s, 1, p - 1)
           b == SubSeq(s, p, Len(s))
           r == InsertAt(s, p, k)
<1>1. a \in Seq(T) /\ Len(a) = p - 1 /\ \A i \in 1..(p - 1) : a[i] = s[i]
  OBVIOUS
<1>2. b \in Seq(T) /\ Len(b) = Len(s) - p + 1 /\ \A i \in 1..(Len(s) - p + 1) : b[i] = s[p + i - 1]
  OBVIOUS
<1> DEFINE c == a \o <<k>>
<1>3. c \in Seq(T) /\ Len(c) = p /\ c[p] = k /\ \A i \in 1..(p - 1) : c[i] = s[i]
  <2> HIDE DEF a, b, r
  <2> QED
    BY <1>1
<1>4. r = c \o b
  BY DEF InsertAt
<1> HIDE DEF a, b, c, r
<1>5. r \in Seq(T) /\ Len(r) = Len(s) + 1
  <2>1. c \o b \in Seq(T) /\ Len(c \o b) = Len(c) + Len(b)
    BY <1>2, <1>3, ConcatProperties
  <2>2. Len(s) \in Nat /\ p + (Len(s) - p + 1) = Len(s) + 1
    BY LenProperties
  <2> QED
    BY <1>2, <1>3, <1>4, <2>1, <2>2
<1>6. \A i \in 1..Len(r) : r[i] = IF i < p THEN s[i] ELSE IF i = p THEN k ELSE s[i - 1]
  <2> SUFFICES ASSUME NEW i \in 1..Len(r)
               PROVE  r[i] = IF i < p THEN s[i] ELSE IF i = p THEN k ELSE s[i - 1]
    OBVIOUS
  <2>1. i \in 1..(Len(c) + Len(b))
    BY <1>2, <1>3, <1>5
  <2>2. r[i] = IF i <= Len(c) THEN c[i] ELSE b[i - Len(c)]
    BY <1>2, <1>3, <1>4, <2>1
  <2>3. CASE i <= p
    BY <1>3, <2>2, <2>3
  <2>4. CASE i > p
    <3>1. i - p \in 1..(Len(s) - p + 1) /\ p + (i - p) - 1 = i - 1
      BY <1>5, <2>4
    <3>2. b[i - p] = s[i - 1]
      BY <1>2, <3>1
    <3> QED
      BY <1>3, <2>2, <2>4, <3>2
  <2> QED
    BY <2>3, <2>4
<1>7. \A i, j \in 1..Len(s) : s[i] = s[j] => i = j
  BY DEF IsInjective
<1>8. \A i \in 1..Len(s) : s[i] # k
  BY Members
<1>9. IsInjective(r)
  <2>1. DOMAIN r = 1..Len(r)
    BY <1>5
  <2>2. \A i, j \in 1..Len(r) : i < j => r[i] # r[j]
    <3> SUFFICES ASSUME NEW i \in 1..Len(r), NEW j \in 1..Len(r), i < j
                 PROVE  r[i] # r[j]
      OBVIOUS
    <3>1. CASE i < p /\ j < p
      <4>1. r[i] = s[i] /\ r[j] = s[j]
        BY <1>6, <3>1
      <4>2. i \in 1..Len(s) /\ j \in 1..Len(s) /\ i # j
        BY <1>5, <3>1
      <4> QED
        BY <1>7, <4>1, <4>2
    <3>2. CASE i < p /\ j = p
      BY <1>5, <1>6, <1>8, <3>2
    <3>3. CASE i < p /\ j > p
      <4>1. r[i] = s[i] /\ r[j] = s[j - 1] /\ i \in 1..Len(s) /\ j - 1 \in 1..Len(s) /\ i # j - 1
        BY <1>5, <1>6, <3>3
      <4> QED
        BY <1>7, <4>1
    <3>4. CASE i = p /\ j > p
      <4>1. r[i] = k /\ r[j] = s[j - 1] /\ j - 1 \in 1..Len(s)
        BY <1>5, <1>6, <3>4
      <4> QED
        BY <1>8, <4>1
    <3>5. CASE i > p /\ j > p
      <4>1. /\ r[i] = s[i - 1] /\ r[j] = s[j - 1] /\ i - 1 # j - 1
            /\ i - 1 \in 1..Len(s) /\ j - 1 \in 1..Len(s)
        BY <1>5, <1>6, <3>5
      <4> QED
        BY <1>7, <4>1
    <3> QED
      BY <3>1, <3>2, <3>3, <3>4, <3>5
  <2> QED
    BY <2>1, <2>2 DEF IsInjective
<1>10. ToSet(r) = ToSet(s) \cup {k}
  <2>1. \A x : x \in ToSet(r) <=> \E i \in 1..Len(r) : r[i] = x
    BY <1>5, Members
  <2>2. \A x : x \in ToSet(s) <=> \E i \in 1..Len(s) : s[i] = x
    BY Members
  <2>3. ASSUME NEW x \in ToSet(r)
        PROVE  x \in ToSet(s) \cup {k}
    <3>1. PICK i \in 1..Len(r) : r[i] = x
      BY <2>1
    <3>2. CASE i < p
      <4>1. i \in 1..Len(s) /\ s[i] = x
        BY <1>5, <1>6, <3>1, <3>2
      <4> QED
        BY <2>2, <4>1
    <3>3. CASE i = p
      BY <1>6, <3>1, <3>3
    <3>4. CASE i > p
      <4>1. i - 1 \in 1..Len(s) /\ s[i - 1] = x
        BY <1>5, <1>6, <3>1, <3>4
      <4> QED
        BY <2>2, <4>1
    <3> QED
      BY <3>2, <3>3, <3>4
  <2>4. ASSUME NEW x \in ToSet(s)
        PROVE  x \in ToSet(r)
    <3>1. PICK i \in 1..Len(s) : s[i] = x
      BY <2>2
    <3>2. CASE i < p
      <4>1. i \in 1..Len(r) /\ r[i] = x
        BY <1>5, <1>6, <3>1, <3>2
      <4> QED
        BY <2>1, <4>1
    <3>3. CASE i >= p
      <4>1. i + 1 \in 1..Len(r) /\ r[i + 1] = x
        BY <1>5, <1>6, <3>1, <3>3
      <4> QED
        BY <2>1, <4>1
    <3> QED
      BY <3>2, <3>3
  <2>5. k \in ToSet(r)
    <3>1. p \in 1..Len(r) /\ r[p] = k
      BY <1>5, <1>6
    <3> QED
      BY <2>1, <3>1
  <2> QED
    BY <2>3, <2>4, <2>5
<1> QED
  BY <1>5, <1>6, <1>9, <1>10 DEF r

\* A layout without a strip.
LEMMA WithoutFacts ==
  ASSUME NEW T, NEW s \in Seq(T), IsInjective(s), NEW k
  PROVE  /\ Without(s, k) \in Seq(T) /\ IsInjective(Without(s, k))
         /\ ToSet(Without(s, k)) = ToSet(s) \ {k}
         /\ \A p \in 1..Len(s) : s[p] = k => Without(s, k) = RemoveAt(s, p)
<1>1. CASE k \in ToSet(s)
  <2>1. Contains(s, k)
    BY <1>1, Members
  <2>2. Position(s, k) \in 1..Len(s) /\ s[Position(s, k)] = k
    BY <1>1, PositionFacts
  <2>3. Without(s, k) = RemoveAt(s, Position(s, k))
    BY <2>1 DEF Without
  <2>4. \A p \in 1..Len(s) : s[p] = k => Position(s, k) = p
    BY PositionFacts
  <2>5. /\ Without(s, k) \in Seq(T) /\ IsInjective(Without(s, k))
        /\ ToSet(Without(s, k)) = ToSet(s) \ {k}
    BY <2>2, <2>3, RemoveFacts
  <2> QED
    BY <2>3, <2>4, <2>5
<1>2. CASE k \notin ToSet(s)
  <2>1. ~Contains(s, k) /\ \A p \in 1..Len(s) : s[p] # k
    BY <1>2, Members
  <2>2. Without(s, k) = s
    BY <2>1 DEF Without
  <2> QED
    BY <1>2, <2>1, <2>2
<1> QED
  BY <1>1, <1>2

\* A move changes the order only.
LEMMA MoveFacts ==
  ASSUME NEW T, NEW s \in Seq(T), IsInjective(s),
         NEW k \in ToSet(s), NEW target \in ToSet(s), NEW before \in BOOLEAN
  PROVE  /\ Move(s, k, target, before) \in Seq(T) /\ IsInjective(Move(s, k, target, before))
         /\ ToSet(Move(s, k, target, before)) = ToSet(s)
<1>1. CASE k = target
  BY <1>1 DEF Move
<1>2. CASE k # target
  <2> DEFINE rest == Without(s, k)
             at == IF before THEN Position(rest, target) ELSE Position(rest, target) + 1
  <2>1. rest \in Seq(T) /\ IsInjective(rest) /\ ToSet(rest) = ToSet(s) \ {k}
    BY WithoutFacts
  <2> HIDE DEF rest
  <2>2. target \in ToSet(rest)
    BY <1>2, <2>1
  <2>3. Position(rest, target) \in 1..Len(rest)
    BY <2>1, <2>2, PositionFacts
  <2>4. at \in 1..(Len(rest) + 1)
    BY <2>1, <2>3
  <2>5. Move(s, k, target, before) = InsertAt(rest, at, k)
    BY <1>2 DEF Move, rest
  <2>6. k \in T /\ k \notin ToSet(rest)
    BY <2>1, Members
  <2> HIDE DEF at
  <2>7. /\ InsertAt(rest, at, k) \in Seq(T) /\ IsInjective(InsertAt(rest, at, k))
        /\ ToSet(InsertAt(rest, at, k)) = ToSet(rest) \cup {k}
    BY <2>1, <2>4, <2>6, InsertFacts
  <2> QED
    BY <2>1, <2>5, <2>7
<1> QED
  BY <1>1, <1>2

\* The layout after strip k was moved before the strip target.
Forward(s, k, target) == InsertAt(Without(s, k), Position(Without(s, k), target), k)

\* Moving a strip forward before the one at position q puts it there and leaves
\* the strips before q in place.
LEMMA MoveForward ==
  ASSUME NEW T, NEW s \in Seq(T), IsInjective(s),
         NEW p \in 1..Len(s), NEW q \in 1..Len(s), q < p,
         NEW k, k = s[p], NEW target, target = s[q], NEW r, r = Forward(s, k, target)
  PROVE  /\ k # target /\ r \in Seq(T) /\ IsInjective(r) /\ Len(r) = Len(s)
         /\ r[q] = k
         /\ \A i \in 1..(q - 1) : r[i] = s[i]
<1> DEFINE rest == Without(s, k)
<1>1. k # target
  BY DEF IsInjective
<1>2. /\ rest \in Seq(T) /\ IsInjective(rest) /\ ToSet(rest) = ToSet(s) \ {k}
      /\ rest = RemoveAt(s, p)
  BY WithoutFacts
<1>3. Len(rest) = Len(s) - 1 /\ \A i \in 1..Len(rest) : rest[i] = IF i < p THEN s[i] ELSE s[i + 1]
  BY <1>2, RemoveFacts
<1> HIDE DEF rest
<1>4. q \in 1..Len(rest) /\ rest[q] = target
  BY <1>3
<1>5. Position(rest, target) = q
  BY <1>2, <1>4, PositionFacts
<1>6. r = InsertAt(rest, q, k)
  BY <1>1, <1>5 DEF Forward, rest
<1>7. k \in T /\ k \notin ToSet(rest) /\ q \in 1..(Len(rest) + 1)
  BY <1>2, <1>4
<1>8. /\ r \in Seq(T) /\ Len(r) = Len(rest) + 1 /\ IsInjective(r)
      /\ \A i \in 1..Len(r) : r[i] = IF i < q THEN rest[i] ELSE IF i = q THEN k ELSE rest[i - 1]
  BY <1>2, <1>6, <1>7, InsertFacts
<1>9. Len(r) = Len(s) /\ r[q] = k
  <2>1. q \in 1..Len(r) /\ ~(q < q)
    BY <1>4, <1>8
  <2> QED
    BY <1>3, <1>8, <2>1
<1>10. \A i \in 1..(q - 1) : r[i] = s[i]
  <2> SUFFICES ASSUME NEW i \in 1..(q - 1)
               PROVE  r[i] = s[i]
    OBVIOUS
  <2>1. i \in 1..Len(rest) /\ i \in 1..Len(r) /\ i < q /\ i < p
    BY <1>3, <1>4, <1>8
  <2> QED
    BY <1>3, <1>8, <2>1
<1> QED
  BY <1>1, <1>8, <1>9, <1>10

\* A strip that is not there yet comes last.
LEMMA AddFacts ==
  ASSUME NEW T, NEW s \in Seq(T), IsInjective(s), NEW k \in T
  PROVE  /\ Add(s, k) \in Seq(T) /\ IsInjective(Add(s, k))
         /\ \A x : x \in ToSet(Add(s, k)) <=> x \in ToSet(s) \/ x = k
         /\ Len(Add(s, k)) >= Len(s) /\ \A i \in 1..Len(s) : Add(s, k)[i] = s[i]
         /\ k \in ToSet(s) => Add(s, k) = s
<1>1. Contains(s, k) <=> k \in ToSet(s)
  BY Members
<1>2. CASE k \in ToSet(s)
  BY <1>1, <1>2 DEF Add
<1>3. CASE k \notin ToSet(s)
  <2>1. Add(s, k) = Append(s, k)
    BY <1>1, <1>3 DEF Add
  <2> QED
    BY <1>3, <2>1, AppendFacts
<1> QED
  BY <1>2, <1>3

\* The layouts in which the first n keys of a list are in their places.
Placed(T, new, n, r) ==
    /\ r = [order |-> r.order, aborted |-> FALSE]
    /\ r.order \in Seq(T) /\ IsInjective(r.order)
    /\ n <= Len(r.order)
    /\ \A j \in 1..n : r.order[j] = new[j]

\* execute() finds each key at its place or behind it, and never aborts.
LEMMA PlaceFacts ==
  ASSUME NEW T, NEW new \in Seq(T), IsInjective(new), NEW i \in 1..Len(new),
         NEW r, Placed(T, new, i - 1, r)
  PROVE  Placed(T, new, i, Place(new, r, i))
<1> DEFINE o == r.order
           k == new[i]
           t == Add(o, k)
<1>1. /\ o \in Seq(T) /\ IsInjective(o) /\ i - 1 <= Len(o) /\ r.aborted = FALSE
      /\ \A j \in 1..(i - 1) : o[j] = new[j]
  BY DEF Placed
<1>2. k \in T /\ \A j \in 1..(i - 1) : new[j] # k
  BY DEF IsInjective
<1> HIDE DEF o, k
<1>3. /\ t \in Seq(T) /\ IsInjective(t) /\ k \in ToSet(t)
      /\ i - 1 <= Len(t) /\ \A j \in 1..(i - 1) : t[j] = new[j]
  <2>1. /\ t \in Seq(T) /\ IsInjective(t) /\ k \in ToSet(t)
        /\ Len(t) >= Len(o) /\ \A j \in 1..Len(o) : t[j] = o[j]
    <3>1. \A s \in Seq(T), e \in T : IsInjective(s) =>
             /\ Add(s, e) \in Seq(T) /\ IsInjective(Add(s, e)) /\ e \in ToSet(Add(s, e))
             /\ Len(Add(s, e)) >= Len(s) /\ \A j \in 1..Len(s) : Add(s, e)[j] = s[j]
      BY AddFacts
    <3> QED
      BY <1>1, <1>2, <3>1
  <2> HIDE DEF t
  <2> QED
    BY <1>1, <2>1
<1> HIDE DEF t
<1> DEFINE p == Position(t, k)
<1>4. p \in 1..Len(t) /\ t[p] = k
  BY <1>3, PositionFacts
<1> HIDE DEF p
<1>5. p >= i /\ i \in 1..Len(t)
  BY <1>2, <1>3, <1>4
<1>6. r = [order |-> o, aborted |-> FALSE]
  BY DEF Placed, o
<1>7. CASE p = i
  <2>1. Place(new, r, i) = [r EXCEPT !.order = t]
    BY <1>7 DEF Place, p, t, o, k
  <2>2. Place(new, r, i) = [order |-> t, aborted |-> FALSE]
    BY <1>6, <2>1
  <2>3. \A j \in 1..i : t[j] = new[j]
    BY <1>3, <1>4, <1>7 DEF k
  <2> QED
    BY <1>3, <1>5, <2>2, <2>3 DEF Placed
<1>8. CASE p # i
  <2> DEFINE m == Forward(t, k, t[i])
  <2>1. k # t[i] /\ m \in Seq(T) /\ IsInjective(m) /\ Len(m) = Len(t) /\ m[i] = k /\ \A j \in 1..(i - 1) : m[j] = t[j]
    <3>1. i < p
      BY <1>4, <1>5, <1>8
    <3> DEFINE x == t[i]
    <3>2. x = t[i] /\ m = Forward(t, k, x)
      OBVIOUS
    <3> HIDE DEF m, x
    <3>3. k # x /\ m \in Seq(T) /\ IsInjective(m) /\ Len(m) = Len(t) /\ m[i] = k /\ \A j \in 1..(i - 1) : m[j] = t[j]
      BY <1>3, <1>4, <1>5, <3>1, <3>2, MoveForward
    <3> QED
      BY <3>2, <3>3
  <2>2. Move(t, k, t[i], TRUE) = m
    BY <2>1 DEF Move, Forward
  <2>3. Place(new, r, i) = [r EXCEPT !.order = Move(t, k, t[i], TRUE)]
    BY <1>5, <1>8 DEF Place, p, t, o, k
  <2>4. Place(new, r, i) = [r EXCEPT !.order = m]
    BY <2>2, <2>3
  <2> HIDE DEF m
  <2>5. Place(new, r, i) = [order |-> m, aborted |-> FALSE]
    BY <1>6, <2>4
  <2>6. \A j \in 1..i : m[j] = new[j]
    BY <1>3, <2>1 DEF k
  <2> QED
    BY <1>5, <2>1, <2>5, <2>6 DEF Placed
<1> QED
  BY <1>7, <1>8

\* Whatever the layout was, it is the list received afterwards.
LEMMA ReconcileFacts ==
  ASSUME NEW T, NEW s \in Seq(T), IsInjective(s), NEW new \in Seq(T), IsInjective(new)
  PROVE  Reconcile(s, new) = [order |-> new, aborted |-> FALSE]
<1> DEFINE n == Len(new)
<1>1. n \in Nat /\ DOMAIN new = 1..n
  OBVIOUS
<1>2. PICK g : IsPlaceRun(g, s, new, n)
  BY <1>1, PlaceRun
<1> DEFINE D == {k \in Nat : k <= n => Placed(T, new, k, g[k])}
<1>3. 0 \in D
  <2>1. g[0] = [order |-> s, aborted |-> FALSE]
    BY <1>2 DEF IsPlaceRun
  <2>2. Placed(T, new, 0, [order |-> s, aborted |-> FALSE])
    BY DEF Placed
  <2> QED
    BY <2>1, <2>2
<1>4. ASSUME NEW k \in Nat, k \in D
      PROVE  k + 1 \in D
  <2> SUFFICES ASSUME k + 1 <= n
               PROVE  Placed(T, new, k + 1, g[k + 1])
    OBVIOUS
  <2>1. k + 1 \in 1..n /\ (k + 1) - 1 = k
    OBVIOUS
  <2>2. Placed(T, new, (k + 1) - 1, g[k])
    BY <1>4, <2>1
  <2>3. g[k + 1] = Place(new, g[k], k + 1)
    BY <1>2, <2>1 DEF IsPlaceRun
  <2> QED
    BY <2>1, <2>2, <2>3, PlaceFacts
<1>5. n \in D
  <2> HIDE DEF D, n
  <2> QED
    BY <1>1, <1>3, <1>4, NatSetInduction
<1> DEFINE o == PlaceAll(s, new).order
<1>6. Placed(T, new, n, PlaceAll(s, new))
  BY <1>1, <1>2, <1>5 DEF IsPlaceRun
<1>7. /\ PlaceAll(s, new) = [order |-> o, aborted |-> FALSE]
      /\ o \in Seq(T) /\ IsInjective(o) /\ n <= Len(o)
      /\ \A j \in 1..n : o[j] = new[j]
  BY <1>6 DEF Placed
<1>8. Reconcile(s, new) = [order |-> Pick(o, ToSet(new)), aborted |-> FALSE]
  <2> DEFINE r == PlaceAll(s, new)
  <2>1. Reconcile(s, new) = [r EXCEPT !.order = Pick(o, ToSet(new))]
    BY DEF Reconcile
  <2>2. r = [order |-> o, aborted |-> FALSE]
    BY <1>7
  <2> HIDE DEF n, r, o
  <2> QED
    BY <2>1, <2>2
<1> HIDE DEF o
<1>9. \A j \in 1..Len(o) : o[j] \in ToSet(new) <=> j <= n
  <2>1. \A x : x \in ToSet(new) <=> \E i \in 1..n : new[i] = x
    BY Members
  <2>2. \A i, j \in 1..Len(o) : o[i] = o[j] => i = j
    BY <1>7 DEF IsInjective
  <2>3. ASSUME NEW j \in 1..Len(o), o[j] \in ToSet(new)
        PROVE  j <= n
    <3>1. PICK i \in 1..n : new[i] = o[j]
      BY <2>1, <2>3
    <3>2. i \in 1..Len(o) /\ o[i] = o[j]
      BY <1>7, <3>1
    <3> QED
      BY <2>2, <3>1, <3>2
  <2>4. ASSUME NEW j \in 1..Len(o), j <= n
        PROVE  o[j] \in ToSet(new)
    <3>1. j \in 1..n
      BY <2>4
    <3> QED
      BY <1>7, <2>1, <3>1
  <2> QED
    BY <2>3, <2>4
<1>10. Pick(o, ToSet(new)) = [i \in 1..n |-> o[i]]
  <2>1. n \in 0..Len(o)
    BY <1>1, <1>7
  <2> HIDE DEF n
  <2> QED
    BY <1>7, <1>9, <2>1, PickFirst
<1>11. [i \in 1..n |-> o[i]] = new
  BY <1>7
<1> QED
  BY <1>8, <1>10, <1>11

(***************************************************************************)
(* Messages: in a queue only the last list of keys, and what follows it,   *)
(* need tell what the server has.                                          *)
(***************************************************************************)

\* The messages of a queue tell what array a is, as far as they are the newest.
Telling(s, a) ==
    \A i \in DOMAIN s :
        /\ s[i].type = "keys" => IsInjective(s[i].keys)
        /\ Newest(s, i) => Tells(s[i], a)

\* What an operation r of array a broadcasts tells what the array is afterwards;
\* with no list among it the array has the same keys as before.
Announced(a, r) ==
    /\ ArrayOK(r.arr)
    /\ r.sent \in Seq(Message) /\ Telling(r.sent, r.arr)
    /\ NoKeys(r.sent) => r.arr.keys = a.keys /\ r.arr.value = a.value

\* The messages of one queue after another.
LEMMA ConcatFacts ==
  ASSUME NEW T, NEW u \in Seq(T), NEW v \in Seq(T)
  PROVE  /\ u \o v \in Seq(T) /\ Len(u \o v) = Len(u) + Len(v)
         /\ \A i \in 1..Len(u) : (u \o v)[i] = u[i]
         /\ \A i \in 1..Len(v) : (u \o v)[Len(u) + i] = v[i]
         /\ NoKeys(u \o v) <=> NoKeys(u) /\ NoKeys(v)
         /\ \A i \in 1..Len(u) : Newest(u \o v, i) <=> Newest(u, i) /\ NoKeys(v)
         /\ \A i \in 1..Len(v) : Newest(u \o v, Len(u) + i) <=> Newest(v, i)
<1> DEFINE w == u \o v
<1>1. /\ w \in Seq(T) /\ Len(w) = Len(u) + Len(v)
      /\ \A i \in 1..Len(u) : w[i] = u[i]
      /\ \A i \in 1..Len(v) : w[Len(u) + i] = v[i]
  OBVIOUS
<1> HIDE DEF w
<1>2. /\ DOMAIN u = 1..Len(u) /\ DOMAIN v = 1..Len(v) /\ DOMAIN w = 1..(Len(u) + Len(v))
      /\ Len(u) \in Nat /\ Len(v) \in Nat
  BY <1>1
<1>3. /\ \A i \in 1..Len(u) : i \in DOMAIN w
      /\ \A i \in 1..Len(v) : Len(u) + i \in DOMAIN w
      /\ \A i \in DOMAIN w : i \in 1..Len(u) \/ (i - Len(u) \in 1..Len(v) /\ Len(u) + (i - Len(u)) = i)
  BY <1>2
<1>4. NoKeys(w) <=> NoKeys(u) /\ NoKeys(v)
  <2>1. ASSUME NoKeys(w)
        PROVE  NoKeys(u) /\ NoKeys(v)
    BY <1>1, <1>2, <1>3, <2>1 DEF NoKeys
  <2>2. ASSUME NoKeys(u), NoKeys(v)
        PROVE  NoKeys(w)
    BY <1>1, <1>2, <1>3, <2>2 DEF NoKeys
  <2> QED
    BY <2>1, <2>2
<1>5. ASSUME NEW i \in 1..Len(u)
      PROVE  Newest(w, i) <=> Newest(u, i) /\ NoKeys(v)
  <2>1. ASSUME Newest(w, i)
        PROVE  Newest(u, i) /\ NoKeys(v)
    <3>1. \A j \in DOMAIN v : Len(u) + j > i
      BY <1>2
    <3> QED
      BY <1>1, <1>2, <1>3, <2>1, <3>1 DEF NoKeys, Newest
  <2>2. ASSUME Newest(u, i), NoKeys(v)
        PROVE  Newest(w, i)
    BY <1>1, <1>2, <1>3, <2>2 DEF NoKeys, Newest
  <2> QED
    BY <2>1, <2>2
<1>6. ASSUME NEW i \in 1..Len(v)
      PROVE  Newest(w, Len(u) + i) <=> Newest(v, i)
  <2>1. ASSUME Newest(w, Len(u) + i)
        PROVE  Newest(v, i)
    <3>1. \A j \in DOMAIN v : j > i => Len(u) + j > Len(u) + i
      BY <1>2
    <3> QED
      BY <1>1, <1>2, <1>3, <2>1, <3>1 DEF Newest
  <2>2. ASSUME Newest(v, i), NEW j \in DOMAIN w, j > Len(u) + i
        PROVE  w[j].type # "keys"
    <3>1. j - Len(u) \in DOMAIN v /\ j - Len(u) > i /\ Len(u) + (j - Len(u)) = j
      BY <1>2, <1>3, <2>2
    <3>2. w[j] = v[j - Len(u)]
      BY <1>1, <1>2, <3>1
    <3> QED
      BY <2>2, <3>1, <3>2 DEF Newest
  <2> QED
    BY <2>1, <2>2 DEF Newest
<1> QED
  BY <1>1, <1>4, <1>5, <1>6 DEF w

\* What was told stays true while it is the newest, and what is announced is told.
LEMMA ConcatTelling ==
  ASSUME NEW T, NEW u \in Seq(T), NEW v \in Seq(T), NEW a, NEW b,
         Telling(u, a), Telling(v, b),
         NoKeys(v) => b.keys = a.keys /\ b.value = a.value
  PROVE  Telling(u \o v, b)
<1> DEFINE w == u \o v
<1>1. /\ w \in Seq(T) /\ Len(w) = Len(u) + Len(v)
      /\ \A i \in 1..Len(u) : w[i] = u[i]
      /\ \A i \in 1..Len(v) : w[Len(u) + i] = v[i]
      /\ \A i \in 1..Len(u) : Newest(w, i) <=> Newest(u, i) /\ NoKeys(v)
      /\ \A i \in 1..Len(v) : Newest(w, Len(u) + i) <=> Newest(v, i)
  BY ConcatFacts
<1> HIDE DEF w
<1>2. DOMAIN u = 1..Len(u) /\ DOMAIN v = 1..Len(v) /\ DOMAIN w = 1..(Len(u) + Len(v))
  BY <1>1
<1> SUFFICES ASSUME NEW i \in DOMAIN w
             PROVE  /\ w[i].type = "keys" => IsInjective(w[i].keys)
                    /\ Newest(w, i) => Tells(w[i], b)
  BY DEF Telling, w
<1>3. CASE i \in 1..Len(u)
  <2>1. i \in DOMAIN u /\ w[i] = u[i]
    BY <1>1, <1>2, <1>3
  <2>2. /\ u[i].type = "keys" => IsInjective(u[i].keys)
        /\ Newest(u, i) => Tells(u[i], a)
    BY <2>1 DEF Telling
  <2>3. ASSUME Newest(w, i)
        PROVE  Tells(u[i], b)
    <3>1. Newest(u, i) /\ NoKeys(v)
      BY <1>1, <1>3, <2>3
    <3> QED
      BY <2>2, <3>1 DEF Tells
  <2> QED
    BY <2>1, <2>2, <2>3
<1>4. CASE i \notin 1..Len(u)
  <2> DEFINE j == i - Len(u)
  <2>1. j \in 1..Len(v) /\ Len(u) + j = i
    BY <1>2, <1>4
  <2> HIDE DEF j
  <2>2. j \in DOMAIN v /\ w[i] = v[j] /\ (Newest(w, i) <=> Newest(v, j))
    BY <1>1, <1>2, <2>1
  <2>3. /\ v[j].type = "keys" => IsInjective(v[j].keys)
        /\ Newest(v, j) => Tells(v[j], b)
    BY <2>2 DEF Telling
  <2> QED
    BY <2>2, <2>3
<1> QED
  BY <1>3, <1>4

\* One message.
LEMMA OneMessage ==
  /\ \A k \in Key : /\ Item(k) \in Message /\ NoKeys(<<Item(k)>>)
                    /\ \A a : k \in a.value => Telling(<<Item(k)>>, a)
  /\ \A s \in Seq(Key) : /\ Keys(s) \in Message /\ ~NoKeys(<<Keys(s)>>)
                         /\ IsInjective(s) => \A a : a.keys = s => Telling(<<Keys(s)>>, a)
<1>1. ASSUME NEW k \in Key
      PROVE  /\ Item(k) \in Message /\ NoKeys(<<Item(k)>>)
             /\ \A a : k \in a.value => Telling(<<Item(k)>>, a)
  BY DEF Item, Message, NoKeys, Telling, Tells
<1>2. ASSUME NEW s \in Seq(Key)
      PROVE  /\ Keys(s) \in Message /\ ~NoKeys(<<Keys(s)>>)
             /\ IsInjective(s) => \A a : a.keys = s => Telling(<<Keys(s)>>, a)
  BY DEF Keys, Message, NoKeys, Telling, Tells
<1> QED
  BY <1>1, <1>2

\* Only messages about strips.
LEMMA Items ==
  ASSUME NEW s \in Seq(Key)
  PROVE  LET m == [i \in DOMAIN s |-> Item(s[i])]
         IN  /\ m \in Seq(Message) /\ NoKeys(m)
             /\ \A a : ToSet(s) \subseteq a.value => Telling(m, a)
<1> DEFINE m == [i \in DOMAIN s |-> Item(s[i])]
<1>1. Len(s) \in Nat /\ DOMAIN s = 1..Len(s) /\ \A i \in DOMAIN s : s[i] \in Key
  OBVIOUS
<1>2. m \in Seq(Message)
  <2>1. \A i \in DOMAIN s : m[i] \in Message
    BY <1>1, OneMessage
  <2>2. DOMAIN m = 1..Len(s) /\ m = [i \in DOMAIN m |-> m[i]]
    BY <1>1
  <2> HIDE DEF m
  <2> QED
    BY <1>1, <2>1, <2>2
<1>3. NoKeys(m)
  BY DEF NoKeys, Item
<1>4. ASSUME NEW a, ToSet(s) \subseteq a.value
      PROVE  Telling(m, a)
  <2>1. \A i \in DOMAIN s : s[i] \in a.value
    BY <1>4 DEF ToSet
  <2> QED
    BY <2>1 DEF Telling, Tells, Item
<1> QED
  BY <1>2, <1>3, <1>4

(***************************************************************************)
(* The server's array.                                                     *)
(***************************************************************************)

\* The key after a set of keys.
LEMMA KeyBounds ==
  ASSUME NEW T \in SUBSET Key
  PROVE  /\ KeyAfter(T) \in 0..(MaxKey + 1)
         /\ \A next \in 0..(MaxKey + 1) :
               LET m == Max({next} \cup {k + 1 : k \in T})
               IN  /\ m \in 0..(MaxKey + 1) /\ next <= m
                   /\ \A k \in T : k < m
<1>1. MaxKey \in Nat /\ Key = 0..MaxKey
  BY StripListAssumption DEF Key
<1>2. ASSUME NEW U \in SUBSET (0..(MaxKey + 1)), U # {}
      PROVE  Max(U) \in U /\ \A k \in U : Max(U) >= k
  <2> DEFINE V == {k + 1 : k \in U}
  <2>1. V \in SUBSET (1..(MaxKey + 2))
    BY <1>1
  <2>2. V # {} /\ MaxKey + 2 \in Nat
    <3>1. PICK u \in U : u + 1 \in V
      BY <1>2
    <3> QED
      BY <1>1, <3>1
  <2>3. PICK m \in V : \A k \in V : k <= m
    <3> HIDE DEF V
    <3> QED
      BY <2>1, <2>2, Greatest
  <2>4. PICK x \in U : m = x + 1
    BY <2>3
  <2>5. \A k \in U : x >= k
    <3> SUFFICES ASSUME NEW k \in U
                 PROVE  x >= k
      OBVIOUS
    <3>1. k + 1 \in V
      OBVIOUS
    <3>2. k + 1 <= x + 1
      BY <2>3, <2>4, <3>1
    <3>3. k \in 0..(MaxKey + 1) /\ x \in 0..(MaxKey + 1)
      OBVIOUS
    <3> QED
      BY <1>1, <3>2, <3>3
  <2> QED
    BY <2>5 DEF Max
<1>3. KeyAfter(T) \in 0..(MaxKey + 1)
  <2>1. CASE T = {}
    BY <1>1, <2>1 DEF KeyAfter
  <2>2. CASE T # {}
    <3>1. T \in SUBSET (0..(MaxKey + 1))
      BY <1>1
    <3>2. Max(T) \in T
      BY <1>2, <2>2, <3>1
    <3>3. Max(T) \in 0..MaxKey
      BY <1>1, <3>2
    <3> QED
      BY <1>1, <2>2, <3>3 DEF KeyAfter
  <2> QED
    BY <2>1, <2>2
<1>4. ASSUME NEW next \in 0..(MaxKey + 1)
      PROVE  LET m == Max({next} \cup {k + 1 : k \in T})
             IN  /\ m \in 0..(MaxKey + 1) /\ next <= m
                 /\ \A k \in T : k < m
  <2> DEFINE U == {next} \cup {k + 1 : k \in T}
             m == Max(U)
  <2>1. U \in SUBSET (0..(MaxKey + 1))
    BY <1>1
  <2>2. next \in U /\ \A k \in T : k + 1 \in U
    OBVIOUS
  <2>3. U # {}
    BY <2>2
  <2>4. m \in U /\ \A k \in U : m >= k
    <3> HIDE DEF U
    <3> QED
      BY <1>2, <2>1, <2>3
  <2>5. m \in 0..(MaxKey + 1)
    <3> HIDE DEF U, m
    <3> QED
      BY <2>1, <2>4
  <2>6. next <= m
    <3> HIDE DEF U, m
    <3> QED
      BY <2>2, <2>4, <2>5
  <2>7. ASSUME NEW k \in T
        PROVE  k < m
    <3>1. m >= k + 1
      <4> HIDE DEF U, m
      <4> QED
        BY <2>2, <2>4
    <3>2. k \in 0..MaxKey
      BY <1>1
    <3> HIDE DEF U, m
    <3> QED
      BY <1>1, <2>5, <3>1, <3>2
  <2> QED
    BY <2>5, <2>6, <2>7
<1> QED
  BY <1>3, <1>4

\* A list that is adopted is announced without duplicates; one that is not changes nothing.
LEMMA SetKeysFacts ==
  ASSUME NEW a, ArrayOK(a), NEW new \in Seq(Key)
  PROVE  /\ Announced(a, SetKeys(a, new)) /\ SetKeys(a, new).arr.value = ToSet(new)
         /\ NoKeys(SetKeys(a, new).sent) => new = a.keys
<1>1. CASE new = a.keys
  <2>1. SetKeys(a, new) = [arr |-> a, sent |-> <<>>]
    BY <1>1 DEF SetKeys, Outcome
  <2>2. <<>> \in Seq(Message) /\ Telling(<<>>, a)
    BY DEF Telling
  <2>3. a.value = ToSet(new)
    BY <1>1 DEF ArrayOK
  <2> QED
    BY <1>1, <2>1, <2>2, <2>3 DEF Announced
<1>2. CASE new # a.keys
  <2> DEFINE kept    == Dedupe(new)
             value   == ToSet(kept)
             created == Pick(kept, value \ a.value)
             items   == [i \in DOMAIN created |-> Item(created[i])]
             mid     == IF kept = new THEN <<>> ELSE <<Keys(kept)>>
             array     == [keys |-> kept, value |-> value,
                         nextKey |-> IF a.value \ value = {} THEN a.nextKey ELSE KeyAfter(value)]
  <2>1. kept \in Seq(Key) /\ IsInjective(kept) /\ ToSet(kept) = ToSet(new)
    <3>1. Dedupe(new) = Pick(new, ToSet(new))
      BY DEF Dedupe
    <3> DEFINE S == ToSet(new)
    <3> HIDE DEF S
    <3>2. Pick(new, S) \in Seq(Key) /\ IsInjective(Pick(new, S)) /\ ToSet(Pick(new, S)) = S \cap ToSet(new)
      BY PickFacts
    <3> QED
      BY <3>1, <3>2 DEF S
  <2>2. SetKeys(a, new) = [arr |-> array, sent |-> items \o mid \o <<Keys(kept)>>]
    BY <1>2 DEF SetKeys, Outcome
  <2> HIDE DEF kept
  <2>3. created \in Seq(Key)
    BY <2>1, PickFacts
  <2> HIDE DEF created
  <2>4. items \in Seq(Message)
    BY <2>3, Items
  <2>5. mid \in Seq(Message) /\ <<Keys(kept)>> \in Seq(Message)
    <3>1. Keys(kept) \in Message
      BY <2>1, OneMessage
    <3> QED
      BY <3>1
  <2>6. value \in SUBSET Key
    BY <2>1, Members
  <2>7. array.nextKey \in 0..(MaxKey + 1)
    <3>1. a.nextKey \in 0..(MaxKey + 1)
      BY DEF ArrayOK
    <3>2. KeyAfter(value) \in 0..(MaxKey + 1)
      BY <2>6, KeyBounds
    <3> QED
      BY <3>1, <3>2
  <2>8. array.keys = kept /\ array.value = value /\ array = [keys |-> array.keys, value |-> array.value, nextKey |-> array.nextKey]
    OBVIOUS
  <2>9. ArrayOK(array)
    <3> HIDE DEF array
    <3> QED
      BY <2>1, <2>7, <2>8 DEF ArrayOK
  <2>10. Telling(<<Keys(kept)>>, array) /\ ~NoKeys(<<Keys(kept)>>)
    <3> HIDE DEF array
    <3> QED
      BY <2>1, <2>8, OneMessage
  <2> DEFINE front == items \o mid
             sent  == front \o <<Keys(kept)>>
  <2>11. front \in Seq(Message)
    <3> HIDE DEF items, mid
    <3> QED
      BY <2>4, <2>5
  <2>12. \A i \in DOMAIN front : front[i].type = "keys" => IsInjective(front[i].keys)
    <3>1. \A i \in DOMAIN items : items[i].type # "keys"
      BY DEF Item
    <3>2. \A i \in DOMAIN mid : mid[i] = Keys(kept)
      OBVIOUS
    <3>3. Keys(kept).keys = kept
      BY DEF Keys
    <3>4. DOMAIN items = 1..Len(items) /\ DOMAIN mid = 1..Len(mid) /\ Len(items) \in Nat /\ Len(mid) \in Nat
      <4> HIDE DEF items, mid
      <4> QED
        BY <2>4, <2>5
    <3> HIDE DEF items, mid
    <3>5. /\ Len(front) = Len(items) + Len(mid)
          /\ \A i \in 1..Len(items) : front[i] = items[i]
          /\ \A i \in 1..Len(mid) : front[Len(items) + i] = mid[i]
      BY <2>4, <2>5, ConcatFacts
    <3>6. DOMAIN front = 1..(Len(items) + Len(mid))
      BY <2>11, <3>5
    <3> HIDE DEF front
    <3>7. \A i \in DOMAIN front : i \in 1..Len(items) \/ (i - Len(items) \in 1..Len(mid) /\ Len(items) + (i - Len(items)) = i)
      BY <3>4, <3>6
    <3>8. \A i \in DOMAIN front : front[i].type = "keys" => front[i] = Keys(kept)
      BY <3>1, <3>2, <3>4, <3>5, <3>7
    <3> QED
      BY <2>1, <3>3, <3>8
  <2> HIDE DEF front, items, mid, array
  <2>13. /\ sent \in Seq(Message) /\ Len(sent) = Len(front) + 1
         /\ ~NoKeys(sent)
         /\ \A i \in 1..Len(front) : sent[i] = front[i] /\ ~Newest(sent, i)
         /\ sent[Len(front) + 1] = Keys(kept)
    <3> DEFINE last == <<Keys(kept)>>
    <3>1. last \in Seq(Message) /\ ~NoKeys(last) /\ Keys(kept) \in Message
      BY <2>1, <2>5, <2>10, OneMessage
    <3>2. sent = front \o last
      OBVIOUS
    <3> HIDE DEF last, sent
    <3>3. \A u, v \in Seq(Message) :
             /\ NoKeys(u \o v) <=> NoKeys(u) /\ NoKeys(v)
             /\ \A i \in 1..Len(u) : Newest(u \o v, i) <=> Newest(u, i) /\ NoKeys(v)
      BY ConcatFacts
    <3>4. sent = Append(front, Keys(kept))
      BY <2>11 DEF sent, last
    <3>5. /\ sent \in Seq(Message) /\ Len(sent) = Len(front) + 1
          /\ \A i \in 1..Len(front) : sent[i] = front[i]
          /\ sent[Len(front) + 1] = Keys(kept)
      BY <2>11, <3>1, <3>4, AppendFacts
    <3>6. NoKeys(sent) <=> NoKeys(front) /\ NoKeys(last)
      BY <2>11, <3>1, <3>2, <3>3
    <3>7. \A i \in 1..Len(front) : Newest(sent, i) <=> Newest(front, i) /\ NoKeys(last)
      BY <2>11, <3>1, <3>2, <3>3
    <3> QED
      BY <3>1, <3>5, <3>6, <3>7
  <2> HIDE DEF sent
  <2>14. Telling(sent, array)
    <3> SUFFICES ASSUME NEW i \in DOMAIN sent
                 PROVE  /\ sent[i].type = "keys" => IsInjective(sent[i].keys)
                        /\ Newest(sent, i) => Tells(sent[i], array)
      BY DEF Telling
    <3>1. i \in 1..Len(front) \/ i = Len(front) + 1
      BY <2>11, <2>13
    <3>2. CASE i \in 1..Len(front)
      <4>1. i \in DOMAIN front
        BY <2>11, <3>2
      <4> QED
        BY <2>12, <2>13, <3>2, <4>1
    <3>3. CASE i = Len(front) + 1
      <4>1. sent[i] = Keys(kept) /\ Keys(kept).type = "keys" /\ Keys(kept).keys = kept
        BY <2>13, <3>3 DEF Keys
      <4> QED
        BY <2>1, <2>8, <4>1 DEF Tells
    <3> QED
      BY <3>1, <3>2, <3>3
  <2>15. SetKeys(a, new) = [arr |-> array, sent |-> sent]
    BY <2>2 DEF sent, front
  <2> QED
    BY <2>1, <2>8, <2>9, <2>13, <2>14, <2>15 DEF Announced
<1> QED
  BY <1>1, <1>2

\* Addressing an item makes it exist.
LEMMA AccessFacts ==
  ASSUME NEW a, ArrayOK(a), NEW k \in Key
  PROVE  Announced(a, Access(a, k)) /\ k \in Access(a, k).arr.value
<1>1. CASE k \in a.value
  <2>1. Access(a, k) = [arr |-> a, sent |-> <<>>]
    BY <1>1 DEF Access, Outcome
  <2>2. <<>> \in Seq(Message) /\ Telling(<<>>, a)
    BY DEF Telling
  <2> QED
    BY <1>1, <2>1, <2>2 DEF Announced
<1>2. CASE k \notin a.value
  <2> DEFINE b == [a EXCEPT !.nextKey = IF @ <= k THEN k + 1 ELSE @]
             new == Append(a.keys, k)
  <2>1. Access(a, k) = SetKeys(b, new)
    BY <1>2 DEF Access, Insert
  <2>2. a = [keys |-> a.keys, value |-> a.value, nextKey |-> a.nextKey]
    BY DEF ArrayOK
  <2>3. /\ b.keys = a.keys /\ b.value = a.value /\ b.nextKey = IF a.nextKey <= k THEN k + 1 ELSE a.nextKey
        /\ b = [keys |-> b.keys, value |-> b.value, nextKey |-> b.nextKey]
    BY <2>2
  <2>4. ArrayOK(b)
    <3>1. MaxKey \in Nat /\ k \in 0..MaxKey
      BY StripListAssumption DEF Key
    <3>2. a.nextKey \in 0..(MaxKey + 1)
      BY DEF ArrayOK
    <3>3. b.nextKey \in 0..(MaxKey + 1)
      <4> HIDE DEF b
      <4> QED
        BY <2>3, <3>1, <3>2
    <3> HIDE DEF b
    <3> QED
      BY <2>3, <3>3 DEF ArrayOK
  <2>5. new \in Seq(Key) /\ k \in ToSet(new)
    <3>1. a.keys \in Seq(Key)
      BY DEF ArrayOK
    <3>2. Append(a.keys, k) \in Seq(Key) /\ ToSet(Append(a.keys, k)) = ToSet(a.keys) \cup {k}
      BY <3>1, AppendFacts
    <3> QED
      BY <3>2
  <2> HIDE DEF b, new
  <2>6. Announced(b, SetKeys(b, new)) /\ SetKeys(b, new).arr.value = ToSet(new)
    BY <2>4, <2>5, SetKeysFacts
  <2> QED
    BY <2>1, <2>3, <2>5, <2>6 DEF Announced
<1> QED
  BY <1>1, <1>2

\* The value of a strip that exists may follow what is announced.
LEMMA ThenItem ==
  ASSUME NEW a, NEW r, Announced(a, r), NEW k \in Key, k \in r.arr.value
  PROVE  Announced(a, [arr |-> r.arr, sent |-> Append(r.sent, Item(k))])
<1> DEFINE s == r.sent
           v == <<Item(k)>>
           q == Append(s, Item(k))
<1>1. s \in Seq(Message) /\ Telling(s, r.arr) /\ ArrayOK(r.arr)
  BY DEF Announced
<1>2. v \in Seq(Message) /\ NoKeys(v) /\ Telling(v, r.arr)
  BY OneMessage
<1> HIDE DEF s
<1>3. Append(s, Item(k)) = s \o v
  BY <1>1
<1> HIDE DEF v
<1>4. s \o v \in Seq(Message) /\ (NoKeys(s \o v) <=> NoKeys(s) /\ NoKeys(v))
  BY <1>1, <1>2, ConcatFacts
<1>5. Telling(s \o v, r.arr)
  BY <1>1, <1>2, ConcatTelling
<1>6. q \in Seq(Message) /\ Telling(q, r.arr) /\ (NoKeys(q) <=> NoKeys(s))
  BY <1>2, <1>3, <1>4, <1>5
<1> HIDE DEF q
<1>7. Announced(a, [arr |-> r.arr, sent |-> q])
  BY <1>1, <1>6 DEF Announced, s
<1> QED
  BY <1>7 DEF q, s

\* All values are an announcement of what there is.
LEMMA DumpFacts ==
  ASSUME NEW a, ArrayOK(a)
  PROVE  Announced(a, [arr |-> a, sent |-> DumpOf(a)]) /\ ~NoKeys(DumpOf(a))
<1> DEFINE all == [i \in 1..(MaxKey + 1) |-> i - 1]
           numbered == Pick(all, a.value)
           items == [i \in DOMAIN numbered |-> Item(numbered[i])]
           head == <<Keys(a.keys)>>
<1>1. a.keys \in Seq(Key) /\ IsInjective(a.keys)
  BY DEF ArrayOK
<1>2. all \in Seq(Key)
  <2>1. MaxKey + 1 \in Nat /\ \A i \in 1..(MaxKey + 1) : i - 1 \in Key
    BY StripListAssumption DEF Key
  <2> QED
    BY <2>1
<1>3. numbered \in Seq(Key) /\ ToSet(numbered) \subseteq a.value
  <2> HIDE DEF all
  <2>1. numbered \in Seq(Key) /\ ToSet(numbered) = a.value \cap ToSet(all)
    BY <1>2, PickFacts
  <2> QED
    BY <2>1
<1>4. DumpOf(a) = head \o items
  BY DEF DumpOf
<1> HIDE DEF numbered
<1>5. items \in Seq(Message) /\ NoKeys(items) /\ Telling(items, a)
  BY <1>3, Items
<1>6. head \in Seq(Message) /\ ~NoKeys(head) /\ Telling(head, a)
  BY <1>1, OneMessage
<1> HIDE DEF items, head
<1>7. head \o items \in Seq(Message) /\ ~NoKeys(head \o items)
  BY <1>5, <1>6, ConcatFacts
<1>8. Telling(head \o items, a)
  BY <1>5, <1>6, ConcatTelling
<1> QED
  BY <1>4, <1>7, <1>8 DEF Announced

(***************************************************************************)
(* The steps of the server.                                                *)
(***************************************************************************)

\* The rest of a queue.
LEMMA TailFacts ==
  ASSUME NEW T, NEW s \in Seq(T), s # <<>>
  PROVE  /\ Head(s) \in T /\ Head(s) = s[1] /\ 1 \in DOMAIN s
         /\ Tail(s) \in Seq(T)
         /\ \A i \in DOMAIN s : i = 1 \/ (i - 1 \in DOMAIN Tail(s) /\ Tail(s)[i - 1] = s[i])
         /\ \A i \in DOMAIN Tail(s) : i + 1 \in DOMAIN s /\ Tail(s)[i] = s[i + 1]
         /\ \A i \in DOMAIN Tail(s) : Newest(Tail(s), i) <=> Newest(s, i + 1)
<1> DEFINE t == Tail(s)
<1>1. /\ Head(s) \in T /\ Head(s) = s[1] /\ 1 \in DOMAIN s
      /\ t \in Seq(T) /\ Len(t) = Len(s) - 1 /\ \A i \in 1..Len(t) : t[i] = s[i + 1]
      /\ Len(s) \in Nat
  OBVIOUS
<1> HIDE DEF t
<1>2. DOMAIN s = 1..Len(s) /\ DOMAIN t = 1..(Len(s) - 1)
  BY <1>1
<1>3. \A i \in DOMAIN s : i = 1 \/ (i - 1 \in DOMAIN t /\ t[i - 1] = s[i])
  <2> SUFFICES ASSUME NEW i \in DOMAIN s, i # 1
               PROVE  i - 1 \in DOMAIN t /\ t[i - 1] = s[i]
    OBVIOUS
  <2>1. i - 1 \in DOMAIN t /\ (i - 1) + 1 = i
    BY <1>1, <1>2
  <2> QED
    BY <1>1, <1>2, <2>1
<1>4. \A i \in DOMAIN t : i + 1 \in DOMAIN s /\ t[i] = s[i + 1]
  BY <1>1, <1>2
<1>5. ASSUME NEW i \in DOMAIN t
      PROVE  Newest(t, i) <=> Newest(s, i + 1)
  <2>1. ASSUME Newest(t, i), NEW j \in DOMAIN s, j > i + 1
        PROVE  s[j].type # "keys"
    <3>1. j # 1 /\ j - 1 > i
      BY <1>1, <1>2, <2>1
    <3>2. j - 1 \in DOMAIN t /\ t[j - 1] = s[j]
      BY <1>3, <3>1
    <3> QED
      BY <2>1, <3>1, <3>2 DEF Newest
  <2>2. ASSUME Newest(s, i + 1), NEW j \in DOMAIN t, j > i
        PROVE  t[j].type # "keys"
    <3>1. j + 1 > i + 1
      BY <1>2, <2>2
    <3> QED
      BY <1>4, <2>2, <3>1 DEF Newest
  <2> QED
    BY <2>1, <2>2 DEF Newest
<1> QED
  BY <1>1, <1>3, <1>4, <1>5 DEF t

\* AgreeInv, for one GUI.
Asking(s) == \E i \in DOMAIN s : s[i].type = "dump"
Disputing(s, keys) == \E i \in DOMAIN s : s[i].type = "keys" /\ s[i].keys # keys /\ Newest(s, i)

\* The agreement in the words of the queues.
LEMMA AgreeParts ==
  AgreeInv <=> \A g \in Gui : online[g] /\ ~Asking(up[g]) /\ NoKeys(down[g])
                                 => order[g] = strips.keys \/ Disputing(up[g], strips.keys)
BY DEF AgreeInv, Asking, Disputing

\* The rest of a GUI's messages, when the server took one that it does not answer
\* by a list of keys.
LEMMA TakenMessage ==
  ASSUME NEW T, NEW s \in Seq(T), s # <<>>, NEW keys,
         s[1].type # "dump", s[1].type = "keys" => s[1].keys = keys
  PROVE  /\ Asking(s) => Asking(Tail(s))
         /\ Disputing(s, keys) => Disputing(Tail(s), keys)
<1>1. /\ \A i \in DOMAIN s : i = 1 \/ (i - 1 \in DOMAIN Tail(s) /\ Tail(s)[i - 1] = s[i])
      /\ \A i \in DOMAIN Tail(s) : Newest(Tail(s), i) <=> Newest(s, i + 1)
  BY TailFacts
<1>2. ASSUME Asking(s)
      PROVE  Asking(Tail(s))
  <2>1. PICK i \in DOMAIN s : s[i].type = "dump"
    BY <1>2 DEF Asking
  <2> QED
    BY <1>1, <2>1 DEF Asking
<1>3. ASSUME Disputing(s, keys)
      PROVE  Disputing(Tail(s), keys)
  <2>1. PICK i \in DOMAIN s : s[i].type = "keys" /\ s[i].keys # keys /\ Newest(s, i)
    BY <1>3 DEF Disputing
  <2>2. i - 1 \in DOMAIN Tail(s) /\ Tail(s)[i - 1] = s[i]
    BY <1>1, <2>1
  <2>3. (i - 1) + 1 = i
    OBVIOUS
  <2>4. Newest(Tail(s), i - 1)
    BY <1>1, <2>1, <2>2, <2>3
  <2> QED
    BY <2>1, <2>2, <2>4 DEF Disputing
<1> QED
  BY <1>2, <1>3

\* The server takes message Head(up[g]) in a way that AgreeInv allows.
Answered(g, sent) ==
    /\ up[g] # <<>>
    /\ NoKeys(sent) => /\ Head(up[g]).type # "dump"
                       /\ Head(up[g]).type = "keys" => Head(up[g]).keys = strips.keys

\* Whatever the server does to its array and announces keeps the invariant.
LEMMA ServerStep ==
  ASSUME IInv, NEW r, Announced(strips, r), strips' = r.arr, Broadcast(r.sent),
         UNCHANGED <<order, nextKey, aborted, online, breaks>>,
         inputs' \in 0..MaxInputs,
         up' = up \/ \E g \in Gui : Answered(g, r.sent) /\ up' = [up EXCEPT ![g] = Tail(@)]
  PROVE  IInv'
<1> DEFINE M == Message \cup {Dump}
<1>1. /\ online \in [Gui -> BOOLEAN] /\ up \in [Gui -> Seq(M)] /\ down \in [Gui -> Seq(Message)]
      /\ \A g \in Gui : online[g] \/ down[g] = <<>>
      /\ \A g \in Gui : Telling(down[g], strips)
  BY DEF IInv, FlightInv, Telling
<1>2. /\ ArrayOK(strips') /\ r.sent \in Seq(Message) /\ Telling(r.sent, strips')
      /\ NoKeys(r.sent) => strips'.keys = strips.keys /\ strips'.value = strips.value
  BY DEF Announced
<1> HIDE DEF M
<1>3. \A g \in Gui : down'[g] = IF online[g] THEN down[g] \o r.sent ELSE down[g]
  BY DEF Broadcast
<1>4. \A g \in Gui : up'[g] = up[g] \/ (Answered(g, r.sent) /\ up'[g] = Tail(up[g]))
  BY <1>1
<1>5. up' \in [Gui -> Seq(M)]
  <2>1. CASE up' = up
    BY <1>1, <2>1
  <2>2. CASE up' # up
    <3>1. PICK g \in Gui : Answered(g, r.sent) /\ up' = [up EXCEPT ![g] = Tail(@)]
      BY <2>2
    <3>2. up[g] \in Seq(M) /\ up[g] # <<>>
      BY <1>1, <3>1 DEF Answered
    <3>3. Tail(up[g]) \in Seq(M)
      BY <3>2
    <3> QED
      BY <1>1, <3>1, <3>3
  <2> QED
    BY <2>1, <2>2
<1>6. \A g \in Gui : /\ down'[g] \in Seq(Message) /\ Telling(down'[g], strips')
                     /\ NoKeys(down'[g]) /\ online[g] => NoKeys(down[g]) /\ NoKeys(r.sent)
  <2> SUFFICES ASSUME NEW g \in Gui
               PROVE  /\ down'[g] \in Seq(Message) /\ Telling(down'[g], strips')
                      /\ NoKeys(down'[g]) /\ online[g] => NoKeys(down[g]) /\ NoKeys(r.sent)
    OBVIOUS
  <2> DEFINE d == down[g]
  <2>1. d \in Seq(Message) /\ Telling(d, strips)
    BY <1>1
  <2>2. CASE online[g]
    <3>1. down'[g] = d \o r.sent
      BY <1>3, <2>2
    <3> HIDE DEF d
    <3>2. d \o r.sent \in Seq(Message) /\ (NoKeys(d \o r.sent) <=> NoKeys(d) /\ NoKeys(r.sent))
      BY <1>2, <2>1, ConcatFacts
    <3>3. Telling(d \o r.sent, strips')
      BY <1>2, <2>1, ConcatTelling
    <3> QED
      BY <3>1, <3>2, <3>3 DEF d
  <2>3. CASE ~online[g]
    <3>1. down'[g] = <<>>
      BY <1>1, <1>3, <2>3
    <3> QED
      BY <2>3, <3>1 DEF Telling
  <2> QED
    BY <2>2, <2>3
<1>7. down' \in [Gui -> Seq(Message)]
  <2>1. DOMAIN down' = Gui /\ down' = [g \in Gui |-> down'[g]]
    BY DEF Broadcast
  <2> QED
    BY <1>6, <2>1
<1>8. \A g \in Gui : online'[g] \/ down'[g] = <<>>
  BY <1>1, <1>3
<1>9. FlightInv'
  BY <1>1, <1>5, <1>6, <1>7, <1>8 DEF FlightInv, Telling, M
<1>10. AgreeInv'
  <2>1. \A g \in Gui : online[g] /\ ~Asking(up[g]) /\ NoKeys(down[g])
                          => order[g] = strips.keys \/ Disputing(up[g], strips.keys)
    BY AgreeParts DEF IInv
  <2>2. ASSUME NEW g \in Gui, online[g], ~Asking(up'[g]), NoKeys(down'[g])
        PROVE  order[g] = strips'.keys \/ Disputing(up'[g], strips'.keys)
    <3>1. NoKeys(down[g]) /\ NoKeys(r.sent) /\ strips'.keys = strips.keys
      BY <1>2, <1>6, <2>2
    <3>2. CASE up'[g] = up[g]
      BY <2>1, <2>2, <3>1, <3>2
    <3>3. CASE up'[g] # up[g]
      <4> DEFINE u == up[g]
      <4>1. Answered(g, r.sent) /\ up'[g] = Tail(u)
        BY <1>4, <3>3
      <4>2. u \in Seq(M) /\ u # <<>>
        BY <1>1, <4>1 DEF Answered
      <4>3. Head(u) = u[1]
        BY <4>2, TailFacts
      <4>4. u[1].type # "dump" /\ (u[1].type = "keys" => u[1].keys = strips.keys)
        BY <3>1, <4>1, <4>3 DEF Answered
      <4> HIDE DEF u
      <4>5. /\ Asking(u) => Asking(Tail(u))
            /\ Disputing(u, strips.keys) => Disputing(Tail(u), strips.keys)
        BY <4>2, <4>4, TakenMessage
      <4> QED
        BY <2>1, <2>2, <3>1, <4>1, <4>5 DEF u
    <3> QED
      BY <3>2, <3>3
  <2>3. \A g \in Gui : online'[g] /\ ~Asking(up'[g]) /\ NoKeys(down'[g])
                          => order'[g] = strips'.keys \/ Disputing(up'[g], strips'.keys)
    BY <2>2
  <2> QED
    BY <2>3 DEF AgreeInv, Asking, Disputing
<1>11. LayoutInv'
  BY DEF IInv, LayoutInv
<1> QED
  BY <1>2, <1>9, <1>10, <1>11 DEF IInv

\* ServerReceive keeps the invariant.
LEMMA ServerReceiveStep ==
  ASSUME IInv, NEW g \in Gui, ServerReceive(g)
  PROVE  IInv'
<1> DEFINE m == Head(up[g])
<1>1. /\ ArrayOK(strips) /\ up[g] # <<>> /\ up \in [Gui -> Seq(Message \cup {Dump})]
      /\ up' = [up EXCEPT ![g] = Tail(@)]
      /\ UNCHANGED <<order, nextKey, aborted, online, inputs, breaks>>
      /\ inputs \in 0..MaxInputs
  BY DEF ServerReceive, IInv, FlightInv
<1>2. m \in Message \cup {Dump}
  <2>1. up[g] \in Seq(Message \cup {Dump})
    BY <1>1
  <2> QED
    BY <1>1, <2>1
<1>3. ASSUME NEW r, Announced(strips, r), strips' = r.arr, Broadcast(r.sent),
             NoKeys(r.sent) => m.type # "dump" /\ (m.type = "keys" => m.keys = strips.keys)
      PROVE  IInv'
  <2>1. Answered(g, r.sent)
    BY <1>1, <1>3 DEF Answered
  <2>2. up' = up \/ \E h \in Gui : Answered(h, r.sent) /\ up' = [up EXCEPT ![h] = Tail(@)]
    BY <1>1, <2>1
  <2>3. inputs' \in 0..MaxInputs
    BY <1>1
  <2> QED
    BY <1>1, <1>3, <2>2, <2>3, ServerStep
<1>4. CASE m.type = "dump" /\ Broadcast(DumpOf(strips)) /\ UNCHANGED strips
  <2> DEFINE r == [arr |-> strips, sent |-> DumpOf(strips)]
  <2>1. Announced(strips, r)
    BY <1>1, DumpFacts
  <2>2. ~NoKeys(r.sent)
    BY <1>1, DumpFacts
  <2>3. strips' = r.arr /\ Broadcast(r.sent)
    BY <1>4
  <2> HIDE DEF r
  <2> QED
    BY <1>3, <2>1, <2>2, <2>3
<1>5. CASE m.type = "keys" /\ strips' = SetKeys(strips, m.keys).arr /\ Broadcast(SetKeys(strips, m.keys).sent)
  <2> DEFINE r == SetKeys(strips, m.keys)
  <2>1. m.keys \in Seq(Key)
    BY <1>2, <1>5 DEF Message, Dump
  <2>2. Announced(strips, r) /\ (NoKeys(r.sent) => m.keys = strips.keys)
    BY <1>1, <2>1, SetKeysFacts
  <2> HIDE DEF r
  <2> QED
    BY <1>3, <1>5, <2>2 DEF r
<1>6. CASE /\ m.type = "item" /\ strips' = Access(strips, m.key).arr
           /\ \/ Broadcast(Access(strips, m.key).sent)
              \/ Broadcast(Append(Access(strips, m.key).sent, m))
  <2> DEFINE r == Access(strips, m.key)
  <2>1. m.key \in Key /\ m = Item(m.key)
    BY <1>2, <1>6 DEF Message, Dump, Item
  <2>2. Announced(strips, r) /\ m.key \in r.arr.value
    BY <1>1, <2>1, AccessFacts
  <2>3. CASE Broadcast(r.sent)
    <3>1. strips' = r.arr
      BY <1>6
    <3> HIDE DEF r
    <3> QED
      BY <1>3, <1>6, <2>2, <2>3, <3>1
  <2>4. CASE Broadcast(Append(r.sent, m))
    <3> DEFINE q == [arr |-> r.arr, sent |-> Append(r.sent, Item(m.key))]
    <3>1. strips' = q.arr /\ Broadcast(q.sent)
      BY <1>6, <2>1, <2>4
    <3> HIDE DEF r
    <3>2. Announced(strips, q)
      BY <2>1, <2>2, ThenItem
    <3> HIDE DEF q
    <3> QED
      BY <1>3, <1>6, <3>1, <3>2
  <2> QED
    BY <1>6, <2>3, <2>4
<1> QED
  BY <1>4, <1>5, <1>6 DEF ServerReceive

\* An edit is counted up to the bound.
LEMMA InputBound ==
  ASSUME IInv, Input
  PROVE  inputs' \in 0..MaxInputs
BY StripListAssumption DEF IInv, Input

\* ControllerSetKeys keeps the invariant.
LEMMA ControllerSetKeysStep ==
  ASSUME IInv, NEW s \in ControllerKeys, ControllerSetKeys(s)
  PROVE  IInv'
<1> DEFINE r == SetKeys(strips, s)
<1>1. s \in Seq(Key)
  BY StripListAssumption DEF Key
<1>2. ArrayOK(strips)
  BY DEF IInv
<1>3. Announced(strips, r)
  BY <1>1, <1>2, SetKeysFacts
<1>4. /\ strips' = r.arr /\ Broadcast(r.sent) /\ up' = up
      /\ UNCHANGED <<order, nextKey, aborted, online, breaks>>
      /\ inputs' \in 0..MaxInputs
  BY InputBound DEF ControllerSetKeys
<1> HIDE DEF r
<1> QED
  BY <1>3, <1>4, ServerStep

\* ControllerAccess keeps the invariant.
LEMMA ControllerAccessStep ==
  ASSUME IInv, NEW k \in Key, ControllerAccess(k)
  PROVE  IInv'
<1> DEFINE r == Access(strips, k)
           q == [arr |-> r.arr, sent |-> Append(r.sent, Item(k))]
<1>1. ArrayOK(strips)
  BY DEF IInv
<1>2. Announced(strips, r) /\ k \in r.arr.value
  BY <1>1, AccessFacts
<1>3. /\ strips' = q.arr /\ Broadcast(q.sent) /\ up' = up
      /\ UNCHANGED <<order, nextKey, aborted, online, breaks>>
      /\ inputs' \in 0..MaxInputs
  BY InputBound DEF ControllerAccess
<1> HIDE DEF r
<1>4. Announced(strips, q)
  BY <1>2, ThenItem
<1> HIDE DEF q
<1> QED
  BY <1>3, <1>4, ServerStep

(***************************************************************************)
(* What a GUI does.                                                        *)
(***************************************************************************)

\* A message about one strip leaves the questions and lists before it as they are.
LEMMA ItemLast ==
  ASSUME NEW T, NEW u \in Seq(T), NEW m \in T, m.type = "item", NEW keys
  PROVE  /\ Asking(u) => Asking(Append(u, m))
         /\ Disputing(u, keys) => Disputing(Append(u, m), keys)
<1> DEFINE w == Append(u, m)
<1>1. /\ w \in Seq(T) /\ Len(w) = Len(u) + 1
      /\ \A i \in 1..Len(u) : w[i] = u[i]
      /\ w[Len(u) + 1] = m
  BY AppendFacts
<1> HIDE DEF w
<1>2. DOMAIN u = 1..Len(u) /\ DOMAIN w = 1..(Len(u) + 1) /\ Len(u) \in Nat
  BY <1>1
<1>3. \A i \in DOMAIN u : i \in DOMAIN w /\ w[i] = u[i]
  BY <1>1, <1>2
<1>4. \A i \in DOMAIN w : i \in DOMAIN u \/ i = Len(u) + 1
  BY <1>2
<1>5. Asking(u) => Asking(w)
  BY <1>3 DEF Asking
<1>6. ASSUME Disputing(u, keys)
      PROVE  Disputing(w, keys)
  <2>1. PICK i \in DOMAIN u : u[i].type = "keys" /\ u[i].keys # keys /\ Newest(u, i)
    BY <1>6 DEF Disputing
  <2>2. Newest(w, i)
    BY <1>1, <1>3, <1>4, <2>1 DEF Newest
  <2> QED
    BY <1>3, <2>1, <2>2 DEF Disputing
<1> QED
  BY <1>5, <1>6 DEF w

\* Whatever layout a user makes, its list of keys is the last the GUI has sent.
LEMMA LayoutStep ==
  ASSUME IInv, NEW g \in Gui, NEW o \in Seq(Key), IsInjective(o),
         nextKey' \in [Gui -> 0..(MaxKey + 1)],
         \A h \in Gui : h # g => nextKey'[h] = nextKey[h],
         \A k \in ToSet(o) : k < nextKey'[g],
         order' = [order EXCEPT ![g] = o],
         Input, Send(g, Keys(o)),
         UNCHANGED <<strips, aborted, online, down, breaks>>
  PROVE  IInv'
<1> DEFINE M == Message \cup {Dump}
           u == up[g]
           w == Append(u, Keys(o))
<1>1. /\ order \in [Gui -> Seq(Key)] /\ up \in [Gui -> Seq(M)]
      /\ \A h \in Gui : IsInjective(order[h]) /\ \A k \in ToSet(order[h]) : k < nextKey[h]
  BY DEF IInv, LayoutInv, FlightInv
<1>2. Keys(o) \in M
  BY OneMessage
<1> HIDE DEF M
<1>3. u \in Seq(M)
  BY <1>1
<1>4. up' = [up EXCEPT ![g] = IF online[g] THEN w ELSE u]
  BY DEF Send
<1> HIDE DEF u
<1>5. /\ w \in Seq(M) /\ Len(w) = Len(u) + 1 /\ w[Len(u) + 1] = Keys(o)
  BY <1>2, <1>3, AppendFacts
<1> HIDE DEF w
<1>6. up' \in [Gui -> Seq(M)] /\ up'[g] = (IF online[g] THEN w ELSE u)
      /\ \A h \in Gui : h # g => up'[h] = up[h]
  BY <1>1, <1>3, <1>4, <1>5
<1>7. order' \in [Gui -> Seq(Key)] /\ order'[g] = o /\ \A h \in Gui : h # g => order'[h] = order[h]
  BY <1>1
<1>8. LayoutInv'
  BY <1>1, <1>7 DEF LayoutInv
<1>9. FlightInv'
  BY <1>6 DEF IInv, FlightInv, M
<1>10. Disputing(w, strips.keys) \/ o = strips.keys
  <2>1. DOMAIN w = 1..(Len(u) + 1) /\ Len(u) \in Nat
    BY <1>3, <1>5
  <2>2. Newest(w, Len(u) + 1)
    BY <2>1 DEF Newest
  <2>3. Len(u) + 1 \in DOMAIN w
    BY <2>1
  <2>4. Keys(o).type = "keys" /\ Keys(o).keys = o
    BY DEF Keys
  <2> QED
    BY <1>5, <2>2, <2>3, <2>4 DEF Disputing
<1>11. AgreeInv'
  <2>1. \A h \in Gui : online[h] /\ ~Asking(up[h]) /\ NoKeys(down[h])
                          => order[h] = strips.keys \/ Disputing(up[h], strips.keys)
    BY AgreeParts DEF IInv
  <2>2. \A h \in Gui : online[h] /\ ~Asking(up'[h]) /\ NoKeys(down[h])
                          => order'[h] = strips.keys \/ Disputing(up'[h], strips.keys)
    BY <1>6, <1>7, <1>10, <2>1
  <2>3. \A h \in Gui : online'[h] /\ ~Asking(up'[h]) /\ NoKeys(down'[h])
                          => order'[h] = strips'.keys \/ Disputing(up'[h], strips'.keys)
    BY <2>2
  <2> QED
    BY <2>3 DEF AgreeInv, Asking, Disputing
<1>12. ArrayOK(strips') /\ aborted' = [h \in Gui |-> FALSE] /\ breaks' \in 0..MaxBreaks
  BY DEF IInv
<1> QED
  BY <1>8, <1>9, <1>11, <1>12, InputBound DEF IInv

\* GuiAdd keeps the invariant.
LEMMA GuiAddStep ==
  ASSUME IInv, NEW g \in Gui, GuiAdd(g)
  PROVE  IInv'
<1> DEFINE s == order[g]
           k == nextKey[g]
           o == Append(s, k)
<1>1. /\ order \in [Gui -> Seq(Key)] /\ nextKey \in [Gui -> 0..(MaxKey + 1)]
      /\ IsInjective(s) /\ \A x \in ToSet(s) : x < k
      /\ s \in Seq(Key) /\ k \in 0..(MaxKey + 1)
  BY DEF IInv, LayoutInv
<1>2. /\ k <= MaxKey /\ order' = [order EXCEPT ![g] = o]
      /\ nextKey' = [nextKey EXCEPT ![g] = k + 1]
      /\ Input /\ UNCHANGED <<strips, aborted, online, down, breaks>>
  BY DEF GuiAdd
<1>3. Send(g, Keys(o))
  <2>1. order'[g] = o
    BY <1>1, <1>2
  <2> HIDE DEF o
  <2> QED
    BY <2>1 DEF GuiAdd
<1> HIDE DEF s, k
<1>4. k \in Key /\ k + 1 \in 0..(MaxKey + 1)
  BY <1>1, <1>2, StripListAssumption DEF Key
<1>5. k \notin ToSet(s)
  BY <1>1, <1>4 DEF Key
<1>6. o \in Seq(Key) /\ IsInjective(o) /\ ToSet(o) = ToSet(s) \cup {k}
  BY <1>1, <1>4, <1>5, AppendFacts
<1> HIDE DEF o
<1>7. ToSet(s) \subseteq Key
  BY <1>1, Members
<1>8. nextKey' \in [Gui -> 0..(MaxKey + 1)] /\ nextKey'[g] = k + 1
      /\ \A h \in Gui : h # g => nextKey'[h] = nextKey[h]
  BY <1>1, <1>2, <1>4
<1>9. \A x \in ToSet(o) : x < k + 1
  BY <1>1, <1>4, <1>6, <1>7, StripListAssumption DEF Key
<1> QED
  BY <1>2, <1>3, <1>6, <1>8, <1>9, LayoutStep

\* GuiRemove keeps the invariant.
LEMMA GuiRemoveStep ==
  ASSUME IInv, NEW g \in Gui, NEW k \in Key, GuiRemove(g, k)
  PROVE  IInv'
<1> DEFINE s == order[g]
           o == Without(s, k)
<1>1. /\ order \in [Gui -> Seq(Key)] /\ nextKey \in [Gui -> 0..(MaxKey + 1)]
      /\ IsInjective(s) /\ \A x \in ToSet(s) : x < nextKey[g]
      /\ s \in Seq(Key)
  BY DEF IInv, LayoutInv
<1>2. /\ order' = [order EXCEPT ![g] = o] /\ Input
      /\ nextKey' = nextKey /\ UNCHANGED <<strips, aborted, online, down, breaks>>
  BY DEF GuiRemove
<1>3. Send(g, Keys(o))
  <2>1. order'[g] = o
    BY <1>1, <1>2
  <2> HIDE DEF o
  <2> QED
    BY <2>1 DEF GuiRemove
<1> HIDE DEF s
<1>4. o \in Seq(Key) /\ IsInjective(o) /\ ToSet(o) \subseteq ToSet(s)
  BY <1>1, WithoutFacts
<1> HIDE DEF o
<1>5. /\ nextKey' \in [Gui -> 0..(MaxKey + 1)]
      /\ \A h \in Gui : h # g => nextKey'[h] = nextKey[h]
      /\ \A x \in ToSet(o) : x < nextKey'[g]
  BY <1>1, <1>2, <1>4
<1> QED
  BY <1>2, <1>3, <1>4, <1>5, LayoutStep

\* GuiMove keeps the invariant.
LEMMA GuiMoveStep ==
  ASSUME IInv, NEW g \in Gui, NEW k \in Key, NEW target \in Key, NEW before \in BOOLEAN,
         GuiMove(g, k, target, before)
  PROVE  IInv'
<1> DEFINE s == order[g]
           o == Move(s, k, target, before)
<1>1. /\ order \in [Gui -> Seq(Key)] /\ nextKey \in [Gui -> 0..(MaxKey + 1)]
      /\ IsInjective(s) /\ \A x \in ToSet(s) : x < nextKey[g]
      /\ s \in Seq(Key)
  BY DEF IInv, LayoutInv
<1>2. /\ order' = [order EXCEPT ![g] = o] /\ Input /\ k \in ToSet(s) /\ target \in ToSet(s)
      /\ nextKey' = nextKey /\ UNCHANGED <<strips, aborted, online, down, breaks>>
  BY DEF GuiMove
<1>3. Send(g, Keys(o))
  <2>1. order'[g] = o
    BY <1>1, <1>2
  <2> HIDE DEF o
  <2> QED
    BY <2>1 DEF GuiMove
<1> HIDE DEF s
<1>4. o \in Seq(Key) /\ IsInjective(o) /\ ToSet(o) = ToSet(s)
  BY <1>1, <1>2, MoveFacts
<1> HIDE DEF o
<1>5. /\ nextKey' \in [Gui -> 0..(MaxKey + 1)]
      /\ \A h \in Gui : h # g => nextKey'[h] = nextKey[h]
      /\ \A x \in ToSet(o) : x < nextKey'[g]
  BY <1>1, <1>2, <1>4
<1> QED
  BY <1>2, <1>3, <1>4, <1>5, LayoutStep

\* GuiEdit keeps the invariant.
LEMMA GuiEditStep ==
  ASSUME IInv, NEW g \in Gui, NEW k \in Key, GuiEdit(g, k)
  PROVE  IInv'
<1> DEFINE M == Message \cup {Dump}
           u == up[g]
           w == Append(u, Item(k))
<1>1. up \in [Gui -> Seq(M)] /\ u \in Seq(M)
  BY DEF IInv, FlightInv
<1>2. Item(k) \in M /\ Item(k).type = "item"
  BY OneMessage DEF Item
<1> HIDE DEF M
<1>3. /\ up' = [up EXCEPT ![g] = IF online[g] THEN w ELSE u]
      /\ Input /\ UNCHANGED <<strips, order, nextKey, aborted, online, down, breaks>>
  BY DEF GuiEdit, Send
<1> HIDE DEF u
<1>4. /\ w \in Seq(M)
      /\ Asking(u) => Asking(w)
      /\ Disputing(u, strips.keys) => Disputing(w, strips.keys)
  BY <1>1, <1>2, AppendFacts, ItemLast
<1> HIDE DEF w
<1>5. up' \in [Gui -> Seq(M)] /\ up'[g] = (IF online[g] THEN w ELSE u)
      /\ \A h \in Gui : h # g => up'[h] = up[h]
  BY <1>1, <1>3, <1>4
<1>6. LayoutInv'
  BY <1>3 DEF IInv, LayoutInv
<1>7. FlightInv'
  BY <1>3, <1>5 DEF IInv, FlightInv, M
<1>8. AgreeInv'
  <2>1. \A h \in Gui : online[h] /\ ~Asking(up[h]) /\ NoKeys(down[h])
                          => order[h] = strips.keys \/ Disputing(up[h], strips.keys)
    BY AgreeParts DEF IInv
  <2>2. \A h \in Gui : online[h] /\ ~Asking(up'[h]) /\ NoKeys(down[h])
                          => order[h] = strips.keys \/ Disputing(up'[h], strips.keys)
    BY <1>4, <1>5, <2>1 DEF u
  <2>3. \A h \in Gui : online'[h] /\ ~Asking(up'[h]) /\ NoKeys(down'[h])
                          => order'[h] = strips'.keys \/ Disputing(up'[h], strips'.keys)
    BY <1>3, <2>2
  <2> QED
    BY <2>3 DEF AgreeInv, Asking, Disputing
<1> QED
  BY <1>3, <1>6, <1>7, <1>8, InputBound DEF IInv

\* What the head of a queue tells, and what is left to tell.
LEMMA HeadTold ==
  ASSUME NEW s \in Seq(Message), s # <<>>, NEW a, Telling(s, a)
  PROVE  /\ Telling(Tail(s), a)
         /\ Head(s).type = "keys" => IsInjective(Head(s).keys)
         /\ NoKeys(Tail(s)) => Tells(Head(s), a)
         /\ NoKeys(Tail(s)) /\ Head(s).type # "keys" => NoKeys(s)
<1> DEFINE t == Tail(s)
<1>1. /\ Head(s) = s[1] /\ 1 \in DOMAIN s
      /\ \A i \in DOMAIN s : i = 1 \/ (i - 1 \in DOMAIN t /\ t[i - 1] = s[i])
      /\ \A i \in DOMAIN t : i + 1 \in DOMAIN s /\ t[i] = s[i + 1]
      /\ \A i \in DOMAIN t : Newest(t, i) <=> Newest(s, i + 1)
  BY TailFacts
<1> HIDE DEF t
<1>2. Telling(t, a)
  BY <1>1 DEF Telling
<1>3. s[1].type = "keys" => IsInjective(s[1].keys)
  BY <1>1 DEF Telling
<1>4. ASSUME NoKeys(t)
      PROVE  Newest(s, 1)
  <2> SUFFICES ASSUME NEW j \in DOMAIN s, j > 1
               PROVE  s[j].type # "keys"
    BY DEF Newest
  <2>1. j - 1 \in DOMAIN t /\ t[j - 1] = s[j]
    BY <1>1
  <2> QED
    BY <1>4, <2>1 DEF NoKeys
<1>5. NoKeys(t) => Tells(s[1], a)
  BY <1>1, <1>4 DEF Telling
<1>6. NoKeys(t) /\ s[1].type # "keys" => NoKeys(s)
  BY <1>1 DEF NoKeys
<1> QED
  BY <1>1, <1>2, <1>3, <1>5, <1>6 DEF t

\* A message is taken and the layout it leaves agrees with it.
LEMMA TakenStep ==
  ASSUME IInv, NEW g \in Gui, down[g] # <<>>, down' = [down EXCEPT ![g] = Tail(@)],
         NEW o \in Seq(Key), IsInjective(o), order' = [order EXCEPT ![g] = o],
         NEW n \in 0..(MaxKey + 1), nextKey' = [nextKey EXCEPT ![g] = n],
         \A k \in ToSet(o) : k < n,
         UNCHANGED <<strips, aborted, online, up, inputs, breaks>>,
         NoKeys(Tail(down[g])) => o = strips.keys \/ (NoKeys(down[g]) /\ order[g] # strips.keys)
  PROVE  IInv'
<1> DEFINE d == down[g]
           t == Tail(d)
<1>1. /\ order \in [Gui -> Seq(Key)] /\ nextKey \in [Gui -> 0..(MaxKey + 1)]
      /\ down \in [Gui -> Seq(Message)] /\ d \in Seq(Message) /\ Telling(d, strips)
      /\ \A h \in Gui : online[h] \/ down[h] = <<>>
      /\ \A h \in Gui : Telling(down[h], strips)
  BY DEF IInv, FlightInv, LayoutInv, Telling
<1>2. d # <<>>
  OBVIOUS
<1>3. online[g]
  BY <1>1
<1>4. down' = [down EXCEPT ![g] = t]
  OBVIOUS
<1>5. NoKeys(t) => o = strips.keys \/ (NoKeys(d) /\ order[g] # strips.keys)
  OBVIOUS
<1> HIDE DEF d
<1>6. t \in Seq(Message) /\ Telling(t, strips)
  BY <1>1, <1>2, TailFacts, HeadTold
<1> HIDE DEF t
<1>7. down' \in [Gui -> Seq(Message)] /\ down'[g] = t /\ \A h \in Gui : h # g => down'[h] = down[h]
  BY <1>1, <1>4, <1>6
<1>8. order' \in [Gui -> Seq(Key)] /\ order'[g] = o /\ \A h \in Gui : h # g => order'[h] = order[h]
  BY <1>1
<1>9. nextKey' \in [Gui -> 0..(MaxKey + 1)] /\ nextKey'[g] = n
      /\ \A h \in Gui : h # g => nextKey'[h] = nextKey[h]
  BY <1>1
<1>10. LayoutInv'
  <2>1. \A h \in Gui : IsInjective(order[h]) /\ \A k \in ToSet(order[h]) : k < nextKey[h]
    BY DEF IInv, LayoutInv
  <2> QED
    BY <1>8, <1>9, <2>1 DEF LayoutInv
<1>11. FlightInv'
  <2>1. \A h \in Gui : Telling(down'[h], strips)
    BY <1>1, <1>6, <1>7
  <2>2. \A h \in Gui : online[h] \/ down'[h] = <<>>
    BY <1>1, <1>3, <1>7
  <2>3. online \in [Gui -> BOOLEAN] /\ up \in [Gui -> Seq(Message \cup {Dump})]
    BY DEF IInv, FlightInv
  <2> QED
    BY <1>7, <2>1, <2>2, <2>3 DEF FlightInv, Telling
<1>12. AgreeInv'
  <2>1. \A h \in Gui : online[h] /\ ~Asking(up[h]) /\ NoKeys(down[h])
                          => order[h] = strips.keys \/ Disputing(up[h], strips.keys)
    BY AgreeParts DEF IInv
  <2>2. \A h \in Gui : online[h] /\ ~Asking(up[h]) /\ NoKeys(down'[h])
                          => order'[h] = strips.keys \/ Disputing(up[h], strips.keys)
    BY <1>5, <1>7, <1>8, <2>1 DEF d
  <2>3. \A h \in Gui : online'[h] /\ ~Asking(up'[h]) /\ NoKeys(down'[h])
                          => order'[h] = strips'.keys \/ Disputing(up'[h], strips'.keys)
    BY <2>2
  <2> QED
    BY <2>3 DEF AgreeInv, Asking, Disputing
<1> QED
  BY <1>10, <1>11, <1>12 DEF IInv

\* GuiReceive keeps the invariant.
LEMMA GuiReceiveStep ==
  ASSUME IInv, NEW g \in Gui, GuiReceive(g)
  PROVE  IInv'
<1> DEFINE d == down[g]
           m == Head(d)
           s == order[g]
           next == nextKey[g]
<1>1. /\ d \in Seq(Message) /\ d # <<>> /\ Telling(d, strips)
      /\ ArrayOK(strips)
      /\ order \in [Gui -> Seq(Key)] /\ s \in Seq(Key) /\ IsInjective(s)
      /\ nextKey \in [Gui -> 0..(MaxKey + 1)] /\ next \in 0..(MaxKey + 1)
      /\ \A k \in ToSet(s) : k < next
      /\ aborted = [h \in Gui |-> FALSE]
  BY DEF IInv, FlightInv, LayoutInv, Telling, GuiReceive
<1>2. /\ down' = [down EXCEPT ![g] = Tail(@)]
      /\ UNCHANGED <<strips, online, up, inputs, breaks>>
  BY DEF GuiReceive
<1>3. /\ m \in Message
      /\ m.type = "keys" => IsInjective(m.keys)
      /\ NoKeys(Tail(d)) => Tells(m, strips)
      /\ NoKeys(Tail(d)) /\ m.type # "keys" => NoKeys(d)
  <2> HIDE DEF d
  <2> QED
    BY <1>1, TailFacts, HeadTold
<1> HIDE DEF m, s, next
<1>4. ASSUME NEW o \in Seq(Key), IsInjective(o), order' = [order EXCEPT ![g] = o],
             NEW n \in 0..(MaxKey + 1), nextKey' = [nextKey EXCEPT ![g] = n],
             \A k \in ToSet(o) : k < n,
             aborted' = aborted,
             NoKeys(Tail(down[g])) => o = strips.keys \/ (NoKeys(down[g]) /\ order[g] # strips.keys)
      PROVE  IInv'
  <2>1. UNCHANGED <<strips, aborted, online, up, inputs, breaks>> /\ down[g] # <<>>
    BY <1>1, <1>2, <1>4
  <2> QED
    BY <1>2, <1>4, <2>1, TakenStep
<1> USE DEF m, s, next
<1>5. CASE /\ m.type = "keys"
           /\ order' = [order EXCEPT ![g] = Reconcile(@, m.keys).order]
           /\ aborted' = [aborted EXCEPT ![g] = Reconcile(order[g], m.keys).aborted]
           /\ nextKey' = [nextKey EXCEPT ![g] = KeyAfterAll(@, m.keys)]
  <2> DEFINE o == m.keys
             n == KeyAfterAll(next, o)
  <2>1. o \in Seq(Key) /\ IsInjective(o)
    BY <1>3, <1>5 DEF Message
  <2>2. Reconcile(s, o) = [order |-> o, aborted |-> FALSE]
    <3> HIDE DEF o, s
    <3> QED
      BY <1>1, <2>1, ReconcileFacts
  <2>3. n \in 0..(MaxKey + 1) /\ \A k \in ToSet(o) : k < n
    <3> HIDE DEF o, next
    <3>1. ToSet(o) \in SUBSET Key
      BY <2>1, Members
    <3> DEFINE T == ToSet(o)
               b == Max({next} \cup {k + 1 : k \in T})
    <3>2. n = b
      BY DEF KeyAfterAll
    <3> HIDE DEF T
    <3>3. b \in 0..(MaxKey + 1) /\ \A k \in T : k < b
      BY <1>1, <3>1, KeyBounds DEF T
    <3> HIDE DEF b, n
    <3> QED
      BY <3>2, <3>3 DEF T
  <2> DEFINE R == Reconcile(s, o)
  <2>4. /\ order' = [order EXCEPT ![g] = R.order]
        /\ aborted' = [aborted EXCEPT ![g] = R.aborted]
        /\ nextKey' = [nextKey EXCEPT ![g] = n]
    BY <1>5
  <2>5. R.order = o /\ R.aborted = FALSE
    <3> HIDE DEF R
    <3>1. R = [order |-> o, aborted |-> FALSE]
      BY <2>2 DEF R
    <3> HIDE DEF o
    <3> QED
      BY <3>1
  <2>6. NoKeys(Tail(down[g])) => o = strips.keys
    BY <1>3, <1>5 DEF Tells
  <2> HIDE DEF R, n, o, m, s, next
  <2>7. order' = [order EXCEPT ![g] = o] /\ aborted' = aborted
    BY <1>1, <2>4, <2>5
  <2> QED
    BY <1>4, <2>1, <2>3, <2>4, <2>6, <2>7 DEF d
<1>6. CASE /\ m.type = "item"
           /\ order' = [order EXCEPT ![g] = Add(@, m.key)]
           /\ nextKey' = [nextKey EXCEPT ![g] = KeyAfterAll(@, <<m.key>>)]
           /\ UNCHANGED aborted
  <2> DEFINE k == m.key
             o == Add(s, k)
             n == KeyAfterAll(next, <<k>>)
  <2>1. k \in Key
    BY <1>3, <1>6 DEF Message
  <2>2. order' = [order EXCEPT ![g] = o] /\ nextKey' = [nextKey EXCEPT ![g] = n] /\ aborted' = aborted
    BY <1>6
  <2>3. /\ NoKeys(Tail(down[g])) => NoKeys(down[g]) /\ k \in strips.value
    BY <1>3, <1>6 DEF Tells
  <2> HIDE DEF k
  <2>4. n \in 0..(MaxKey + 1) /\ next <= n /\ k < n
    <3>1. ToSet(<<k>>) = {k}
      BY DEF ToSet
    <3> HIDE DEF next
    <3> DEFINE T == {k}
               b == Max({next} \cup {x + 1 : x \in T})
    <3>2. n = b
      BY <3>1 DEF KeyAfterAll
    <3>3. T \in SUBSET Key /\ k \in T
      BY <2>1
    <3> HIDE DEF T
    <3>4. b \in 0..(MaxKey + 1) /\ next <= b /\ \A x \in T : x < b
      BY <1>1, <3>3, KeyBounds
    <3> HIDE DEF b, n
    <3> QED
      BY <3>2, <3>3, <3>4
  <2> HIDE DEF n
  <2>5. /\ o \in Seq(Key) /\ IsInjective(o)
        /\ \A x : x \in ToSet(o) <=> x \in ToSet(s) \/ x = k
        /\ k \in ToSet(s) => o = s
    <3> HIDE DEF s
    <3> QED
      BY <1>1, <2>1, AddFacts
  <2>6. \A x \in ToSet(o) : x < n
    <3>1. ToSet(s) \subseteq Key
      <4> HIDE DEF s
      <4> QED
        BY <1>1, Members
    <3> HIDE DEF o, s, next
    <3> SUFFICES ASSUME NEW x \in ToSet(o)
                 PROVE  x < n
      OBVIOUS
    <3>2. x = k \/ (x \in ToSet(s) /\ x \in Key /\ x < next)
      BY <1>1, <2>5, <3>1
    <3> QED
      BY <1>1, <2>4, <3>2, StripListAssumption DEF Key
  <2>7. NoKeys(Tail(down[g])) => o = strips.keys \/ (NoKeys(down[g]) /\ order[g] # strips.keys)
    BY <1>1, <2>3, <2>5 DEF ArrayOK
  <2> HIDE DEF o, m, s, next
  <2> QED
    BY <1>4, <2>2, <2>4, <2>5, <2>6, <2>7 DEF d
<1> QED
  BY <1>5, <1>6 DEF GuiReceive

\* A GUI that connects asks for everything.
LEMMA ConnectStep ==
  ASSUME IInv, NEW g \in Gui, Connect(g)
  PROVE  IInv'
<1> DEFINE w == <<Dump>>
<1>1. /\ online' = [online EXCEPT ![g] = TRUE] /\ up' = [up EXCEPT ![g] = w]
      /\ UNCHANGED <<strips, order, nextKey, aborted, down, inputs, breaks>>
  BY DEF Connect
<1>2. online \in [Gui -> BOOLEAN] /\ up \in [Gui -> Seq(Message \cup {Dump})]
  BY DEF IInv, FlightInv
<1>3. w \in Seq(Message \cup {Dump}) /\ Asking(w)
  <2>1. 1 \in DOMAIN w /\ w[1].type = "dump"
    BY DEF Dump
  <2> QED
    BY <2>1 DEF Asking
<1> HIDE DEF w
<1>4. /\ up' \in [Gui -> Seq(Message \cup {Dump})] /\ up'[g] = w
      /\ \A h \in Gui : h # g => up'[h] = up[h]
  BY <1>1, <1>2, <1>3
<1>5. /\ online' \in [Gui -> BOOLEAN] /\ online'[g]
      /\ \A h \in Gui : h # g => online'[h] = online[h]
  BY <1>1, <1>2
<1>6. LayoutInv'
  BY <1>1 DEF IInv, LayoutInv
<1>7. FlightInv'
  <2>1. \A h \in Gui : online'[h] \/ down'[h] = <<>>
    BY <1>1, <1>5 DEF IInv, FlightInv
  <2> QED
    BY <1>1, <1>4, <1>5, <2>1 DEF IInv, FlightInv
<1>8. AgreeInv'
  <2>1. \A h \in Gui : online[h] /\ ~Asking(up[h]) /\ NoKeys(down[h])
                          => order[h] = strips.keys \/ Disputing(up[h], strips.keys)
    BY AgreeParts DEF IInv
  <2>2. \A h \in Gui : online'[h] /\ ~Asking(up'[h]) /\ NoKeys(down'[h])
                          => order'[h] = strips'.keys \/ Disputing(up'[h], strips'.keys)
    BY <1>1, <1>3, <1>4, <1>5, <2>1
  <2> QED
    BY <2>2 DEF AgreeInv, Asking, Disputing
<1> QED
  BY <1>1, <1>6, <1>7, <1>8 DEF IInv

\* Disconnect keeps the invariant.
LEMMA DisconnectStep ==
  ASSUME IInv, NEW g \in Gui, Disconnect(g)
  PROVE  IInv'
<1>1. /\ online' = [online EXCEPT ![g] = FALSE] /\ up' = [up EXCEPT ![g] = <<>>]
      /\ down' = [down EXCEPT ![g] = <<>>]
      /\ UNCHANGED <<strips, order, nextKey, aborted, inputs>>
      /\ breaks < MaxBreaks /\ breaks' = breaks + 1
  BY DEF Disconnect
<1>2. /\ online \in [Gui -> BOOLEAN] /\ up \in [Gui -> Seq(Message \cup {Dump})]
      /\ down \in [Gui -> Seq(Message)] /\ breaks \in 0..MaxBreaks
  BY DEF IInv, FlightInv
<1>3. <<>> \in Seq(Message \cup {Dump}) /\ <<>> \in Seq(Message)
  OBVIOUS
<1>4. /\ up' \in [Gui -> Seq(Message \cup {Dump})]
      /\ \A h \in Gui : h # g => up'[h] = up[h]
  BY <1>1, <1>2, <1>3
<1>5. /\ online' \in [Gui -> BOOLEAN] /\ ~online'[g]
      /\ \A h \in Gui : h # g => online'[h] = online[h]
  BY <1>1, <1>2
<1>6. /\ down' \in [Gui -> Seq(Message)] /\ down'[g] = <<>>
      /\ \A h \in Gui : h # g => down'[h] = down[h]
  BY <1>1, <1>2, <1>3
<1>7. LayoutInv'
  BY <1>1 DEF IInv, LayoutInv
<1>8. FlightInv'
  <2>1. \A h \in Gui : online[h] \/ down[h] = <<>>
    BY DEF IInv, FlightInv
  <2>2. \A h \in Gui : online'[h] \/ down'[h] = <<>>
    BY <1>5, <1>6, <2>1
  <2>3. \A h \in Gui : Telling(down[h], strips)
    BY DEF IInv, FlightInv, Telling
  <2>4. \A h \in Gui : Telling(down'[h], strips')
    <3>1. Telling(<<>>, strips)
      BY DEF Telling
    <3> QED
      BY <1>1, <1>6, <2>3, <3>1
  <2> QED
    BY <1>4, <1>5, <1>6, <2>2, <2>4 DEF FlightInv, Telling
<1>9. AgreeInv'
  <2>1. \A h \in Gui : online[h] /\ ~Asking(up[h]) /\ NoKeys(down[h])
                          => order[h] = strips.keys \/ Disputing(up[h], strips.keys)
    BY AgreeParts DEF IInv
  <2>2. \A h \in Gui : online'[h] /\ ~Asking(up'[h]) /\ NoKeys(down'[h])
                          => order'[h] = strips'.keys \/ Disputing(up'[h], strips'.keys)
    BY <1>1, <1>4, <1>5, <1>6, <2>1
  <2> QED
    BY <2>2 DEF AgreeInv, Asking, Disputing
<1>10. breaks' \in 0..MaxBreaks
  BY <1>1, <1>2, StripListAssumption
<1> QED
  BY <1>1, <1>7, <1>8, <1>9, <1>10 DEF IInv

(***************************************************************************)
(* The inductive invariant.                                                *)
(***************************************************************************)

\* The invariant holds at the start.
LEMMA InitInvariant == Init => IInv
<1> SUFFICES ASSUME Init
             PROVE  IInv
  OBVIOUS
<1>1. MaxKey \in Nat /\ MaxInputs \in Nat /\ MaxBreaks \in Nat /\ SavedKeys \subseteq Seq(Key)
  BY StripListAssumption DEF Key
<1>2. ArrayOK(strips)
  <2>1. PICK s \in SavedKeys : strips = SetKeys(Empty, s).arr
    BY DEF Init
  <2>2. ArrayOK(Empty)
    <3>1. <<>> \in Seq(Key) /\ IsInjective(<<>>) /\ ToSet(<<>>) = {}
      BY DEF IsInjective, ToSet
    <3>2. 0 \in 0..(MaxKey + 1)
      BY <1>1
    <3> QED
      BY <3>1, <3>2 DEF ArrayOK, Empty
  <2>3. \A t \in Seq(Key) : Announced(Empty, SetKeys(Empty, t))
    BY <2>2, SetKeysFacts
  <2> QED
    BY <1>1, <2>1, <2>3 DEF Announced
<1>3. LayoutInv
  <2>1. <<>> \in Seq(Key) /\ IsInjective(<<>>) /\ ToSet(<<>>) = {}
    BY DEF IsInjective, ToSet
  <2>2. 0 \in 0..(MaxKey + 1)
    BY <1>1
  <2> QED
    BY <2>1, <2>2 DEF Init, LayoutInv
<1>4. FlightInv
  <2>1. <<>> \in Seq(Message \cup {Dump}) /\ <<>> \in Seq(Message) /\ DOMAIN <<>> = {}
    OBVIOUS
  <2> QED
    BY <2>1 DEF Init, FlightInv
<1>5. AgreeInv
  BY DEF Init, AgreeInv
<1> QED
  BY <1>1, <1>2, <1>3, <1>4, <1>5 DEF Init, IInv

\* A step that changes nothing keeps the invariant.
LEMMA StutteringStep ==
  ASSUME IInv, UNCHANGED vars
  PROVE  IInv'
<1>1. /\ strips' = strips /\ order' = order /\ nextKey' = nextKey /\ aborted' = aborted
      /\ online' = online /\ up' = up /\ down' = down /\ inputs' = inputs /\ breaks' = breaks
  BY DEF vars
<1>2. LayoutInv' /\ FlightInv' /\ AgreeInv'
  BY <1>1 DEF IInv, LayoutInv, FlightInv, AgreeInv
<1> QED
  BY <1>1, <1>2 DEF IInv

\* Every step of the list of strips keeps the invariant.
LEMMA NextInvariant ==
  ASSUME IInv, [Next]_vars
  PROVE  IInv'
<1>1. ASSUME NEW s \in ControllerKeys, ControllerSetKeys(s)
      PROVE  IInv'
  BY <1>1, ControllerSetKeysStep
<1>2. ASSUME NEW k \in Key, ControllerAccess(k)
      PROVE  IInv'
  BY <1>2, ControllerAccessStep
<1>3. ASSUME NEW g \in Gui, ServerReceive(g)
      PROVE  IInv'
  BY <1>3, ServerReceiveStep
<1>4. ASSUME NEW g \in Gui, GuiAdd(g)
      PROVE  IInv'
  BY <1>4, GuiAddStep
<1>5. ASSUME NEW g \in Gui, NEW k \in Key, GuiRemove(g, k)
      PROVE  IInv'
  BY <1>5, GuiRemoveStep
<1>6. ASSUME NEW g \in Gui, NEW k \in Key, GuiEdit(g, k)
      PROVE  IInv'
  BY <1>6, GuiEditStep
<1>7. ASSUME NEW g \in Gui, NEW k \in Key, NEW target \in Key, NEW before \in BOOLEAN,
             GuiMove(g, k, target, before)
      PROVE  IInv'
  BY <1>7, GuiMoveStep
<1>8. ASSUME NEW g \in Gui, GuiReceive(g)
      PROVE  IInv'
  BY <1>8, GuiReceiveStep
<1>9. ASSUME NEW g \in Gui, Connect(g)
      PROVE  IInv'
  BY <1>9, ConnectStep
<1>10. ASSUME NEW g \in Gui, Disconnect(g)
       PROVE  IInv'
  BY <1>10, DisconnectStep
<1>11. CASE UNCHANGED vars
  BY <1>11, StutteringStep
<1> QED
  BY <1>1, <1>2, <1>3, <1>4, <1>5, <1>6, <1>7, <1>8, <1>9, <1>10, <1>11 DEF Next

\* The strengthening holds in every state: what the parts hold and what is in flight
\* between them fit together.
THEOREM Inductive == Spec => []IInv
<1>1. Init => IInv
  BY InitInvariant
<1>2. IInv /\ [Next]_vars => IInv'
  BY NextInvariant
<1> QED
  BY <1>1, <1>2, PTL DEF Spec

(***************************************************************************)
(* The properties.                                                         *)
(***************************************************************************)

\* TypeOK: every variable of the list of strips keeps its type.
THEOREM TypeCorrect == Spec => []TypeOK
<1>1. IInv => TypeOK
  <2> SUFFICES ASSUME IInv
               PROVE  TypeOK
    OBVIOUS
  <2>1. strips.keys \in Seq(Key) /\ strips.value \subseteq Key /\ strips.nextKey \in 0..(MaxKey + 1)
    <3>1. ArrayOK(strips)
      BY DEF IInv
    <3> QED
      BY <3>1, Members DEF ArrayOK
  <2>2. \A g \in Gui : \A i \in DOMAIN up[g] : up[g][i].type \in {"dump", "keys", "item"}
    <3> SUFFICES ASSUME NEW g \in Gui, NEW i \in DOMAIN up[g]
                 PROVE  up[g][i].type \in {"dump", "keys", "item"}
      OBVIOUS
    <3>1. up[g] \in Seq(Message \cup {Dump})
      BY DEF IInv, FlightInv
    <3>2. up[g][i] \in Message \cup {Dump}
      BY <3>1
    <3> QED
      BY <3>2 DEF Message, Dump
  <2>3. \A g \in Gui : \A i \in DOMAIN down[g] : down[g][i].type \in {"keys", "item"}
    <3> SUFFICES ASSUME NEW g \in Gui, NEW i \in DOMAIN down[g]
                 PROVE  down[g][i].type \in {"keys", "item"}
      OBVIOUS
    <3>1. down[g] \in Seq(Message)
      BY DEF IInv, FlightInv
    <3>2. down[g][i] \in Message
      BY <3>1
    <3> QED
      BY <3>2 DEF Message
  <2>4. aborted \in [Gui -> BOOLEAN]
    BY DEF IInv
  <2> QED
    BY <2>1, <2>2, <2>3, <2>4 DEF IInv, LayoutInv, FlightInv, TypeOK
<1> QED
  BY <1>1, Inductive, PTL

\* NeverAborts: the lists that the server broadcasts have no duplicates, whatever
\* clients write, so that no GUI finds a position beyond its layout.
THEOREM Safe == Spec => []NeverAborts
<1>1. IInv => NeverAborts
  BY DEF IInv, NeverAborts
<1> QED
  BY <1>1, Inductive, PTL

\* The keys of a list that has no duplicates are as many as its members.
LEMMA Counted ==
  ASSUME NEW s \in Seq(Key), IsInjective(s)
  PROVE  Len(s) = Cardinality(ToSet(s))
<1> DEFINE S == ToSet(s)
           n == Len(s)
<1>1. n \in Nat /\ s \in [1..n -> Key] /\ DOMAIN s = 1..n
  OBVIOUS
<1>2. \A x : x \in S <=> \E i \in 1..n : s[i] = x
  BY Members
<1> HIDE DEF S, n
<1>3. s \in [1..n -> S]
  BY <1>1, <1>2
<1>4. \A a, b \in 1..n : s[a] = s[b] => a = b
  BY <1>1 DEF IsInjective
<1>5. \A x \in S : \E i \in 1..n : s[i] = x
  BY <1>2
<1>6. s \in Bijection(1..n, S)
  BY <1>3, <1>4, <1>5, Fun_IsBij
<1>7. ExistsBijection(1..n, S)
  BY <1>6 DEF ExistsBijection
<1>8. Cardinality(S) = n
  BY <1>1, <1>7, FS_CountingElements
<1> QED
  BY <1>8 DEF S, n

\* SameStrips: a GUI with nothing in flight shows the server's strips in the server's
\* order, and the server's list has exactly the strips that exist, each once.
THEOREM Replicated == Spec => []SameStrips
<1>1. IInv /\ TypeOK => SameStrips
  <2> SUFFICES ASSUME IInv, TypeOK
               PROVE  SameStrips
    OBVIOUS
  <2>1. Coherent
    <3>1. ArrayOK(strips)
      BY DEF IInv
    <3>2. strips.keys \in Seq(Key) /\ IsInjective(strips.keys) /\ strips.value = ToSet(strips.keys)
      BY <3>1 DEF ArrayOK
    <3> QED
      BY <3>2, Counted DEF Coherent
  <2>2. ASSUME NEW g \in Gui, Quiet(g)
        PROVE  order[g] = strips.keys
    <3>1. ~Asking(up[g]) /\ NoKeys(down[g]) /\ ~Disputing(up[g], strips.keys) /\ online[g]
      BY <2>2 DEF Quiet, Asking, Disputing, NoKeys
    <3> QED
      BY <3>1, AgreeParts DEF IInv
  <2> QED
    BY <2>1, <2>2 DEF SameStrips
<1> QED
  BY <1>1, Inductive, TypeCorrect, PTL

\* What is left of a queue is shorter than the queue with anything behind it.
LEMMA TailShorter ==
  ASSUME NEW T, NEW s \in Seq(T), s # <<>>
  PROVE  s # Tail(s) /\ \A v \in Seq(T) : s \o v # Tail(s)
<1> DEFINE t == Tail(s)
<1>1. Len(t) = Len(s) - 1 /\ Len(s) \in Nat
  OBVIOUS
<1> HIDE DEF t
<1>2. s # t
  <2> SUFFICES ASSUME s = t
               PROVE  FALSE
    OBVIOUS
  <2>1. Len(s) = Len(t)
    OBVIOUS
  <2> QED
    BY <1>1, <2>1
<1>3. ASSUME NEW v \in Seq(T), s \o v = t
      PROVE  FALSE
  <2>1. Len(s \o v) = Len(s) + Len(v) /\ Len(v) \in Nat
    OBVIOUS
  <2>2. Len(s \o v) = Len(t)
    BY <1>3
  <2> QED
    BY <1>1, <2>1, <2>2
<1> QED
  BY <1>2, <1>3 DEF t

\* The server takes nothing from what it has sent to a GUI.
LEMMA BroadcastKeeps ==
  ASSUME IInv, NEW sent \in Seq(Message), Broadcast(sent), NEW g \in Gui, down[g] # <<>>
  PROVE  down'[g] # Tail(down[g])
<1>1. down[g] \in Seq(Message)
  BY DEF IInv, FlightInv
<1>2. down'[g] = IF online[g] THEN down[g] \o sent ELSE down[g]
  BY DEF Broadcast
<1> QED
  BY <1>1, <1>2, TailShorter

\* What the server does takes nothing from the queue to a GUI.
LEMMA ServerKeeps ==
  ASSUME IInv, NEW g \in Gui, down[g] # <<>>,
         \/ \E s \in ControllerKeys : ControllerSetKeys(s)
         \/ \E k \in Key : ControllerAccess(k)
         \/ \E h \in Gui : ServerReceive(h)
  PROVE  down'[g] # Tail(down[g])
<1>1. ArrayOK(strips)
  BY DEF IInv
<1>2. \A s \in Seq(Key) : SetKeys(strips, s).sent \in Seq(Message)
  BY <1>1, SetKeysFacts DEF Announced
<1>3. \A k \in Key : Access(strips, k).sent \in Seq(Message)
  BY <1>1, AccessFacts DEF Announced
<1>4. \A s \in Seq(Message) : \A m \in Message : Append(s, m) \in Seq(Message)
  OBVIOUS
<1>5. ASSUME NEW s \in ControllerKeys, ControllerSetKeys(s)
      PROVE  down'[g] # Tail(down[g])
  <2>1. s \in Seq(Key)
    BY StripListAssumption DEF Key
  <2>2. Broadcast(SetKeys(strips, s).sent)
    BY <1>5 DEF ControllerSetKeys
  <2> QED
    BY <1>2, <2>1, <2>2, BroadcastKeeps
<1>6. ASSUME NEW k \in Key, ControllerAccess(k)
      PROVE  down'[g] # Tail(down[g])
  <2>1. Broadcast(Append(Access(strips, k).sent, Item(k)))
    BY <1>6 DEF ControllerAccess
  <2>2. Append(Access(strips, k).sent, Item(k)) \in Seq(Message)
    BY <1>3, <1>4, OneMessage
  <2> QED
    BY <2>1, <2>2, BroadcastKeeps
<1>7. ASSUME NEW h \in Gui, ServerReceive(h)
      PROVE  down'[g] # Tail(down[g])
  <2> DEFINE m == Head(up[h])
  <2>1. m \in Message \cup {Dump}
    <3>1. up[h] \in Seq(Message \cup {Dump}) /\ up[h] # <<>>
      BY <1>7 DEF IInv, FlightInv, ServerReceive
    <3> QED
      BY <3>1
  <2>2. CASE m.type = "dump" /\ Broadcast(DumpOf(strips))
    <3>1. DumpOf(strips) \in Seq(Message)
      BY <1>1, DumpFacts DEF Announced
    <3> QED
      BY <2>2, <3>1, BroadcastKeeps
  <2>3. CASE m.type = "keys" /\ Broadcast(SetKeys(strips, m.keys).sent)
    <3>1. m.keys \in Seq(Key)
      BY <2>1, <2>3 DEF Message, Dump
    <3> QED
      BY <1>2, <2>3, <3>1, BroadcastKeeps
  <2>4. CASE /\ m.type = "item"
             /\ \/ Broadcast(Access(strips, m.key).sent)
                \/ Broadcast(Append(Access(strips, m.key).sent, m))
    <3>1. m.key \in Key /\ m \in Message
      BY <2>1, <2>4 DEF Message, Dump
    <3>2. /\ Access(strips, m.key).sent \in Seq(Message)
          /\ Append(Access(strips, m.key).sent, m) \in Seq(Message)
      BY <1>3, <1>4, <3>1
    <3> QED
      BY <2>4, <3>2, BroadcastKeeps
  <2> QED
    BY <1>7, <2>2, <2>3, <2>4 DEF ServerReceive
<1> QED
  BY <1>5, <1>6, <1>7

\* ReconcileExact: receiving a list of keys, from any layout, leaves exactly that list
\* in that order.
THEOREM Reconciled == Spec => ReconcileExact
<1> DEFINE Exact ==
      \A g \in Gui :
          /\ online'[g]
          /\ down[g] # <<>> /\ down'[g] = Tail(down[g]) /\ Head(down[g]).type = "keys"
          => order'[g] = Head(down[g]).keys
<1>1. ASSUME IInv, Next
      PROVE  Exact
  <2> SUFFICES ASSUME NEW g \in Gui,
                      online'[g], down[g] # <<>>, down'[g] = Tail(down[g]),
                      Head(down[g]).type = "keys"
               PROVE  order'[g] = Head(down[g]).keys
    OBVIOUS
  <2>1. /\ down \in [Gui -> Seq(Message)] /\ online \in [Gui -> BOOLEAN]
        /\ order \in [Gui -> Seq(Key)] /\ IsInjective(order[g])
        /\ Telling(down[g], strips)
    BY <1>1 DEF IInv, FlightInv, LayoutInv, Telling
  <2>2. down' # down
    <3>1. down[g] # Tail(down[g])
      BY <2>1, TailShorter
    <3> QED
      BY <3>1
  <2>3. PICK h \in Gui : GuiReceive(h) \/ Disconnect(h)
    <3>1. ~(\/ \E s \in ControllerKeys : ControllerSetKeys(s)
            \/ \E k \in Key : ControllerAccess(k)
            \/ \E h \in Gui : ServerReceive(h))
      BY <1>1, ServerKeeps
    <3>2. \A h \in Gui : /\ ~GuiAdd(h) /\ ~Connect(h)
                         /\ \A k \in Key : ~GuiRemove(h, k) /\ ~GuiEdit(h, k)
                         /\ \A k, target \in Key, before \in BOOLEAN : ~GuiMove(h, k, target, before)
      BY <2>2 DEF GuiAdd, Connect, GuiRemove, GuiEdit, GuiMove
    <3> QED
      BY <1>1, <3>1, <3>2 DEF Next
  <2>4. h = g
    <3>1. \E t \in {Tail(down[h]), <<>>} : down' = [down EXCEPT ![h] = t]
      BY <2>3 DEF GuiReceive, Disconnect
    <3>2. h # g => down'[g] = down[g]
      BY <2>1, <3>1
    <3> QED
      BY <2>1, <3>2, TailShorter
  <2>5. GuiReceive(g)
    <3>1. ~Disconnect(g)
      BY <2>1 DEF Disconnect
    <3> QED
      BY <2>3, <2>4, <3>1
  <2> DEFINE new == Head(down[g]).keys
             R   == Reconcile(order[g], new)
  <2>6. order' = [order EXCEPT ![g] = R.order]
    <3>1. Head(down[g]).type # "item"
      OBVIOUS
    <3> QED
      BY <2>5, <3>1 DEF GuiReceive
  <2>7. new \in Seq(Key) /\ IsInjective(new)
    <3>1. Head(down[g]) \in Message
      BY <2>1, TailFacts
    <3>2. IsInjective(Head(down[g]).keys)
      BY <2>1, HeadTold
    <3> QED
      BY <3>1, <3>2 DEF Message
  <2> HIDE DEF new
  <2>8. R = [order |-> new, aborted |-> FALSE]
    BY <2>1, <2>7, ReconcileFacts
  <2> HIDE DEF R
  <2>9. order'[g] = R.order /\ R.order = new
    BY <2>1, <2>6, <2>8
  <2> QED
    BY <2>9 DEF new
<1>2. ASSUME IInv, UNCHANGED vars
      PROVE  Exact
  <2>1. down' = down
    BY <1>2 DEF vars
  <2>2. \A g \in Gui : down[g] # <<>> => down[g] # Tail(down[g])
    BY <1>2, TailShorter DEF IInv, FlightInv
  <2> QED
    BY <2>1, <2>2
<1>3. IInv /\ [Next]_vars => [Exact]_vars
  BY <1>1, <1>2
<1> QED
  BY <1>3, Inductive, PTL DEF Spec, ReconcileExact

(***************************************************************************)
(* The per-channel arrays.  Their list of keys is that of the strips, but  *)
(* clients write any keys to it.                                           *)
(***************************************************************************)

\* The instance picks keys like the array of the strips.
LEMMA SamePick ==
  \A s, S : Channels!Pick(s, S) = Pick(s, S)
  BY DEF Channels!Pick, Pick, Channels!Keep, Keep, Channels!FoldLeft, FoldLeft, Channels!MapThenFoldSet, MapThenFoldSet, Channels!Max, Max, Contains, Channels!Contains

\* So does it count, choose and announce.
LEMMA SameOperators ==
  /\ \A s : Channels!ToSet(s) = ToSet(s)
  /\ \A S : Channels!Cardinality(S) = Cardinality(S)
  /\ \A S : Channels!Max(S) = Max(S)
  /\ \A S : Channels!KeyAfter(S) = KeyAfter(S)
  /\ \A s : Channels!Dedupe(s) = Dedupe(s)
  /\ \A k : Channels!Item(k) = Item(k) /\ Channels!Keys(k) = Keys(k)
  /\ \A a, s : Channels!Outcome(a, s) = Outcome(a, s)
<1>1. \A s : Channels!ToSet(s) = ToSet(s)
  BY DEF Channels!ToSet, ToSet
<1>2. \A S : Channels!Cardinality(S) = Cardinality(S)
  BY DEF Channels!Cardinality, Cardinality, Channels!IsFiniteSet, IsFiniteSet
<1>3. \A S : Channels!Max(S) = Max(S)
  BY DEF Channels!Max, Max
<1>4. \A S : Channels!KeyAfter(S) = KeyAfter(S)
  BY <1>3 DEF Channels!KeyAfter, KeyAfter
<1>5. \A s : Channels!Dedupe(s) = Dedupe(s)
  BY <1>1, SamePick DEF Channels!Dedupe, Dedupe
<1>6. \A k : Channels!Item(k) = Item(k) /\ Channels!Keys(k) = Keys(k)
  BY DEF Channels!Item, Item, Channels!Keys, Keys
<1>7. \A a, s : Channels!Outcome(a, s) = Outcome(a, s)
  BY DEF Channels!Outcome, Outcome
<1> QED
  BY <1>1, <1>2, <1>3, <1>4, <1>5, <1>6, <1>7

\* So does it set keys.
LEMMA SameSetKeys ==
  \A a, s : Channels!SetKeys(a, s) = SetKeys(a, s)
  BY SamePick, SameOperators, Zenon DEF Channels!SetKeys, SetKeys

\* And so does it insert and erase.
LEMMA SameRest ==
  /\ \A a, k : Channels!Insert(a, k) = Insert(a, k)
  /\ \A a : Channels!PushBack(a) = PushBack(a)
  /\ \A a, k : Channels!Erase(a, k) = Erase(a, k)
  /\ \A a, k : Channels!Access(a, k) = Access(a, k)
  BY SamePick, SameSetKeys DEF Channels!Insert, Insert, Channels!PushBack, PushBack, Channels!Erase, Erase, Channels!Access, Access, Channels!Outcome, Outcome, Channels!ToSet, ToSet

\* One round of resize(n).
Round(n, r) ==
    LET size == Cardinality(r.arr.value)
        next == IF size < n THEN PushBack(r.arr)
                ELSE IF size > n THEN Erase(r.arr, Max(r.arr.value))
                ELSE Outcome(r.arr, <<>>)
    IN  Outcome(next.arr, r.sent \o next.sent)

\* The outcome after each of the m rounds.
IsResizeRun(g, a, n, m) ==
    /\ g[0] = Outcome(a, <<>>)
    /\ \A k \in 1..m : g[k] = Round(n, g[k - 1])
    /\ Channels!Resize(a, n) = g[m]

\* resize() goes round by round.
LEMMA ResizeRun ==
  ASSUME NEW a, NEW n, NEW m \in Nat, m = Max({n, Cardinality(a.value)})
  PROVE  \E g : IsResizeRun(g, a, n, m)
<1> DEFINE Step(r) == LET size == Channels!Cardinality(r.arr.value)
                          next == IF size < n THEN Channels!PushBack(r.arr)
                                  ELSE IF size > n THEN Channels!Erase(r.arr, Channels!Max(r.arr.value))
                                  ELSE Channels!Outcome(r.arr, <<>>)
                      IN  Channels!Outcome(next.arr, r.sent \o next.sent)
           base == Channels!Outcome(a, <<>>)
           Body(h, x) == IF x = {} THEN base ELSE Step(h[x \ {Channels!Max(x)}])
           rounds == [i \in 1..Channels!Max({n, Channels!Cardinality(a.value)}) |-> i]
           D == {k \in Nat : \E h : h = [x \in SUBSET (1..k) |-> Body(h, x)]}
           iter == CHOOSE h : h = [x \in SUBSET (DOMAIN rounds) |-> Body(h, x)]
           g == [k \in 0..m |-> iter[1..k]]
<1>0. DOMAIN rounds = 1..m
  BY SameOperators
<1>1. Channels!Resize(a, n) = iter[1..m]
  <2>1. Channels!Resize(a, n) = iter[DOMAIN rounds]
    BY DEF Channels!Resize, Channels!FoldLeft, Channels!MapThenFoldSet
  <2> HIDE DEF iter, rounds
  <2> QED
    BY <1>0, <2>1
<1>2. 0 \in D
  <2> DEFINE h == [x \in SUBSET (1..0) |-> base]
  <2>1. \A x \in SUBSET (1..0) : x = {}
    OBVIOUS
  <2>2. h = [x \in SUBSET (1..0) |-> Body(h, x)]
    BY <2>1
  <2> QED
    BY <2>2
<1>3. ASSUME NEW k \in Nat, k \in D
      PROVE  k + 1 \in D
  <2>1. PICK h : h = [x \in SUBSET (1..k) |-> Body(h, x)]
    BY <1>3
  <2> DEFINE H == [x \in SUBSET (1..(k + 1)) |-> Body(h, x)]
  <2>2. \A x \in SUBSET (1..k) : H[x] = h[x]
    <3>1. SUBSET (1..k) \subseteq SUBSET (1..(k + 1))
      OBVIOUS
    <3>2. \A x \in SUBSET (1..k) : h[x] = Body(h, x)
      <4> HIDE DEF Body
      <4> QED
        BY <2>1, Zenon
    <3> HIDE DEF Body
    <3> QED
      BY <3>1, <3>2
  <2>3. \A x \in SUBSET (1..(k + 1)) : Body(h, x) = Body(H, x)
    <3>1. \A x \in SUBSET (1..(k + 1)) : x # {} => h[x \ {Channels!Max(x)}] = H[x \ {Channels!Max(x)}]
      <4> HIDE DEF H
      <4> QED
        BY <2>2, MaxFacts, SameOperators
    <3> HIDE DEF H, Step
    <3> QED
      BY <3>1, Zenon
  <2>4. H = [x \in SUBSET (1..(k + 1)) |-> Body(H, x)]
    <3>1. \A x \in SUBSET (1..(k + 1)) : H[x] = Body(H, x)
      <4>1. \A x \in SUBSET (1..(k + 1)) : H[x] = Body(h, x)
        BY Zenon
      <4> HIDE DEF H, Body
      <4> QED
        BY <2>3, <4>1
    <3>2. H = [x \in SUBSET (1..(k + 1)) |-> H[x]]
      OBVIOUS
    <3> HIDE DEF H, Body
    <3> QED
      BY <3>1, <3>2
  <2> QED
    <3> HIDE DEF H, Body
    <3> QED
      BY <2>4
<1>4. m \in D
  <2> HIDE DEF D
  <2> QED
    BY <1>2, <1>3, NatSetInduction
<1>5. iter = [x \in SUBSET (1..m) |-> Body(iter, x)]
  <2> HIDE DEF Body, rounds
  <2>1. \E h : h = [x \in SUBSET (DOMAIN rounds) |-> Body(h, x)]
    BY <1>0, <1>4, Zenon
  <2>2. iter = [x \in SUBSET (DOMAIN rounds) |-> Body(iter, x)]
    BY <2>1, Zenon
  <2> HIDE DEF iter
  <2> QED
    BY <1>0, <2>2, Zenon
<1>6. \A x \in SUBSET (1..m) : iter[x] = Body(iter, x)
  <2> HIDE DEF Body, iter
  <2> QED
    BY <1>5, Zenon
<1>7. g[0] = Outcome(a, <<>>)
  <2>1. (1..0) \in SUBSET (1..m) /\ 1..0 = {}
    OBVIOUS
  <2>2. iter[1..0] = base
    <3> HIDE DEF iter
    <3> QED
      BY <1>6, <2>1
  <2>3. base = Outcome(a, <<>>)
    BY SameOperators
  <2> HIDE DEF iter, base
  <2> QED
    BY <2>2, <2>3
<1>8. ASSUME NEW k \in 1..m
      PROVE  g[k] = Round(n, g[k - 1])
  <2>1. k \in Nat /\ k # 0 /\ (1..k) \in SUBSET (1..m) /\ 1..k # {}
    OBVIOUS
  <2>2. Channels!Max(1..k) = k /\ (1..k) \ {k} = 1..(k - 1)
    BY <2>1, MaxFacts, SameOperators
  <2>3. iter[1..k] = Step(iter[1..(k - 1)])
    <3> HIDE DEF iter, Step
    <3> QED
      BY <1>6, <2>1, <2>2
  <2>4. g[k] = iter[1..k] /\ g[k - 1] = iter[1..(k - 1)]
    <3> HIDE DEF iter
    <3> QED
      OBVIOUS
  <2>5. ASSUME NEW r PROVE Step(r) = Round(n, r)
    BY SameOperators, SameRest, Zenon DEF Round
  <2> HIDE DEF Step, iter, g
  <2> QED
    BY <2>3, <2>4, <2>5
<1>9. g[m] = iter[1..m]
  <2> HIDE DEF iter
  <2> QED
    OBVIOUS
<1> QED
  <2> HIDE DEF iter, g
  <2>1. IsResizeRun(g, a, n, m)
    BY <1>1, <1>7, <1>8, <1>9 DEF IsResizeRun
  <2> QED
    BY <2>1

\* An array in which every key has one item.
ListOK(a) ==
    /\ a = [keys |-> a.keys, value |-> a.value, nextKey |-> a.nextKey]
    /\ a.keys \in Seq(Int) /\ IsInjective(a.keys)
    /\ a.value = ToSet(a.keys)
    /\ a.nextKey \in Int

\* The keys of an array are finitely many numbers; some have a greatest.
LEMMA ItemFacts ==
  ASSUME NEW s \in Seq(Int)
  PROVE  /\ IsFiniteSet(ToSet(s)) /\ ToSet(s) \subseteq Int /\ Cardinality(ToSet(s)) \in Nat
         /\ ToSet(s) # {} => /\ Max(ToSet(s)) \in ToSet(s)
                             /\ \A x \in ToSet(s) : Max(ToSet(s)) >= x
<1> DEFINE n == Len(s)
           Read(k) == {s[i] : i \in 1..k}
           Has(k) == \E x \in Read(k) : \A y \in Read(k) : x >= y
           D == {k \in Nat : k <= n /\ k # 0 => Has(k)}
<1>1. n \in Nat /\ DOMAIN s = 1..n /\ \A i \in 1..n : s[i] \in Int
  OBVIOUS
<1>2. ToSet(s) = Read(n)
  BY <1>1 DEF ToSet
<1>3. IsFiniteSet(ToSet(s))
  <2>1. s \in [1..n -> ToSet(s)] /\ \A x \in ToSet(s) : \E i \in 1..n : s[i] = x
    BY <1>1, <1>2
  <2>2. s \in Surjection(1..n, ToSet(s))
    BY <2>1 DEF Surjection
  <2> QED
    BY <1>1, <2>2, FS_NatSurjection DEF ExistsSurjection
<1>4. 0 \in D
  OBVIOUS
<1>5. ASSUME NEW k \in Nat, k \in D
      PROVE  k + 1 \in D
  <2> SUFFICES ASSUME k + 1 <= n
               PROVE  Has(k + 1)
    <3> HIDE DEF Has
    <3> QED
      OBVIOUS
  <2>1. Read(k + 1) = Read(k) \cup {s[k + 1]}
    <3>1. 1..(k + 1) = (1..k) \cup {k + 1}
      OBVIOUS
    <3> QED
      BY <3>1
  <2>2. s[k + 1] \in Int /\ Read(k) \subseteq Int
    <3>1. k + 1 \in 1..n /\ \A i \in 1..k : i \in 1..n
      OBVIOUS
    <3> QED
      BY <1>1, <3>1
  <2>3. CASE k = 0
    <3>1. Read(k) = {}
      BY <2>3
    <3> DEFINE x == s[k + 1]
    <3>2. Read(k + 1) = {x} /\ x \in Int
      <4> HIDE DEF Read
      <4> QED
        BY <2>1, <2>2, <3>1
    <3> HIDE DEF Read, x
    <3>3. x \in Read(k + 1) /\ \A y \in Read(k + 1) : x >= y
      BY <3>2
    <3> QED
      BY <3>3, Zenon
  <2>4. CASE k # 0
    <3>1. PICK x \in Read(k) : \A y \in Read(k) : x >= y
      BY <1>5, <2>4
    <3> HIDE DEF Read
    <3> QED
      BY <2>1, <2>2, <3>1
  <2> QED
    BY <2>3, <2>4
<1>6. n \in D
  <2> HIDE DEF D
  <2> QED
    BY <1>1, <1>4, <1>5, NatSetInduction
<1>7. ASSUME ToSet(s) # {}
      PROVE  \E x \in ToSet(s) : \A y \in ToSet(s) : x >= y
  <2>1. n # 0
    BY <1>1, <1>2, <1>7
  <2>2. \E x \in Read(n) : \A y \in Read(n) : x >= y
    BY <1>6, <2>1
  <2> QED
    BY <1>2, <2>2
<1>8. ToSet(s) \subseteq Int
  BY <1>1, <1>2
<1>9. Cardinality(ToSet(s)) \in Nat
  BY <1>3, FS_CardinalityType
<1> QED
  <2> HIDE DEF n
  <2> QED
    BY <1>3, <1>7, <1>8, <1>9 DEF Max

\* The items follow the list of keys that is set; the next key only when some are destroyed.
LEMMA SetKeysArray ==
  ASSUME NEW a, ListOK(a), NEW new \in Seq(Int)
  PROVE  LET b == SetKeys(a, new).arr
         IN  /\ ListOK(b) /\ b.value = ToSet(new)
             /\ b.nextKey = IF a.value \ ToSet(new) = {} THEN a.nextKey ELSE KeyAfter(ToSet(new))
<1>1. CASE new = a.keys
  <2>1. SetKeys(a, new).arr = a
    BY <1>1 DEF SetKeys, Outcome
  <2> QED
    BY <1>1, <2>1 DEF ListOK
<1>2. CASE new # a.keys
  <2> DEFINE kept == Dedupe(new)
             S == ToSet(new)
             next == IF a.value \ ToSet(kept) = {} THEN a.nextKey ELSE KeyAfter(ToSet(kept))
             b == [keys |-> kept, value |-> ToSet(kept), nextKey |-> next]
  <2>1. SetKeys(a, new).arr = b
    BY <1>2 DEF SetKeys, Outcome
  <2>2. kept \in Seq(Int) /\ IsInjective(kept) /\ ToSet(kept) = S
    <3>1. kept = Pick(new, S)
      BY DEF Dedupe
    <3> HIDE DEF S, kept
    <3>2. Pick(new, S) \in Seq(Int) /\ IsInjective(Pick(new, S)) /\ ToSet(Pick(new, S)) = S \cap ToSet(new)
      BY PickFacts
    <3> QED
      BY <3>1, <3>2 DEF S
  <2>3. KeyAfter(S) \in Int
    <3>1. S # {} => Max(S) \in Int
      BY ItemFacts
    <3> QED
      BY <3>1 DEF KeyAfter
  <2>4. next \in Int
    <3> HIDE DEF kept, S
    <3> QED
      BY <2>2, <2>3 DEF ListOK
  <2>5. b.keys = kept /\ b.value = ToSet(kept) /\ b.nextKey = next
    OBVIOUS
  <2>6. next = IF a.value \ S = {} THEN a.nextKey ELSE KeyAfter(S)
    <3> HIDE DEF kept, S
    <3> QED
      BY <2>2
  <2> HIDE DEF kept, next, S
  <2>7. ListOK(b)
    BY <2>2, <2>4 DEF ListOK
  <2> QED
    BY <2>1, <2>2, <2>5, <2>6, <2>7 DEF S
<1> QED
  BY <1>1, <1>2

\* An item is inserted, or was there; the next key grows.
LEMMA InsertArray ==
  ASSUME NEW a, ListOK(a), NEW k \in Int
  PROVE  LET b == Insert(a, k).arr
         IN  /\ ListOK(b) /\ b.value = a.value \cup {k}
             /\ b.nextKey = IF a.nextKey <= k THEN k + 1 ELSE a.nextKey
<1> DEFINE c == [a EXCEPT !.nextKey = IF @ <= k THEN k + 1 ELSE @]
           new == Append(a.keys, k)
<1>1. Insert(a, k) = SetKeys(c, new)
  BY DEF Insert
<1>2. a.keys \in Seq(Int) /\ a.value = ToSet(a.keys) /\ a.nextKey \in Int
  BY DEF ListOK
<1>3. /\ c.keys = a.keys /\ c.value = a.value /\ c.nextKey = IF a.nextKey <= k THEN k + 1 ELSE a.nextKey
      /\ c = [keys |-> c.keys, value |-> c.value, nextKey |-> c.nextKey]
  BY DEF ListOK
<1> HIDE DEF c
<1>4. ListOK(c)
  BY <1>2, <1>3 DEF ListOK
<1>5. new \in Seq(Int) /\ ToSet(new) = a.value \cup {k}
  BY <1>2, AppendFacts
<1> HIDE DEF new
<1>6. /\ ListOK(SetKeys(c, new).arr) /\ SetKeys(c, new).arr.value = ToSet(new)
      /\ SetKeys(c, new).arr.nextKey = IF c.value \ ToSet(new) = {} THEN c.nextKey ELSE KeyAfter(ToSet(new))
  BY <1>4, <1>5, SetKeysArray
<1>7. c.value \ ToSet(new) = {}
  BY <1>3, <1>5
<1> QED
  BY <1>1, <1>3, <1>5, <1>6, <1>7

\* push_back() takes the next key, whether it is in use or not.
LEMMA PushBackArray ==
  ASSUME NEW a, ListOK(a)
  PROVE  LET b == PushBack(a).arr
         IN  ListOK(b) /\ b.value = a.value \cup {a.nextKey} /\ b.nextKey = a.nextKey + 1
<1> DEFINE c == [a EXCEPT !.nextKey = @ + 1]
<1>1. PushBack(a) = Insert(c, a.nextKey)
  BY DEF PushBack
<1>2. a.keys \in Seq(Int) /\ a.value = ToSet(a.keys) /\ a.nextKey \in Int
  BY DEF ListOK
<1>3. /\ c.keys = a.keys /\ c.value = a.value /\ c.nextKey = a.nextKey + 1
      /\ c = [keys |-> c.keys, value |-> c.value, nextKey |-> c.nextKey]
  BY DEF ListOK
<1> HIDE DEF c
<1>4. ListOK(c)
  BY <1>2, <1>3 DEF ListOK
<1>5. LET b == Insert(c, a.nextKey).arr
      IN  /\ ListOK(b) /\ b.value = c.value \cup {a.nextKey}
          /\ b.nextKey = IF c.nextKey <= a.nextKey THEN a.nextKey + 1 ELSE c.nextKey
  BY <1>2, <1>4, InsertArray
<1>6. ~(c.nextKey <= a.nextKey)
  BY <1>2, <1>3
<1> QED
  BY <1>1, <1>3, <1>5, <1>6

\* An item is erased, and the next key computed.
LEMMA EraseArray ==
  ASSUME NEW a, ListOK(a), NEW k \in a.value
  PROVE  LET b == Erase(a, k).arr
         IN  ListOK(b) /\ b.value = a.value \ {k} /\ b.nextKey = KeyAfter(a.value \ {k})
<1> DEFINE S == ToSet(a.keys) \ {k}
           new == Pick(a.keys, S)
<1>1. Erase(a, k) = SetKeys(a, new)
  BY DEF Erase
<1>2. a.keys \in Seq(Int) /\ a.value = ToSet(a.keys)
  BY DEF ListOK
<1>3. new \in Seq(Int) /\ ToSet(new) = a.value \ {k}
  <2> HIDE DEF S
  <2>1. Pick(a.keys, S) \in Seq(Int) /\ ToSet(Pick(a.keys, S)) = S \cap ToSet(a.keys)
    BY <1>2, PickFacts
  <2> QED
    BY <1>2, <2>1 DEF S
<1> HIDE DEF new
<1>4. LET b == SetKeys(a, new).arr
      IN  /\ ListOK(b) /\ b.value = ToSet(new)
          /\ b.nextKey = IF a.value \ ToSet(new) = {} THEN a.nextKey ELSE KeyAfter(ToSet(new))
  BY <1>3, SetKeysArray
<1>5. a.value \ ToSet(new) # {}
  BY <1>3
<1> QED
  BY <1>1, <1>3, <1>4, <1>5

\* The keys in use that the next keys will come to.
Ahead(a) == {x \in a.value : x >= a.nextKey}

\* What i rounds of resize(n) have done, from an array of size items.
Progress(b, n, size, i) ==
    LET now == Cardinality(b.value)
    IN  \/ now = n
        \/ now < n /\ now >= i + Cardinality(Ahead(b))
        \/ now > n /\ now <= size - i

\* One element more or less.
LEMMA CountFacts ==
  ASSUME NEW S, IsFiniteSet(S), NEW x
  PROVE  /\ Cardinality(S) \in Nat
         /\ Cardinality(S \cup {x}) = IF x \in S THEN Cardinality(S) ELSE Cardinality(S) + 1
         /\ Cardinality(S \ {x}) = IF x \in S THEN Cardinality(S) - 1 ELSE Cardinality(S)
BY FS_AddElement, FS_RemoveElement, FS_CardinalityType

\* A round adds an item, passes a key in use or erases an item, until there are n.
LEMMA RoundProgress ==
  ASSUME NEW r, ListOK(r.arr), NEW n \in Nat, NEW size \in Nat, NEW i \in Nat,
         Progress(r.arr, n, size, i)
  PROVE  ListOK(Round(n, r).arr) /\ Progress(Round(n, r).arr, n, size, i + 1)
<1> DEFINE a == r.arr
           now == Cardinality(a.value)
           b == Round(n, r).arr
<1>1. /\ b = IF now < n THEN PushBack(a).arr ELSE IF now > n THEN Erase(a, Max(a.value)).arr ELSE a
  BY Zenon DEF Round, Outcome
<1>2. /\ IsFiniteSet(a.value) /\ a.value \subseteq Int /\ now \in Nat /\ a.nextKey \in Int
      /\ a.value # {} => Max(a.value) \in a.value
  BY ItemFacts DEF ListOK
<1> HIDE DEF b
<1>3. CASE now < n
  <2>1. ListOK(b) /\ b.value = a.value \cup {a.nextKey} /\ b.nextKey = a.nextKey + 1
    BY <1>1, <1>3, PushBackArray
  <2>2. IsFiniteSet(Ahead(a)) /\ Cardinality(Ahead(a)) \in Nat
    <3>1. Ahead(a) \in SUBSET a.value
      BY DEF Ahead
    <3>2. IsFiniteSet(Ahead(a))
      BY <1>2, <3>1, FS_Subset
    <3> QED
      BY <3>2, FS_CardinalityType
  <2>3. Ahead(b) = Ahead(a) \ {a.nextKey}
    BY <1>2, <2>1 DEF Ahead
  <2>4. Cardinality(Ahead(b)) = IF a.nextKey \in a.value THEN Cardinality(Ahead(a)) - 1
                                                           ELSE Cardinality(Ahead(a))
    <3>1. a.nextKey \in Ahead(a) <=> a.nextKey \in a.value
      BY <1>2 DEF Ahead
    <3> DEFINE S == Ahead(a)
               x == a.nextKey
    <3>2. IsFiniteSet(S)
      BY <2>2
    <3> HIDE DEF S, x
    <3>3. Cardinality(S \ {x}) = IF x \in S THEN Cardinality(S) - 1 ELSE Cardinality(S)
      BY <3>2, CountFacts
    <3> QED
      BY <2>3, <3>1, <3>3 DEF S, x
  <2>5. Cardinality(b.value) = IF a.nextKey \in a.value THEN now ELSE now + 1
    <3> DEFINE S == a.value
               x == a.nextKey
    <3>1. IsFiniteSet(S)
      BY <1>2
    <3> HIDE DEF S, x
    <3>2. Cardinality(S \cup {x}) = IF x \in S THEN Cardinality(S) ELSE Cardinality(S) + 1
      BY <3>1, CountFacts
    <3> QED
      BY <2>1, <3>2 DEF S, x
  <2>6. now >= i + Cardinality(Ahead(a))
    BY <1>2, <1>3 DEF Progress
  <2> HIDE DEF now, a
  <2>7. Cardinality(b.value) <= n
    BY <1>2, <1>3, <2>5
  <2>8. Cardinality(b.value) >= (i + 1) + Cardinality(Ahead(b))
    BY <1>2, <2>2, <2>4, <2>5, <2>6
  <2>9. Cardinality(b.value) \in Nat
    BY <1>2, <2>5
  <2> QED
    BY <2>1, <2>7, <2>8, <2>9 DEF Progress, b, a
<1>4. CASE now > n
  <2>1. a.value # {}
    BY <1>4, FS_EmptySet
  <2>2. Max(a.value) \in a.value
    BY <1>2, <2>1
  <2>3. b = Erase(a, Max(a.value)).arr
    BY <1>1, <1>2, <1>4
  <2> DEFINE k == Max(a.value)
  <2> HIDE DEF k
  <2>4. ListOK(b) /\ b.value = a.value \ {k}
    BY <2>2, <2>3, EraseArray DEF k
  <2>5. Cardinality(b.value) = now - 1
    <3> DEFINE S == a.value
    <3>1. IsFiniteSet(S) /\ k \in S
      BY <1>2, <2>2 DEF k
    <3> HIDE DEF S
    <3>2. Cardinality(S \ {k}) = IF k \in S THEN Cardinality(S) - 1 ELSE Cardinality(S)
      BY <3>1, CountFacts
    <3> QED
      BY <2>4, <3>1, <3>2 DEF S
  <2>6. now <= size - i
    BY <1>2, <1>4 DEF Progress
  <2> HIDE DEF now, a
  <2>7. Cardinality(b.value) = n \/ (Cardinality(b.value) > n /\ Cardinality(b.value) <= size - (i + 1))
    BY <1>2, <1>4, <2>5, <2>6
  <2> QED
    BY <2>4, <2>7 DEF Progress, b, a
<1>5. CASE now = n
  <2>1. b = a
    BY <1>1, <1>2, <1>5
  <2> QED
    BY <1>5, <2>1 DEF Progress, b, a
<1> QED
  BY <1>2, <1>3, <1>4, <1>5

\* The items are the first c channels, and the next key is no later than theirs.
Numbered(a, c) == a.value = 0..(c - 1) /\ a.nextKey \in 0..c

\* A round adds the next channel or erases the last one.
LEMMA RoundCounted ==
  ASSUME NEW r, ListOK(r.arr), NEW n \in Nat, NEW c \in Nat, Numbered(r.arr, c)
  PROVE  \E d \in Nat : Numbered(Round(n, r).arr, d)
<1> DEFINE a == r.arr
           b == Round(n, r).arr
<1>1. Cardinality(a.value) = c
  <2>1. Cardinality(0..(c - 1)) = IF 0 > c - 1 THEN 0 ELSE (c - 1) - 0 + 1
    BY FS_Interval
  <2> QED
    BY <2>1 DEF Numbered
<1>2. b = IF c < n THEN PushBack(a).arr ELSE IF c > n THEN Erase(a, Max(a.value)).arr ELSE a
  BY <1>1, Zenon DEF Round, Outcome
<1> HIDE DEF b
<1>3. a.value = 0..(c - 1) /\ a.nextKey \in 0..c
  BY DEF Numbered
<1>4. CASE c < n
  <2>1. b.value = a.value \cup {a.nextKey} /\ b.nextKey = a.nextKey + 1
    BY <1>2, <1>4, PushBackArray
  <2>2. CASE a.nextKey = c
    <3>1. b.value = 0..((c + 1) - 1) /\ b.nextKey \in 0..(c + 1)
      BY <1>3, <2>1, <2>2
    <3>2. Numbered(b, c + 1) /\ c + 1 \in Nat
      BY <3>1 DEF Numbered
    <3> QED
      BY <3>2 DEF b
  <2>3. CASE a.nextKey # c
    <3>1. b.value = 0..(c - 1) /\ b.nextKey \in 0..c
      BY <1>3, <2>1, <2>3
    <3>2. Numbered(b, c)
      BY <3>1 DEF Numbered
    <3> QED
      BY <3>2 DEF b
  <2> QED
    BY <2>2, <2>3
<1>5. CASE c > n
  <2>1. ASSUME NEW e \in Nat, e # 0
        PROVE  Max(0..(e - 1)) = e - 1
    <3>1. e - 1 \in 0..(e - 1) /\ \A x \in 0..(e - 1) : e - 1 >= x
      BY <2>1
    <3>2. \A y \in 0..(e - 1) : (\A x \in 0..(e - 1) : y >= x) => y = e - 1
      BY <3>1
    <3> QED
      BY <3>1, <3>2 DEF Max
  <2>2. Max(a.value) = c - 1 /\ c - 1 \in a.value
    BY <1>3, <1>5, <2>1
  <2>3. b.value = a.value \ {c - 1} /\ b.nextKey = KeyAfter(a.value \ {c - 1})
    <3>1. \A k \in a.value : /\ Erase(a, k).arr.value = a.value \ {k}
                              /\ Erase(a, k).arr.nextKey = KeyAfter(a.value \ {k})
      BY EraseArray
    <3>2. b = Erase(a, c - 1).arr
      BY <1>2, <1>5, <2>2
    <3> QED
      BY <2>2, <3>1, <3>2
  <2>4. a.value \ {c - 1} = 0..((c - 1) - 1) /\ c - 1 \in Nat
    BY <1>3, <1>5
  <2>5. KeyAfter(0..((c - 1) - 1)) = c - 1
    <3>1. CASE c - 1 = 0
      BY <3>1 DEF KeyAfter
    <3>2. CASE c - 1 # 0
      <4>1. Max(0..((c - 1) - 1)) = (c - 1) - 1
        BY <2>1, <2>4, <3>2
      <4>2. 0..((c - 1) - 1) # {}
        <5>1. c - 1 \in Nat
          BY <2>4
        <5>2. 0 \in 0..((c - 1) - 1)
          BY <3>2, <5>1
        <5> QED
          BY <5>2
      <4>3. ((c - 1) - 1) + 1 = c - 1
        OBVIOUS
      <4> QED
        BY <4>1, <4>2, <4>3 DEF KeyAfter
    <3> QED
      BY <3>1, <3>2
  <2>6. Numbered(b, c - 1)
    <3> DEFINE d == c - 1
    <3>1. b.value = 0..(d - 1) /\ b.nextKey = d /\ d \in Nat
      BY <2>3, <2>4, <2>5
    <3> HIDE DEF d
    <3>2. Numbered(b, d)
      BY <3>1 DEF Numbered
    <3> QED
      BY <3>2 DEF d
  <2> QED
    BY <2>4, <2>6 DEF b
<1>6. CASE c = n
  BY <1>2, <1>6 DEF b
<1> QED
  BY <1>4, <1>5, <1>6

\* resize(n) ends with n items, whatever keys are in use and whichever is the next;
\* the items of consecutive channels stay consecutive.
LEMMA ResizeFacts ==
  ASSUME NEW a, ListOK(a), NEW n \in Nat
  PROVE  LET b == Channels!Resize(a, n).arr
         IN  /\ ListOK(b) /\ Cardinality(b.value) = n
             /\ (\E c \in Nat : Numbered(a, c)) => Numbered(b, n)
<1> DEFINE size == Cardinality(a.value)
           m == Max({n, size})
           Known == \E c \in Nat : Numbered(a, c)
<1>1. IsFiniteSet(a.value) /\ size \in Nat
  BY ItemFacts DEF ListOK
<1>2. m \in Nat /\ m >= n /\ m >= size
  <2> HIDE DEF size
  <2>1. \E x \in {n, size} : \A y \in {n, size} : x >= y
    <3>1. CASE n >= size
      BY <1>1, <3>1
    <3>2. CASE ~(n >= size)
      BY <1>1, <3>2
    <3> QED
      BY <3>1, <3>2
  <2> QED
    BY <1>1, <2>1 DEF Max
<1> HIDE DEF m
<1>3. PICK g : IsResizeRun(g, a, n, m)
  BY <1>2, ResizeRun DEF m
<1> HIDE DEF size, Known
<1> DEFINE Good(i) == /\ ListOK(g[i].arr) /\ Progress(g[i].arr, n, size, i)
                      /\ Known => \E c \in Nat : Numbered(g[i].arr, c)
           D == {i \in Nat : i <= m => Good(i)}
<1>4. 0 \in D
  <2>1. g[0].arr = a
    BY <1>3 DEF IsResizeRun, Outcome
  <2>2. Cardinality(Ahead(a)) \in Nat /\ Cardinality(Ahead(a)) <= size
    <3>1. Ahead(a) \in SUBSET a.value
      BY DEF Ahead
    <3>2. IsFiniteSet(Ahead(a)) /\ Cardinality(Ahead(a)) <= size
      BY <1>1, <3>1, FS_Subset DEF size
    <3> QED
      BY <3>2, FS_CardinalityType
  <2>3. Progress(a, n, size, 0)
    <3>1. size = n \/ (size < n /\ size >= 0 + Cardinality(Ahead(a))) \/ (size > n /\ size <= size - 0)
      BY <1>1, <2>2
    <3> QED
      BY <3>1 DEF Progress, size
  <2> QED
    BY <2>1, <2>3 DEF Known
<1>5. ASSUME NEW i \in Nat, i \in D
      PROVE  i + 1 \in D
  <2> SUFFICES ASSUME i + 1 <= m
               PROVE  Good(i + 1)
    <3> HIDE DEF Good
    <3> QED
      OBVIOUS
  <2>1. Good(i)
    <3> HIDE DEF Good
    <3> QED
      BY <1>2, <1>5
  <2>2. i + 1 \in 1..m /\ (i + 1) - 1 = i
    BY <1>2
  <2>3. g[i + 1] = Round(n, g[i])
    BY <1>3, <2>2 DEF IsResizeRun
  <2>4. ListOK(g[i + 1].arr) /\ Progress(g[i + 1].arr, n, size, i + 1)
    BY <1>1, <2>1, <2>3, RoundProgress
  <2>5. ASSUME Known
        PROVE  \E d \in Nat : Numbered(g[i + 1].arr, d)
    <3>1. PICK c \in Nat : Numbered(g[i].arr, c)
      BY <2>1, <2>5
    <3> QED
      BY <2>1, <2>3, <3>1, RoundCounted
  <2> QED
    BY <2>4, <2>5
<1>6. m \in D
  <2> HIDE DEF D
  <2> QED
    BY <1>2, <1>4, <1>5, NatSetInduction
<1> DEFINE b == g[m].arr
<1>7. ListOK(b) /\ Progress(b, n, size, m) /\ (Known => \E c \in Nat : Numbered(b, c))
  BY <1>2, <1>6
<1>8. Channels!Resize(a, n).arr = b
  BY <1>3 DEF IsResizeRun
<1> HIDE DEF b
<1>9. IsFiniteSet(b.value) /\ Cardinality(b.value) \in Nat
  BY <1>7, ItemFacts DEF ListOK
<1>10. Cardinality(b.value) = n
  <2>1. Cardinality(Ahead(b)) \in Nat
    <3>1. Ahead(b) \in SUBSET b.value
      BY DEF Ahead
    <3>2. IsFiniteSet(Ahead(b))
      BY <1>9, <3>1, FS_Subset
    <3> QED
      BY <3>2, FS_CardinalityType
  <2> QED
    BY <1>1, <1>2, <1>7, <1>9, <2>1 DEF Progress
<1>11. ASSUME NEW c \in Nat, Numbered(b, c)
       PROVE  Numbered(b, n)
  <2>1. Cardinality(0..(c - 1)) = IF 0 > c - 1 THEN 0 ELSE (c - 1) - 0 + 1
    BY FS_Interval
  <2>2. c = n
    BY <1>10, <1>11, <2>1 DEF Numbered
  <2> QED
    BY <1>11, <2>2
<1> QED
  BY <1>7, <1>8, <1>10, <1>11 DEF Known

\* The array is well formed.  An empty one, which only clients leave, gives out keys from
\* 0 on again.  One that only the server changed holds its channels, and its next key may
\* lag behind after a restart.
ChannelsInv ==
    /\ ListOK(arr)
    /\ channels \in 1..MaxChannels /\ touched \in BOOLEAN
    /\ arr.value = {} => arr.nextKey = 0
    /\ ~touched => Numbered(arr, channels)

\* The array that the constructor makes.
LEMMA ConstructedFacts ==
  ListOK(Channels!Constructed) /\ Numbered(Channels!Constructed, DefaultChannels)
<1>1. Channels!Empty = [keys |-> <<>>, value |-> {}, nextKey |-> 0]
  BY DEF Channels!Empty
<1> DEFINE e == Channels!Empty
<1>2. e.keys = <<>> /\ e.value = {} /\ e.nextKey = 0 /\ e = [keys |-> e.keys, value |-> e.value, nextKey |-> e.nextKey]
  BY <1>1
<1> HIDE DEF e
<1>3. <<>> \in Seq(Int) /\ IsInjective(<<>>) /\ ToSet(<<>>) = {}
  BY DEF IsInjective, ToSet
<1>4. ListOK(e)
  BY <1>2, <1>3 DEF ListOK
<1>5. Numbered(e, 0)
  BY <1>2 DEF Numbered
<1>6. DefaultChannels \in Nat
  BY ChannelAssumption
<1>7. LET b == Channels!Resize(e, DefaultChannels).arr
      IN  /\ ListOK(b) /\ Cardinality(b.value) = DefaultChannels
          /\ (\E c \in Nat : Numbered(e, c)) => Numbered(b, DefaultChannels)
  BY <1>4, <1>6, ResizeFacts
<1>8. \E c \in Nat : Numbered(e, c)
  BY <1>5
<1> QED
  BY <1>7, <1>8 DEF Channels!Constructed, e

\* Some channels are some items.
LEMMA CountedFacts ==
  ASSUME NEW a, NEW c \in Nat, c # 0, Numbered(a, c)
  PROVE  a.value # {} /\ KeyAfter(a.value) = c /\ Cardinality(a.value) = c
<1>1. a.value = 0..(c - 1)
  BY DEF Numbered
<1>2. c - 1 \in 0..(c - 1) /\ \A x \in 0..(c - 1) : c - 1 >= x
  OBVIOUS
<1>3. \A y \in 0..(c - 1) : (\A x \in 0..(c - 1) : y >= x) => y = c - 1
  BY <1>2
<1>4. Max(0..(c - 1)) = c - 1
  BY <1>2, <1>3 DEF Max
<1>5. KeyAfter(a.value) = (c - 1) + 1
  BY <1>1, <1>2, <1>4 DEF KeyAfter
<1>6. Cardinality(0..(c - 1)) = IF 0 > c - 1 THEN 0 ELSE (c - 1) - 0 + 1
  BY FS_Interval
<1> QED
  BY <1>1, <1>2, <1>5, <1>6

\* The array of a strip, under every step of the server and of its clients.
LEMMA ChannelSteps ==
  ASSUME ChannelsInv, Channels!Next
  PROVE  ChannelsInv'
<1>1. /\ ListOK(arr) /\ channels \in Nat /\ channels # 0 /\ channels \in 1..MaxChannels
      /\ arr.keys \in Seq(Int) /\ arr.value = ToSet(arr.keys)
  BY ChannelAssumption DEF ChannelsInv, ListOK
<1>2. ASSUME NEW n \in 0..(MaxChannels + 1), Channels!SetChannels(n)
      PROVE  ChannelsInv'
  <2>1. /\ n \in 1..MaxChannels /\ channels' = n /\ arr' = Channels!Resize(arr, n).arr
        /\ touched' = (touched /\ arr.value # {})
    BY <1>2 DEF Channels!SetChannels, Channels!ValidChannels
  <2>2. n \in Nat /\ n # 0
    BY <2>1
  <2>3. /\ ListOK(arr') /\ Cardinality(arr'.value) = n
        /\ (\E c \in Nat : Numbered(arr, c)) => Numbered(arr', n)
    BY <1>1, <2>1, <2>2, ResizeFacts
  <2>4. arr'.value # {}
    BY <2>2, <2>3, FS_EmptySet
  <2>5. ASSUME ~touched'
        PROVE  Numbered(arr', n)
    <3>1. CASE ~touched
      BY <1>1, <2>3, <3>1 DEF ChannelsInv
    <3>2. CASE arr.value = {}
      <4>1. arr.nextKey = 0
        BY <3>2 DEF ChannelsInv
      <4>2. Numbered(arr, 0)
        BY <3>2, <4>1 DEF Numbered
      <4> QED
        BY <2>3, <4>2
    <3> QED
      BY <2>1, <2>5, <3>1, <3>2
  <2>6. touched' \in BOOLEAN
    BY <2>1
  <2> QED
    BY <2>1, <2>3, <2>4, <2>5, <2>6 DEF ChannelsInv
<1>3. ASSUME NEW s \in Channels!BoundedSeq(ClientKeys, MaxClientKeys), Channels!ClientSetKeys(s)
      PROVE  ChannelsInv'
  <2>1. s \in Seq(Int)
    <3>1. ClientKeys \subseteq Int /\ MaxClientKeys \in Nat
      BY ChannelAssumption
    <3>2. PICK k \in 0..MaxClientKeys : s \in [1..k -> ClientKeys]
      BY DEF Channels!BoundedSeq, Channels!SeqOf
    <3>3. k \in Nat
      BY <3>1
    <3>4. \A S, T : S \subseteq T => [1..k -> S] \subseteq [1..k -> T]
      OBVIOUS
    <3>5. s \in [1..k -> Int]
      BY <3>1, <3>2, <3>4, Zenon
    <3> QED
      BY <3>3, <3>5, SeqDef
  <2>2. /\ arr' = SetKeys(arr, s).arr /\ touched' = (touched \/ arr'.keys # arr.keys) /\ channels' = channels
    BY <1>3, SameSetKeys DEF Channels!ClientSetKeys
  <2>3. /\ ListOK(arr') /\ arr'.value = ToSet(s)
        /\ arr'.nextKey = IF arr.value \ ToSet(s) = {} THEN arr.nextKey ELSE KeyAfter(ToSet(s))
    BY <1>1, <2>1, <2>2, SetKeysArray
  <2>4. arr'.value = {} => arr'.nextKey = 0
    <3>1. CASE arr.value = {}
      BY <2>3, <3>1 DEF ChannelsInv
    <3>2. CASE arr.value # {}
      BY <2>3, <3>2 DEF KeyAfter
    <3> QED
      BY <3>1, <3>2
  <2>5. ASSUME ~touched'
        PROVE  Numbered(arr', channels)
    <3>1. ~touched /\ arr'.keys = arr.keys
      BY <2>2, <2>5
    <3>2. arr'.value = arr.value
      BY <2>3, <3>1 DEF ListOK, ChannelsInv
    <3>3. arr'.nextKey = arr.nextKey
      BY <2>3, <3>2
    <3> QED
      BY <3>1, <3>2, <3>3 DEF ChannelsInv, Numbered
  <2>6. touched' \in BOOLEAN
    BY <2>2 DEF ChannelsInv
  <2> QED
    BY <1>1, <2>2, <2>3, <2>4, <2>5, <2>6 DEF ChannelsInv
<1>4. ASSUME NEW k \in ClientKeys \cap Nat, Channels!ClientAccess(k)
      PROVE  ChannelsInv'
  <2>1. /\ arr' = Access(arr, k).arr /\ touched' = (touched \/ arr'.keys # arr.keys) /\ channels' = channels
    BY <1>4, SameRest DEF Channels!ClientAccess
  <2>2. touched' \in BOOLEAN
    BY <2>1 DEF ChannelsInv
  <2>3. CASE k \in arr.value
    <3>1. arr' = arr
      BY <2>1, <2>3 DEF Access, Outcome
    <3> QED
      BY <2>1, <2>2, <3>1 DEF ChannelsInv
  <2>4. CASE k \notin arr.value
    <3>1. arr' = Insert(arr, k).arr
      BY <2>1, <2>4 DEF Access
    <3>2. ListOK(arr') /\ arr'.value = arr.value \cup {k}
      <4>1. k \in Int /\ ListOK(arr)
        BY <1>1
      <4>2. ListOK(Insert(arr, k).arr) /\ Insert(arr, k).arr.value = arr.value \cup {k}
        BY <4>1, InsertArray
      <4> QED
        BY <3>1, <4>2
    <3>3. arr'.keys # arr.keys
      BY <1>1, <2>4, <3>2 DEF ListOK
    <3> QED
      BY <1>1, <2>1, <2>2, <3>2, <3>3 DEF ChannelsInv
  <2> QED
    BY <2>3, <2>4
<1>5. CASE Channels!Restart
  <2> DEFINE built == Channels!Resize(Channels!Constructed, channels).arr
             loaded == SetKeys(Channels!Constructed, arr.keys).arr
             D == DefaultChannels
  <2>1. /\ channels' = channels /\ touched' = touched
        /\ \/ arr' = SetKeys(built, arr.keys).arr
           \/ arr' = Channels!Resize(loaded, channels).arr
    BY <1>5, SameSetKeys DEF Channels!Restart
  <2>2. ListOK(Channels!Constructed) /\ Numbered(Channels!Constructed, D) /\ D \in Nat /\ D # 0
    BY ConstructedFacts, ChannelAssumption
  <2>3. ListOK(built) /\ Numbered(built, channels)
    BY <1>1, <2>2, ResizeFacts
  <2>4. /\ ListOK(loaded) /\ loaded.value = arr.value
        /\ loaded.nextKey = IF Channels!Constructed.value \ arr.value = {}
                            THEN Channels!Constructed.nextKey ELSE KeyAfter(arr.value)
    BY <1>1, <2>2, SetKeysArray
  <2> HIDE DEF built, loaded
  <2>5. CASE arr' = SetKeys(built, arr.keys).arr
    <3>1. /\ ListOK(arr') /\ arr'.value = arr.value
          /\ arr'.nextKey = IF built.value \ arr.value = {} THEN built.nextKey ELSE KeyAfter(arr.value)
      BY <1>1, <2>3, <2>5, SetKeysArray
    <3>2. ASSUME arr'.value = {}
          PROVE  arr'.nextKey = 0
      <4>1. built.value # {}
        BY <1>1, <2>3, CountedFacts
      <4> QED
        BY <3>1, <3>2, <4>1 DEF KeyAfter
    <3>3. ASSUME ~touched
          PROVE  Numbered(arr', channels)
      <4>1. arr.value = built.value
        BY <2>3, <3>3 DEF ChannelsInv, Numbered
      <4>2. arr'.nextKey = built.nextKey
        BY <3>1, <4>1
      <4> QED
        BY <2>3, <3>1, <4>1, <4>2 DEF Numbered
    <3> QED
      BY <1>1, <2>1, <3>1, <3>2, <3>3 DEF ChannelsInv
  <2>6. CASE arr' = Channels!Resize(loaded, channels).arr
    <3>1. /\ ListOK(arr') /\ Cardinality(arr'.value) = channels
          /\ (\E c \in Nat : Numbered(loaded, c)) => Numbered(arr', channels)
      BY <1>1, <2>4, <2>6, ResizeFacts
    <3>2. arr'.value # {}
      BY <1>1, <3>1, FS_EmptySet
    <3>3. ASSUME ~touched
          PROVE  Numbered(loaded, channels)
      <4>1. Numbered(arr, channels)
        BY <3>3 DEF ChannelsInv
      <4>2. KeyAfter(arr.value) = channels
        BY <1>1, <4>1, CountedFacts
      <4>3. arr.value = 0..(channels - 1) /\ Channels!Constructed.value = 0..(D - 1) /\ Channels!Constructed.nextKey \in 0..D
        BY <2>2, <4>1 DEF Numbered
      <4>4. loaded.nextKey \in 0..channels
        <5>1. CASE D <= channels
          <6>1. Channels!Constructed.nextKey \in 0..channels
            BY <1>1, <2>2, <4>3, <5>1
          <6> QED
            BY <1>1, <2>4, <4>2, <6>1
        <5>2. CASE ~(D <= channels)
          <6>1. channels \in 0..(D - 1) /\ channels \notin 0..(channels - 1)
            BY <1>1, <2>2, <5>2
          <6>2. Channels!Constructed.value \ arr.value # {}
            BY <4>3, <6>1
          <6> QED
            BY <1>1, <2>4, <4>2, <6>2
        <5> QED
          BY <5>1, <5>2
      <4> QED
        BY <2>4, <4>3, <4>4 DEF Numbered
    <3> QED
      BY <1>1, <2>1, <3>1, <3>2, <3>3 DEF ChannelsInv
  <2> QED
    BY <2>1, <2>5, <2>6
<1> QED
  BY <1>2, <1>3, <1>4, <1>5 DEF Channels!Next

\* ChannelsInv holds at the start and is kept by the server, its restarts and its clients.
THEOREM ChannelsInductive == Channels!Spec => []ChannelsInv
<1>1. Channels!Init => ChannelsInv
  <2> SUFFICES ASSUME Channels!Init
               PROVE  ChannelsInv
    OBVIOUS
  <2>1. arr = Channels!Constructed /\ channels = DefaultChannels /\ touched = FALSE
    BY DEF Channels!Init
  <2>2. DefaultChannels \in Nat /\ DefaultChannels # 0 /\ DefaultChannels \in 1..MaxChannels
    BY ChannelAssumption
  <2>3. ListOK(arr) /\ Numbered(arr, channels)
    BY <2>1, ConstructedFacts
  <2>4. arr.value # {}
    BY <2>1, <2>2, <2>3, CountedFacts
  <2> QED
    BY <2>1, <2>2, <2>3, <2>4 DEF ChannelsInv
<1>2. ChannelsInv /\ [Channels!Next]_(Channels!vars) => ChannelsInv'
  <2>1. ASSUME ChannelsInv, UNCHANGED Channels!vars
        PROVE  ChannelsInv'
    BY <2>1 DEF Channels!vars, ChannelsInv
  <2> QED
    BY <2>1, ChannelSteps
<1> QED
  BY <1>1, <1>2, PTL DEF Channels!Spec

\* While only the server works on an array, at(channel) finds every channel, for any number
\* of channels and whatever restarts (FilterChain, OscGenericArray::resize); the variables
\* keep their types.
THEOREM EveryChannel == Channels!Spec => []ChannelsPresent
<1>1. ChannelsInv => ChannelsPresent
  <2> SUFFICES ASSUME ChannelsInv
               PROVE  ChannelsPresent
    OBVIOUS
  <2>1. arr.value \in SUBSET Int
    BY ItemFacts DEF ChannelsInv, ListOK
  <2>2. Channels!TypeOK
    BY <2>1 DEF ChannelsInv, ListOK, Channels!TypeOK
  <2>3. ~touched => 0..(channels - 1) \subseteq arr.value
    BY DEF ChannelsInv, Numbered
  <2> QED
    BY <2>2, <2>3 DEF ChannelsPresent, Channels!ChannelsPresent
<1> QED
  BY <1>1, ChannelsInductive, PTL

\* Whatever keys clients left in use, and whichever key is the next, a change of the number
\* of channels leaves exactly one item per channel: the loop of resize() ends.
THEOREM ResizedExactly == Channels!Spec => ResizeExact
<1>1. ChannelsInv /\ [Channels!Next]_(Channels!vars)
        => [channels' # channels => Channels!Cardinality(arr'.value) = channels']_(Channels!vars)
  <2> SUFFICES ASSUME ChannelsInv, Channels!Next, channels' # channels
               PROVE  Channels!Cardinality(arr'.value) = channels'
    OBVIOUS
  <2>1. PICK n : /\ n \in 1..MaxChannels /\ channels' = n /\ arr' = Channels!Resize(arr, n).arr
    BY DEF Channels!Next, Channels!SetChannels, Channels!ValidChannels, Channels!ClientSetKeys,
           Channels!ClientAccess, Channels!Restart
  <2>2. n \in Nat /\ ListOK(arr)
    BY <2>1 DEF ChannelsInv
  <2>3. Cardinality(arr'.value) = n
    BY <2>1, <2>2, ResizeFacts
  <2> QED
    BY <2>1, <2>3, SameOperators
<1> QED
  BY <1>1, ChannelsInductive, PTL DEF Channels!Spec, ResizeExact, Channels!ResizeExact
=============================================================================
