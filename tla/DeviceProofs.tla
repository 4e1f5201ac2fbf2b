---------------------------- MODULE DeviceProofs ----------------------------
(***************************************************************************)
(* Proofs about what resamples: WasapiInstance, for any number of          *)
(* channels, any sizes of the blocks and of the device's packets and any   *)
(* rates; DeviceRing, RemoteInput and RemoteOutput, through the instances  *)
(* of RingInstance and RemoteInstances, for any values of their constants. *)
(* The four share the filter: the loop of processSamples() is replaced by  *)
(* what it computes.  Each theorem takes the assumption of its own module. *)
(***************************************************************************)
EXTENDS WasapiInstance, RingInstance, RemoteInstances,
    SequenceTheorems, FiniteSetTheorems, WellFoundedInduction, TLAPS

(***************************************************************************)
(* The filter.                                                             *)
(***************************************************************************)

\* A set of numbers with 0 and the successor of each of its numbers has them all.
LEMMA NatSetInduction ==
  ASSUME NEW S, 0 \in S, \A n \in Nat : n \in S => n + 1 \in S
  PROVE  \A n \in Nat : n \in S
<1> SUFFICES ASSUME NEW n \in Nat, n \notin S
             PROVE  FALSE
  OBVIOUS
<1> DEFINE T == {k \in Nat : k \notin S}
           R == {ss \in Nat \X Nat : ss[1] < ss[2]}
<1>1. IsWellFoundedOn(R, Nat)
  BY NatLessThanWellFounded DEF OpToRel
<1>2. PICK x \in T : \A y \in T : ~(<<y, x>> \in R)
  <2>1. T \subseteq Nat /\ n \in T
    OBVIOUS
  <2> HIDE DEF R, T
  <2> QED
    BY <1>1, <2>1, WFMin
<1>3. x # 0
  OBVIOUS
<1>4. x - 1 \in Nat /\ x - 1 \notin T
  <2>1. x - 1 \in Nat
    BY <1>3
  <2>2. <<x - 1, x>> \in R
    BY <2>1
  <2> QED
    BY <1>2, <2>1, <2>2
<1> QED
  BY <1>4

FilterAssumption == OversamplingRatio \in Nat \ {0}

\* The quotient of the latest place by the ratio tells how many outputs there are.
LEMMA Quotient ==
  ASSUME NEW a \in Nat, NEW r \in Nat \ {0}
  PROVE  /\ a \div r \in Nat
         /\ (a \div r) * r <= a /\ a < (a \div r) * r + r
         /\ \A q \in Int : q * r <= a /\ a < q * r + r => a \div r = q
<1>1. /\ a \div r \in Nat
      /\ (a \div r) * r <= a /\ a < (a \div r) * r + r
  BY Z3
<1>2. ASSUME NEW q \in Int, q * r <= a, a < q * r + r
      PROVE  a \div r = q
  BY <1>1, <1>2, Z3
<1> QED
  BY <1>1, <1>2

\* The outputs of n frames: one for each step of the ratio up to the latest frame.
Outputs(d, r, n) ==
    LET latest == d + (n - 1) * OversamplingRatio
    IN  IF latest < 0 THEN 0 ELSE latest \div r + 1

Closed(d, r, n) ==
    [outputs |-> Outputs(d, r, n), delay |-> (d + n * OversamplingRatio) - Outputs(d, r, n) * r]

\* One frame more.
LEMMA OneMore ==
  ASSUME FilterAssumption, NEW d \in Int, d < OversamplingRatio, NEW r \in Nat \ {0}, NEW n \in Nat
  PROVE  LET g == Get(Closed(d, r, n).delay, r)
         IN  Closed(d, r, n + 1) = [outputs |-> Closed(d, r, n).outputs + g.outputs, delay |-> g.delay]
<1> DEFINE P == OversamplingRatio
           latest == d + (n - 1) * P
           next == d + n * P
           o == Outputs(d, r, n)
           o1 == Outputs(d, r, n + 1)
           e == next - o * r
<1>1. P \in Nat \ {0} /\ n * P = (n - 1) * P + P /\ (n + 1) * P = n * P + P
      /\ n * P \in Int /\ (n - 1) * P \in Int
  BY Z3 DEF FilterAssumption
<1>2. next = latest + P /\ latest \in Int /\ next \in Int
  BY <1>1
<1>3. o = IF latest < 0 THEN 0 ELSE latest \div r + 1
  BY DEF Outputs
<1>4. o1 = IF next < 0 THEN 0 ELSE next \div r + 1
  <2>1. d + ((n + 1) - 1) * P = next
    OBVIOUS
  <2> QED
    BY <2>1 DEF Outputs
<1> HIDE DEF latest, next, o, o1
<1>5. /\ o \in Nat /\ o * r \in Nat /\ (latest < 0 => o = 0)
      /\ latest >= 0 => (o - 1) * r <= latest /\ latest < o * r
  <2>1. CASE latest < 0
    BY <1>2, <1>3, <2>1
  <2>2. CASE latest >= 0
    <3>1. latest \in Nat /\ o = latest \div r + 1
      BY <1>2, <1>3, <2>2
    <3>2. latest \div r \in Nat /\ (latest \div r) * r <= latest /\ latest < (latest \div r) * r + r
      BY <3>1, Quotient
    <3> DEFINE q == latest \div r
    <3> HIDE DEF q
    <3>3. q \in Nat /\ o = q + 1 /\ q * r <= latest /\ latest < q * r + r
      BY <3>1, <3>2 DEF q
    <3>4. (q + 1) * r = q * r + r /\ (q + 1) * r \in Nat
      BY <3>3, Z3
    <3>5. o * r = q * r + r /\ (o - 1) * r = q * r
      BY <3>3, <3>4
    <3> QED
      BY <1>2, <3>3, <3>4, <3>5, <2>2
  <2> QED
    BY <1>2, <2>1, <2>2
<1>6. o1 = o + (IF e < 0 THEN 0 ELSE e \div r + 1)
  <2>1. CASE next < 0
    BY <1>1, <1>2, <1>4, <1>5, <2>1
  <2>2. CASE next >= 0 /\ latest < 0
    BY <1>1, <1>2, <1>4, <1>5, <2>2
  <2>3. CASE latest >= 0 /\ e < 0
    <3>1. (o - 1) * r <= next /\ next < (o - 1) * r + r
      <4>1. o * r = (o - 1) * r + r
        BY <1>5, Z3
      <4> QED
        BY <1>1, <1>2, <1>5, <2>3, <4>1
    <3>2. next \div r = o - 1
      BY <1>1, <1>2, <1>5, <2>3, <3>1, Quotient
    <3> QED
      BY <1>1, <1>2, <1>4, <1>5, <2>3, <3>2
  <2>4. CASE latest >= 0 /\ e >= 0
    <3>1. e \in Nat
      BY <1>2, <1>5, <2>4
    <3>2. e \div r \in Nat /\ (e \div r) * r <= e /\ e < (e \div r) * r + r
      BY <3>1, Quotient
    <3> DEFINE q == e \div r
    <3> HIDE DEF q
    <3>3. (o + q) * r <= next /\ next < (o + q) * r + r /\ o + q \in Int
      <4>1. (o + q) * r = o * r + q * r
        BY <1>5, <3>2, Z3 DEF q
      <4> QED
        BY <1>2, <1>5, <3>2, <4>1 DEF q
    <3>4. next \in Nat /\ next \div r = o + q
      BY <1>1, <1>2, <2>4, <3>3, Quotient
    <3> QED
      BY <1>4, <1>5, <2>4, <3>2, <3>4 DEF q
  <2> QED
    BY <1>1, <1>2, <1>5, <2>1, <2>2, <2>3, <2>4
<1>7. Closed(d, r, n) = [outputs |-> o, delay |-> e]
  BY DEF Closed, o, next
<1>8. Closed(d, r, n + 1) = [outputs |-> o1, delay |-> (next + P) - o1 * r]
  <2>1. d + (n + 1) * P = next + P
    BY <1>1 DEF next
  <2> QED
    BY <2>1 DEF Closed, o1
<1> DEFINE m == IF e < 0 THEN 0 ELSE e \div r + 1
<1>9. m \in Nat /\ (next + P) - (o + m) * r = ((next - o * r) - m * r) + P
  <2>1. e \in Int
    BY <1>2, <1>5
  <2>2. m \in Nat
    BY <2>1, Quotient
  <2> HIDE DEF m
  <2>3. (o + m) * r = o * r + m * r
    BY <1>5, <2>2, Z3
  <2>4. m * r \in Int /\ o * r \in Int
    BY <1>5, <2>2, Z3
  <2> QED
    BY <1>1, <1>2, <2>2, <2>3, <2>4
<1>10. Get(e, r) = [outputs |-> m, delay |-> e - m * r + P]
  BY DEF Get
<1> QED
  <2>1. o1 = o + m
    BY <1>6
  <2> HIDE DEF m
  <2> QED
    BY <1>7, <1>8, <1>9, <1>10, <2>1

\* What processSamples() does to n frames, without its loop.
LEMMA ClosedForm ==
  ASSUME FilterAssumption, NEW d \in Int, d < OversamplingRatio, NEW r \in Nat \ {0}, NEW n \in Nat
  PROVE  ProcessSamples(d, r, n) = Closed(d, r, n)
<1> DEFINE Body(h, k) ==
             IF k = 0 THEN [outputs |-> 0, delay |-> d]
             ELSE LET g == Get(h[k - 1].delay, r)
                  IN  [outputs |-> h[k - 1].outputs + g.outputs, delay |-> g.delay]
           f == CHOOSE h : h = [k \in 0..n |-> Body(h, k)]
           c == [k \in 0..n |-> Closed(d, r, k)]
<1>1. ProcessSamples(d, r, n) = f[n]
  BY DEF ProcessSamples
<1>2. Closed(d, r, 0) = [outputs |-> 0, delay |-> d]
  <2>1. d + (0 - 1) * OversamplingRatio < 0 /\ 0 * OversamplingRatio = 0
    BY DEF FilterAssumption
  <2>2. Outputs(d, r, 0) = 0
    BY <2>1 DEF Outputs
  <2> QED
    BY <2>1, <2>2 DEF Closed
<1>3. \A k \in 0..n : Closed(d, r, k) = Body(c, k)
  <2> SUFFICES ASSUME NEW k \in 0..n
               PROVE  Closed(d, r, k) = Body(c, k)
    OBVIOUS
  <2>1. CASE k = 0
    BY <1>2, <2>1
  <2>2. CASE k # 0
    <3>1. k - 1 \in Nat /\ k - 1 \in 0..n /\ (k - 1) + 1 = k
      BY <2>2
    <3>2. c[k - 1] = Closed(d, r, k - 1)
      BY <3>1
    <3> HIDE DEF c
    <3>3. Closed(d, r, k) = LET g == Get(Closed(d, r, k - 1).delay, r)
              IN  [outputs |-> Closed(d, r, k - 1).outputs + g.outputs, delay |-> g.delay]
      BY <3>1, OneMore
    <3> QED
      BY <2>2, <3>2, <3>3
  <2> QED
    BY <2>1, <2>2
<1>4. f = [k \in 0..n |-> Body(f, k)]
  <2>1. c = [k \in 0..n |-> Body(c, k)]
    <3>1. c = [k \in 0..n |-> c[k]] /\ \A k \in 0..n : c[k] = Closed(d, r, k)
      OBVIOUS
    <3> HIDE DEF c, Body
    <3> QED
      BY <1>3, <3>1
  <2> HIDE DEF c, Body
  <2> QED
    BY <2>1, Zenon
<1>5. \A k \in 0..n : f[k] = Body(f, k)
  <2> HIDE DEF f, Body
  <2> QED
    BY <1>4, Zenon
<1> DEFINE S == {k \in Nat : k \in 0..n => f[k] = Closed(d, r, k)}
<1>6. \A k \in Nat : k \in S
  <2> HIDE DEF f
  <2>1. 0 \in S
    BY <1>2, <1>5
  <2>2. ASSUME NEW k \in Nat, k \in S
        PROVE  k + 1 \in S
    <3> SUFFICES ASSUME k + 1 \in 0..n
                 PROVE  f[k + 1] = Closed(d, r, k + 1)
      OBVIOUS
    <3>1. k \in 0..n /\ k + 1 # 0 /\ (k + 1) - 1 = k
      OBVIOUS
    <3>2. f[k] = Closed(d, r, k)
      BY <2>2, <3>1
    <3>3. f[k + 1] = LET g == Get(Closed(d, r, k).delay, r)
              IN  [outputs |-> Closed(d, r, k).outputs + g.outputs, delay |-> g.delay]
      BY <1>5, <3>1, <3>2
    <3> QED
      BY <3>3, OneMore
  <2> HIDE DEF S
  <2> QED
    BY <2>1, <2>2, NatSetInduction
<1> QED
  <2>1. n \in S /\ n \in 0..n
    BY <1>6
  <2> HIDE DEF f
  <2> QED
    BY <1>1, <2>1

\* What n frames make of a filter: the number of outputs, and where the next one falls.
LEMMA FilterFacts ==
  ASSUME FilterAssumption, NEW d \in Int, d < OversamplingRatio, NEW r \in Nat \ {0}, NEW n \in Nat
  PROVE  LET p == ProcessSamples(d, r, n)
         IN  /\ p.outputs \in Nat /\ p.delay \in Int /\ p.delay < OversamplingRatio
             /\ p.outputs = Outputs(d, r, n)
             /\ n = 0 => p.delay = d /\ p.outputs = 0
             /\ p.delay >= OversamplingRatio - r \/ p.delay = d + n * OversamplingRatio
<1> DEFINE P == OversamplingRatio
           latest == d + (n - 1) * P
           o == Outputs(d, r, n)
           p == ProcessSamples(d, r, n)
<1>1. p = [outputs |-> o, delay |-> (d + n * P) - o * r]
  BY ClosedForm DEF Closed
<1>2. P \in Nat \ {0} /\ n * P \in Int /\ (n - 1) * P = n * P - P
  BY Z3 DEF FilterAssumption
<1>3. latest \in Int /\ d + n * P = latest + P
  BY <1>2
<1>4. o = IF latest < 0 THEN 0 ELSE latest \div r + 1
  BY DEF Outputs
<1>5. n = 0 => latest < 0
  BY <1>2
<1> HIDE DEF latest, o, p
<1>6. CASE latest < 0
  <2>1. o = 0 /\ o * r = 0
    BY <1>4, <1>6
  <2>2. p.outputs = 0 /\ p.delay = d + n * P
    BY <1>1, <1>2, <2>1
  <2> QED
    BY <1>1, <1>2, <1>3, <1>6, <2>1, <2>2 DEF o, latest, p
<1>7. CASE latest >= 0
  <2>1. latest \in Nat
    BY <1>3, <1>7
  <2> DEFINE q == latest \div r
  <2>2. q \in Nat /\ q * r <= latest /\ latest < q * r + r /\ o = q + 1
    BY <1>3, <1>4, <1>7, <2>1, Quotient
  <2> HIDE DEF q
  <2>3. o * r = q * r + r /\ q * r \in Nat
    BY <2>2, Z3
  <2>4. p.outputs = o /\ p.delay = (latest - o * r) + P
    <3>1. (d + n * P) - o * r = (latest - o * r) + P
      BY <1>2, <1>3, <2>3
    <3> QED
      BY <1>1, <3>1
  <2> QED
    BY <1>2, <1>3, <1>5, <1>7, <2>2, <2>3, <2>4 DEF o, latest, p
<1> QED
  BY <1>3, <1>6, <1>7 DEF p

\* A filter that is ahead gives no fewer outputs.
LEMMA OutputsMonotone ==
  ASSUME FilterAssumption, NEW d \in Int, NEW e \in Int, d <= e, NEW r \in Nat \ {0}, NEW n \in Nat
  PROVE  Outputs(d, r, n) \in Nat /\ Outputs(d, r, n) <= Outputs(e, r, n)
<1> DEFINE a == d + (n - 1) * OversamplingRatio
           b == e + (n - 1) * OversamplingRatio
<1>1. a \in Int /\ b \in Int /\ a <= b
  <2>1. (n - 1) * OversamplingRatio \in Int
    BY Z3 DEF FilterAssumption
  <2> QED
    BY <2>1
<1>2. /\ Outputs(d, r, n) = IF a < 0 THEN 0 ELSE a \div r + 1
      /\ Outputs(e, r, n) = IF b < 0 THEN 0 ELSE b \div r + 1
  BY DEF Outputs
<1> HIDE DEF a, b
<1>3. CASE a < 0
  <2>1. ~(b < 0) => b \div r \in Nat
    BY <1>1, Quotient
  <2> QED
    BY <1>2, <1>3, <2>1
<1>4. CASE a >= 0
  <2>1. a \in Nat /\ b \in Nat
    BY <1>1, <1>4
  <2>2. /\ a \div r \in Nat /\ (a \div r) * r <= a
        /\ b \div r \in Nat /\ b < (b \div r) * r + r
    BY <2>1, Quotient
  <2>3. a \div r <= b \div r
    <3> DEFINE x == a \div r
               y == b \div r
    <3> HIDE DEF x, y
    <3> SUFFICES ASSUME x > y PROVE FALSE
      BY <2>2 DEF x, y
    <3>1. x \in Nat /\ y \in Nat /\ x >= y + 1 /\ x * r <= a /\ b < y * r + r
      BY <2>2 DEF x, y
    <3>2. x * r >= (y + 1) * r /\ (y + 1) * r = y * r + r
      BY <3>1, Z3
    <3> QED
      BY <1>1, <3>1, <3>2
  <2> QED
    BY <1>1, <1>2, <1>4, <2>1, <2>2, <2>3
<1> QED
  BY <1>1, <1>3, <1>4

\* Some numbers that are bounded have a greatest.
LEMMA Greatest ==
  ASSUME NEW S \in SUBSET Nat, S # {}, NEW b \in Nat, \A n \in S : n <= b
  PROVE  \E m \in S : \A n \in S : m >= n
<1> DEFINE G == {k \in Nat : (\A n \in S : n <= k) => \E m \in S : \A n \in S : m >= n}
<1>1. 0 \in G
  <2>1. ASSUME \A n \in S : n <= 0
        PROVE  \E m \in S : \A n \in S : m >= n
    <3>1. \A n \in S : n = 0
      BY <2>1
    <3>2. PICK m \in S : TRUE
      OBVIOUS
    <3>3. \A n \in S : m >= n
      BY <3>1, <3>2
    <3> QED
      BY <3>2, <3>3
  <2> QED
    BY <2>1
<1>2. ASSUME NEW k \in Nat, k \in G
      PROVE  k + 1 \in G
  <2> SUFFICES ASSUME \A n \in S : n <= k + 1
               PROVE  \E m \in S : \A n \in S : m >= n
    OBVIOUS
  <2>1. CASE k + 1 \in S
    BY <2>1
  <2>2. CASE k + 1 \notin S
    <3>1. \A n \in S : n <= k
      BY <2>2
    <3> QED
      BY <1>2, <3>1
  <2> QED
    BY <2>1, <2>2
<1>3. b \in G
  <2> HIDE DEF G
  <2> QED
    BY <1>1, <1>2, NatSetInduction
<1> QED
  BY <1>3

(***************************************************************************)
(* Windows audio.                                                          *)
(***************************************************************************)

Done(c) == c < callback.channel

\* There are a size and a delay for each of the channels 1 to n, and the loop over
\* the channels runs only in a strip that has its client.
Shape ==
    /\ Len(size) \in Nat
    /\ Channel = 1..Len(size) /\ DOMAIN delay = 1..Len(size)
    /\ DOMAIN callback = {"channel", "nframes", "fed", "required"}
    /\ callback.channel \in Nat
    /\ callback # Idle => active

\* Within a block, the channels that were filtered are ahead of the others by what
\* the filter makes of the block.
Together ==
    \A c, d \in Channel :
        /\ Done(c) <=> Done(d) => size[c] = size[d] /\ delay[c] = delay[d]
        /\ Done(c) /\ ~Done(d) =>
             LET p == ProcessSamples(delay[d], AsFloat(ratio[d]), callback.fed)
             IN  size[c] = size[d] + p.outputs /\ delay[c] = p.delay

IInv == Shape /\ (~uneven => Together /\ ~overread)

-----------------------------------------------------------------------------
\* A function on 1..n has n elements, whatever they are.
LEMMA LengthOfFunction ==
    ASSUME NEW f, NEW n \in Nat, f = [c \in 1..n |-> f[c]]
    PROVE  Len(f) = n
<1> DEFINE S == {f[c] : c \in 1..n}
<1>1. f \in [1..n -> S]
  OBVIOUS
<1>2. f \in Seq(S)
  BY <1>1, SeqDef
<1>3. Len(f) \in Nat /\ DOMAIN f = 1..Len(f)
  BY <1>2, LenProperties
<1>4. DOMAIN f = 1..n
  BY <1>1
<1> QED
  BY <1>3, <1>4

\* The instance starts without channels.
LEMMA InitInv ==
    ASSUME Init
    PROVE  IInv
<1>1. size = <<>> /\ delay = <<>> /\ Len(size) = 0 /\ DOMAIN size = {} /\ DOMAIN delay = {}
  BY DEF Init
<1>2. Shape
  BY <1>1 DEF Init, Shape, Channel, Idle
<1>3. Together
  BY <1>1 DEF Together, Channel
<1> QED
  BY <1>2, <1>3 DEF Init, IInv

\* Steps that touch neither the frames nor the loop over the channels.
LEMMA FramesUnchanged ==
    ASSUME IInv, UNCHANGED <<filters, callback, active, uneven, overread>>
    PROVE  IInv'
  BY DEF IInv, Shape, Together, Done, Channel, filters

\* A start gives each channel its frames left over, if any, and a new filter.
LEMMA StartInv ==
    ASSUME IInv, NEW n \in Nat, NEW plays \in BOOLEAN, Start(n, plays)
    PROVE  IInv'
<1>1. /\ size' = [c \in 1..n |-> size'[c]]
      /\ delay' = [c \in 1..n |-> ResetDelay]
      /\ callback' = callback /\ active' /\ held' = Objects /\ overread' = FALSE
      /\ uneven' = \E c, d \in 1..n : size'[c] # size'[d]
  BY DEF Start, ResetDelays
<1>2. callback = Idle
  BY DEF Start, IInv, Shape
<1>3. Len(size') = n
  BY <1>1, LengthOfFunction
<1>4. Channel' = 1..n
  BY <1>1 DEF Channel
<1>5. Shape'
  BY <1>1, <1>3, <1>4 DEF IInv, Shape
<1>6. ASSUME ~uneven'
      PROVE  Together'
  <2>1. \A c \in 1..n : ~Done(c)'
    BY <1>1, <1>2 DEF Done, Idle
  <2>2. \A c, d \in 1..n : size'[c] = size'[d] /\ delay'[c] = delay'[d]
    BY <1>1, <1>6
  <2> QED
    BY <1>4, <2>1, <2>2 DEF Together
<1> QED
  BY <1>1, <1>5, <1>6 DEF IInv

\* A block begins: no channel was filtered.
LEMMA BlockInv ==
    ASSUME IInv, UNCHANGED <<filters, active, uneven, overread>>,
           callback = Idle, active,
           NEW nframes, NEW fed, NEW required,
           callback' = [channel |-> 1, nframes |-> nframes, fed |-> fed, required |-> required]
    PROVE  IInv'
<1>1. size' = size /\ delay' = delay /\ Channel' = Channel
  BY DEF filters, Channel
<1>2. Shape'
  BY <1>1 DEF IInv, Shape
<1>3. \A c \in Channel : ~Done(c) /\ ~Done(c)'
  BY DEF IInv, Shape, Done, Idle
<1>4. Together => Together'
  BY <1>1, <1>3 DEF Together
<1> QED
  BY <1>2, <1>4 DEF IInv

\* The next channel is filtered, and joins those that were.
LEMMA FilterInv ==
    ASSUME IInv, Filter
    PROVE  IInv'
<1> DEFINE n == callback.channel
           p == ProcessSamples(delay[n], AsFloat(ratio[n]), callback.fed)
<1>1. /\ n \in Channel
      /\ size' = [size EXCEPT ![n] = @ + p.outputs]
      /\ delay' = [delay EXCEPT ![n] = p.delay]
      /\ callback' = [callback EXCEPT !.channel = @ + 1]
      /\ UNCHANGED <<active, held, ratio, overread>>
      /\ uneven' = (uneven \/ \E c, d \in Channel : ratio[c] # ratio[d])
  BY DEF Filter, stream
<1>2. /\ n \in Nat /\ callback'.channel = n + 1 /\ callback'.fed = callback.fed
      /\ DOMAIN callback' = DOMAIN callback /\ active
  <2>1. n # 0
    BY <1>1 DEF IInv, Shape
  <2>2. callback # Idle
    BY <2>1 DEF Idle
  <2> QED
    BY <1>1, <2>2 DEF IInv, Shape
<1>3. Channel' = Channel /\ DOMAIN delay' = DOMAIN delay
  BY <1>1 DEF Channel
<1>4. Len(size') = Len(size)
  <2>1. size' = [c \in 1..Len(size) |-> size'[c]] /\ Len(size) \in Nat
    BY <1>1 DEF IInv, Shape, Channel
  <2> QED
    BY <2>1, LengthOfFunction
<1>5. Shape'
  BY <1>1, <1>2, <1>3, <1>4 DEF IInv, Shape
<1>6. ASSUME ~uneven'
      PROVE  Together'
  <2>1. Together /\ \A c, d \in Channel : ratio[c] = ratio[d]
    BY <1>1, <1>6 DEF IInv
  <2>2. Channel = 1..Len(size) /\ Channel = DOMAIN size /\ Channel = DOMAIN delay /\ Len(size) \in Nat
    BY DEF IInv, Shape, Channel
  <2>3. \A c \in Channel : c # n => size'[c] = size[c] /\ delay'[c] = delay[c]
    BY <1>1
  <2>4. size'[n] = size[n] + p.outputs /\ delay'[n] = p.delay
    BY <1>1, <2>2
  <2>5. \A c \in Channel : Done(c)' <=> Done(c) \/ c = n
    BY <1>2, <2>2 DEF Done
  <2>6. \A c \in Channel : Done(c) => size[c] = size[n] + p.outputs /\ delay[c] = p.delay
    BY <1>1, <1>2, <2>1 DEF Together, Done
  <2>7. \A c \in Channel : ~Done(c) => size[c] = size[n] /\ delay[c] = delay[n] /\ ratio[c] = ratio[n]
    BY <1>1, <1>2, <2>1 DEF Together, Done
  <2>8. \A c \in Channel : Done(c)' => size'[c] = size[n] + p.outputs /\ delay'[c] = p.delay
    BY <1>2, <2>3, <2>4, <2>5, <2>6 DEF Done
  <2>9. \A c \in Channel : ~Done(c)' => size'[c] = size[n] /\ delay'[c] = delay[n] /\ ratio'[c] = ratio[n]
    BY <1>1, <2>3, <2>5, <2>7
  <2>10. \A c \in Channel : ~Done(c)' => ProcessSamples(delay'[c], AsFloat(ratio'[c]), callback'.fed) = p
    BY <1>2, <2>9
  <2> QED
    BY <1>3, <2>8, <2>9, <2>10 DEF Together
<1> QED
  BY <1>1, <1>5, <1>6 DEF IInv

\* The loop is over and nothing is taken.
LEMMA EndInv ==
    ASSUME IInv, callback.channel > Len(size), callback' = Idle,
           Channel' = Channel, Len(size') = Len(size),
           UNCHANGED <<delay, ratio, active, held, uneven>>,
           ~uneven /\ ~overread /\ (\A c, d \in Channel : size[c] = size[d])
               => ~overread' /\ (\A c, d \in Channel : size'[c] = size'[d])
    PROVE  IInv'
<1>1. \A c \in Channel : Done(c) /\ ~Done(c)'
  BY DEF IInv, Shape, Done, Idle
<1>2. Shape'
  BY DEF IInv, Shape, Idle
<1>3. ~uneven => \A c, d \in Channel : size[c] = size[d] /\ delay[c] = delay[d]
  BY <1>1 DEF IInv, Together
<1>4. ~uneven => ~overread' /\ (\A c, d \in Channel : size'[c] = size'[d])
  BY <1>3 DEF IInv
<1>5. ~uneven' => Together'
  BY <1>1, <1>3, <1>4 DEF Together
<1> QED
  BY <1>2, <1>4, <1>5 DEF IInv

\* The device takes the same from every channel.
LEMMA PlayInv ==
    ASSUME IInv, Play
    PROVE  IInv'
<1> DEFINE required == callback.required
<1>1. /\ callback.channel > Len(size) /\ callback' = Idle
      /\ UNCHANGED <<delay, ratio, active, held, uneven>>
  BY DEF Play, stream
<1>2. CASE required > size[1]
  <2>1. size' = size /\ overread' = overread
    BY <1>2 DEF Play
  <2> QED
    BY <1>1, <2>1, EndInv DEF Channel
<1>3. CASE ~(required > size[1])
  <2>1. /\ size' = [c \in Channel |-> IF required > size[c] THEN 0 ELSE size[c] - required]
        /\ overread' = (overread \/ \E c \in Channel : required > size[c])
    BY <1>3 DEF Play
  <2>2. Channel' = Channel
    BY <2>1 DEF Channel
  <2>3. Len(size') = Len(size)
    <3>1. size' = [c \in 1..Len(size) |-> size'[c]] /\ Len(size) \in Nat
      BY <2>1 DEF IInv, Shape
    <3> QED
      BY <3>1, LengthOfFunction
  <2>4. ASSUME ~overread, \A c, d \in Channel : size[c] = size[d]
        PROVE  ~overread' /\ (\A c, d \in Channel : size'[c] = size'[d])
    <3>1. \A c \in Channel : 1 \in Channel
      BY DEF IInv, Shape
    <3>2. \A c \in Channel : ~(required > size[c])
      BY <1>3, <2>4, <3>1
    <3> QED
      BY <2>1, <2>4, <3>2
  <2> QED
    BY <1>1, <2>2, <2>3, <2>4, EndInv
<1> QED
  BY <1>2, <1>3

\* JACK gets the same from every channel, for all or none have enough.
LEMMA DeliverInv ==
    ASSUME IInv, Deliver
    PROVE  IInv'
<1> DEFINE enough == {c \in Channel : size[c] >= callback.required}
<1>1. /\ callback.channel > Len(size) /\ callback' = Idle
      /\ UNCHANGED <<delay, ratio, active, held, uneven, overread>>
      /\ size' = [c \in Channel |-> IF c \in enough THEN size[c] - callback.required ELSE size[c]]
  BY DEF Deliver, stream, history
<1>2. Channel' = Channel
  BY <1>1 DEF Channel
<1>3. Len(size') = Len(size)
  <2>1. size' = [c \in 1..Len(size) |-> size'[c]] /\ Len(size) \in Nat
    BY <1>1 DEF IInv, Shape
  <2> QED
    BY <2>1, LengthOfFunction
<1>4. ASSUME \A c, d \in Channel : size[c] = size[d]
      PROVE  \A c, d \in Channel : size'[c] = size'[d]
  BY <1>1, <1>4
<1> QED
  BY <1>1, <1>2, <1>3, <1>4, EndInv

\* A filter is adjusted; in the middle of a block this is what `uneven' records.
LEMMA SetClockDriftInv ==
    ASSUME IInv, SetClockDrift
    PROVE  IInv'
<1>1. /\ UNCHANGED <<size, delay, callback, active, held, overread>>
      /\ Channel' = Channel
      /\ uneven' = (uneven \/ callback # Idle)
  BY DEF SetClockDrift, stream, Channel
<1>2. Shape'
  BY <1>1 DEF IInv, Shape
<1>3. ASSUME ~uneven'
      PROVE  Together'
  <2>1. \A c \in Channel : ~Done(c) /\ ~Done(c)'
    <3>1. callback = Idle /\ callback' = callback
      BY <1>1, <1>3, Zenon
    <3>2. callback.channel = 0
      BY <3>1 DEF Idle
    <3> QED
      BY <3>1, <3>2 DEF IInv, Shape, Done
  <2> QED
    BY <1>1, <1>3, <2>1 DEF IInv, Together
<1> QED
  BY <1>1, <1>2, <1>3 DEF IInv

\* Every step of the audio thread, of the main thread and of the device keeps the
\* invariant.
LEMMA StepInv ==
    ASSUME MaxChannel \in Nat, IInv, [Next]_vars
    PROVE  IInv'
<1>1. ASSUME NEW n \in Frames, Render(n) PROVE IInv'
  <2>1. UNCHANGED <<filters, active, uneven, overread>> /\ callback = Idle /\ active
    BY <1>1 DEF Render, Ready, stream, history
  <2>2. CASE callback' = callback
    BY <2>1, <2>2, FramesUnchanged
  <2>3. CASE callback' # callback
    <3>1. callback' = [channel |-> 1, nframes |-> n, fed |-> n,
                       required |-> MinRequiredOutputSize(n, ratio[1]) + size[1]]
      BY <1>1, <2>3 DEF Render
    <3> QED
      BY <2>1, <3>1, BlockInv
  <2> QED
    BY <2>2, <2>3
<1>2. ASSUME NEW n \in Frames, NEW p \in Frames \cup {0}, NEW b \in BOOLEAN, Capture(n, p, b)
      PROVE  IInv'
  <2>1. UNCHANGED <<filters, active, uneven, overread>> /\ callback = Idle /\ active
    BY <1>2 DEF Capture, Ready, stream, history
  <2>2. callback' = [channel |-> 1, nframes |-> n, fed |-> p, required |-> n]
    BY <1>2 DEF Capture
  <2> QED
    BY <2>1, <2>2, BlockInv
<1>3. CASE Filter
  BY <1>3, FilterInv
<1>4. CASE Play
  BY <1>4, PlayInv
<1>5. CASE Deliver
  BY <1>5, DeliverInv
<1>6. CASE SetClockDrift
  BY <1>6, SetClockDriftInv
<1>7. ASSUME NEW r \in Rate, SetDeviceRate(r) PROVE IInv'
  BY <1>7, FramesUnchanged DEF SetDeviceRate, stream, history
<1>8. ASSUME NEW b \in BOOLEAN, SetExclusiveMode(b) PROVE IInv'
  BY <1>8, FramesUnchanged DEF SetExclusiveMode, stream, history
<1>9. ASSUME NEW objects, StartFails(objects) PROVE IInv'
  <2>1. UNCHANGED <<size, delay, ratio, callback, uneven, overread>> /\ active' /\ held' = {}
    BY <1>9 DEF StartFails, filters, history
  <2> QED
    BY <2>1 DEF IInv, Shape, Together, Done, Channel
<1>10. ASSUME NEW n \in 1..MaxChannel, NEW plays \in BOOLEAN, Start(n, plays) PROVE IInv'
  BY <1>10, StartInv
<1>11. CASE Stop
  <2>1. UNCHANGED <<size, delay, ratio, callback, uneven, overread>> /\ callback = Idle /\ held' = {}
    BY <1>11 DEF Stop, filters, history
  <2> QED
    BY <2>1 DEF IInv, Shape, Together, Done, Channel
<1>12. CASE SlowTimer
  BY <1>12, FramesUnchanged DEF SlowTimer, stream, history
<1>13. ASSUME NEW d \in Drift, ClockDrift(d) PROVE IInv'
  BY <1>13, FramesUnchanged DEF ClockDrift, stream, history
<1>14. CASE DeviceLost
  BY <1>14, FramesUnchanged DEF DeviceLost, stream, history
<1>15. ASSUME NEW n \in Frames, DevicePlays(n) PROVE IInv'
  BY <1>15, FramesUnchanged DEF DevicePlays, stream, history
<1>16. CASE UNCHANGED vars
  BY <1>16, FramesUnchanged DEF vars, stream, history
<1> QED
  BY <1>1, <1>2, <1>3, <1>4, <1>5, <1>6, <1>7, <1>8, <1>9, <1>10, <1>11, <1>12, <1>13, <1>14,
     <1>15, <1>16 DEF Next, AudioThread, MainThread, Device

\* The strengthening holds in every reachable state (postProcessSamples, start, stop
\* and setClockDrift).
THEOREM Inductive ==
    ASSUME MaxChannel \in Nat
    PROVE  Spec => []IInv
<1>1. Init => IInv
  BY InitInv
<1>2. IInv /\ [Next]_vars => IInv'
  BY StepInv
<1> QED
  BY <1>1, <1>2, PTL DEF Spec

\* The channels keep together, so that asking channel 1 what there is tells it of all of
\* them and nothing is taken that is not there, for any number of channels, blocks and
\* rates (copySamplesRender, copySamplesCapture).
THEOREM FramesTogether ==
    ASSUME MaxChannel \in Nat
    PROVE  Spec => []ChannelsTogether
<1>1. ASSUME IInv
      PROVE  ChannelsTogether
  <2>1. callback = Idle => \A c \in Channel : ~Done(c)
    BY <1>1 DEF IInv, Shape, Done, Idle
  <2> QED
    BY <1>1, <2>1 DEF IInv, Together, ChannelsTogether
<1> QED
  BY <1>1, Inductive, PTL

\* Where the next output of a filter may fall: after a block, not after the place that
\* its ratio makes the latest one.
DelayInv ==
    /\ deviceRate \in Rate /\ drift \in Drift \cup {0}
    /\ callback.fed \in Frames \cup {0}
    /\ DOMAIN ratio = Channel
    /\ \A c \in Channel :
         /\ ratio[c] \in Ratios
         /\ delay[c] \in Int /\ delay[c] < OversamplingRatio
         /\ \E q \in Ratios : delay[c] >= OversamplingRatio - AsFloat(q)
         /\ c \notin adjusted => delay[c] >= OversamplingRatio - AsFloat(ratio[c])

\* The float of a ratio is a number.
LEMMA FloatType ==
  ASSUME FloatStep \in Nat \ {0}, NEW r \in Nat
  PROVE  AsFloat(r) \in Nat
<1>1. FloatStep \div 2 \in Nat
  BY Quotient
<1>2. r + FloatStep \div 2 \in Nat
  BY <1>1
<1> DEFINE m == (r + FloatStep \div 2) \div FloatStep
<1>3. m \in Nat
  BY <1>2, Quotient
<1> HIDE DEF m
<1>4. FloatStep * m \in Nat
  BY <1>3, Z3
<1> QED
  BY <1>4 DEF AsFloat, m

\* The ratios that the rates and the clock drift make are ratios.
LEMMA RatiosFacts ==
  ASSUME WasapiAssumption
  PROVE  /\ FilterAssumption /\ Ratios \subseteq Nat \ {0}
         /\ \A r \in Rate, d \in Drift \cup {0} : ClockDriftRatio(r, r + d) \in Ratios
         /\ \A q \in Ratios, r \in Rate, d \in Drift \cup {0} : ClockDriftRatio(q, r + d) \in Ratios
         /\ \A q \in Ratios : AsFloat(q) \in Nat \ {0}
<1>1. FilterAssumption /\ Ratios \subseteq Nat \ {0}
  BY DEF WasapiAssumption, FilterAssumption, Ratios
<1>2. \A r \in Rate, d \in Drift \cup {0} : r + d >= 1 => r + d \in Ratios
  BY DEF Ratios
<1>3. \A r \in Rate : r \in Ratios
  <2> SUFFICES ASSUME NEW r \in Rate
               PROVE  r \in Ratios
    OBVIOUS
  <2>1. r + 0 = r /\ r + 0 >= 1
    BY DEF WasapiAssumption
  <2> QED
    BY <1>2, <2>1
<1>4. ASSUME NEW q \in Ratios
      PROVE  AsFloat(q) \in Nat \ {0}
  <2>1. AsFloat(q) >= 1 /\ FloatStep \in Nat \ {0} /\ q \in Nat
    BY <1>1 DEF WasapiAssumption
  <2>2. AsFloat(q) \in Nat
    BY <2>1, FloatType
  <2> QED
    BY <2>1, <2>2
<1> QED
  BY <1>1, <1>2, <1>3, <1>4 DEF ClockDriftRatio

\* What the bounds of the next output are about is left alone.
LEMMA DelayUnchanged ==
  ASSUME DelayInv, UNCHANGED <<filters, callback, deviceRate, drift, adjusted>>
  PROVE  DelayInv'
BY DEF DelayInv, filters, Channel

\* The filters of a start are reset.
LEMMA DelayStart ==
  ASSUME WasapiAssumption, IInv, DelayInv, NEW n \in Nat, NEW plays \in BOOLEAN, Start(n, plays)
  PROVE  DelayInv'
<1>1. /\ size' = [c \in 1..n |-> size'[c]]
      /\ ratio' = [c \in 1..n |-> ClockDriftRatio(deviceRate', deviceRate' + drift)]
      /\ delay' = [c \in 1..n |-> ResetDelay]
      /\ UNCHANGED <<callback, drift>>
      /\ deviceRate' = ConfiguredRate
  BY DEF Start, ResetDelays, clock
<1>2. Channel' = 1..n
  BY <1>1 DEF Channel
<1>3. deviceRate' \in Rate
  BY <1>1 DEF ConfiguredRate, Checked, DelayInv, WasapiAssumption
<1>4. ClockDriftRatio(deviceRate', deviceRate' + drift) \in Ratios
  BY <1>3, RatiosFacts DEF DelayInv
<1>5. ResetDelay \in Int /\ ResetDelay < OversamplingRatio /\ \A q \in Ratios : ResetDelay >= OversamplingRatio - AsFloat(q)
  BY RatiosFacts DEF ResetDelay, FilterAssumption
<1> DEFINE q == ClockDriftRatio(deviceRate', deviceRate' + drift)
<1>6. \A c \in Channel' : ratio'[c] = q /\ delay'[c] = ResetDelay
  BY <1>1, <1>2
<1>7. q \in Ratios /\ DOMAIN ratio' = Channel' /\ callback'.fed \in Frames \cup {0} /\ drift' \in Drift \cup {0}
  BY <1>1, <1>2, <1>4 DEF DelayInv
<1> HIDE DEF q
<1> QED
  BY <1>3, <1>5, <1>6, <1>7 DEF DelayInv

\* A filter treats a block.
LEMMA DelayFilter ==
  ASSUME WasapiAssumption, RatiosClose, IInv, DelayInv, Filter
  PROVE  DelayInv'
<1> DEFINE k == callback.channel
           n == callback.fed
           f == AsFloat(ratio[k])
           p == ProcessSamples(delay[k], f, n)
<1>1. /\ k \in Channel
      /\ size' = [size EXCEPT ![k] = @ + p.outputs]
      /\ delay' = [delay EXCEPT ![k] = p.delay]
      /\ callback' = [callback EXCEPT !.channel = @ + 1]
      /\ adjusted' = IF n > 0 THEN adjusted \ {k} ELSE adjusted
      /\ UNCHANGED <<ratio, deviceRate, drift>>
  BY DEF Filter, settings, clock
<1>2. Channel' = Channel
  BY <1>1 DEF Channel
<1>3. callback'.fed = n
  BY <1>1 DEF IInv, Shape
<1>4. /\ delay[k] \in Int /\ delay[k] < OversamplingRatio /\ ratio[k] \in Ratios /\ f \in Nat \ {0}
      /\ n \in Nat /\ FilterAssumption /\ OversamplingRatio \in Nat \ {0}
  BY <1>1, RatiosFacts DEF DelayInv, WasapiAssumption, FilterAssumption
<1>5. /\ p.delay \in Int /\ p.delay < OversamplingRatio
      /\ n = 0 => p.delay = delay[k]
      /\ p.delay >= OversamplingRatio - f \/ p.delay = delay[k] + n * OversamplingRatio
  <2> DEFINE dk == delay[k]
             rk == f
  <2>1. dk \in Int /\ dk < OversamplingRatio /\ rk \in Nat \ {0} /\ n \in Nat /\ p = ProcessSamples(dk, rk, n)
    BY <1>4
  <2> HIDE DEF dk, rk, p, k, n
  <2>2. /\ p.delay \in Int /\ p.delay < OversamplingRatio
        /\ n = 0 => p.delay = dk
        /\ p.delay >= OversamplingRatio - rk \/ p.delay = dk + n * OversamplingRatio
    <3>1. LET pp == ProcessSamples(dk, rk, n)
          IN  /\ pp.outputs \in Nat /\ pp.delay \in Int /\ pp.delay < OversamplingRatio
              /\ pp.outputs = Outputs(dk, rk, n)
              /\ n = 0 => pp.delay = dk /\ pp.outputs = 0
              /\ pp.delay >= OversamplingRatio - rk \/ pp.delay = dk + n * OversamplingRatio
      <4>1. FilterAssumption /\ dk \in Int /\ dk < OversamplingRatio /\ rk \in Nat \ {0} /\ n \in Nat
        BY <1>4, <2>1
      <4> QED
        BY <4>1, FilterFacts, Zenon
    <3> QED
      BY <2>1, <3>1
  <2> QED
    BY <2>2 DEF dk, rk
<1> HIDE DEF p
<1>6. n # 0 => p.delay >= OversamplingRatio - f
  <2> SUFFICES ASSUME n # 0, p.delay = delay[k] + n * OversamplingRatio
               PROVE  p.delay >= OversamplingRatio - f
    BY <1>5
  <2>1. PICK q \in Ratios : delay[k] >= OversamplingRatio - AsFloat(q)
    BY <1>1 DEF DelayInv
  <2>2. AsFloat(q) - f <= n * OversamplingRatio
    BY <1>4 DEF RatiosClose, DelayInv
  <2>3. n * OversamplingRatio \in Nat /\ AsFloat(q) \in Nat
    BY <1>4, RatiosFacts, Z3
  <2> QED
    BY <1>4, <2>1, <2>2, <2>3
<1>7. DOMAIN delay = Channel
  BY DEF IInv, Shape
<1>8. \A c \in Channel : delay'[c] = IF c = k THEN p.delay ELSE delay[c]
  BY <1>1, <1>7
<1>9. ASSUME NEW c \in Channel
      PROVE  /\ delay'[c] \in Int /\ delay'[c] < OversamplingRatio
             /\ \E q \in Ratios : delay'[c] >= OversamplingRatio - AsFloat(q)
             /\ c \notin adjusted' => delay'[c] >= OversamplingRatio - AsFloat(ratio[c])
  <2>1. CASE n = 0 \/ c # k
    <3>1. delay'[c] = delay[c]
      BY <1>5, <1>8, <2>1
    <3>2. c \notin adjusted' => c \notin adjusted
      BY <1>1, <1>4, <2>1
    <3> QED
      BY <3>1, <3>2 DEF DelayInv
  <2>2. CASE n # 0 /\ c = k
    <3>1. delay'[c] = p.delay
      BY <1>8, <2>2
    <3> QED
      BY <1>4, <1>5, <1>6, <2>2, <3>1
  <2> QED
    BY <2>1, <2>2
<1> HIDE DEF k, n
<1> QED
  BY <1>1, <1>2, <1>3, <1>9 DEF DelayInv, n

\* A change of one filter's ratio keeps the bounds of its next output.
LEMMA DelayAdjust ==
  ASSUME WasapiAssumption, DelayInv, SetClockDrift
  PROVE  DelayInv'
<1>1. /\ ratio' = [ratio EXCEPT ![main] = ClockDriftRatio(@, deviceRate + drift)]
      /\ adjusted' = adjusted \cup {main}
      /\ UNCHANGED <<size, delay, callback, deviceRate, drift>>
  BY DEF SetClockDrift, settings
<1>2. Channel' = Channel /\ DOMAIN ratio' = DOMAIN ratio
  BY <1>1 DEF Channel
<1>3. \A c \in Channel : ratio'[c] = IF c = main THEN ClockDriftRatio(ratio[c], deviceRate + drift) ELSE ratio[c]
  BY <1>1 DEF DelayInv
<1>4. \A c \in Channel : ratio'[c] \in Ratios
  BY <1>3, RatiosFacts DEF DelayInv
<1>5. \A c \in Channel : c \notin adjusted' => ratio'[c] = ratio[c] /\ c \notin adjusted
  BY <1>1, <1>3
<1> QED
  BY <1>1, <1>2, <1>4, <1>5 DEF DelayInv

\* Every step keeps the bounds of the next outputs.
LEMMA DelayStep ==
  ASSUME WasapiAssumption, RatiosClose, IInv, DelayInv, [Next]_vars
  PROVE  DelayInv'
<1> USE DEF settings, stream, history, clock, filters
<1>1. ASSUME NEW n \in Frames, Render(n) PROVE DelayInv'
  <2>1. UNCHANGED <<filters, deviceRate, drift, adjusted>>
    BY <1>1 DEF Render
  <2>2. callback'.fed \in Frames \cup {0}
    <3>1. callback' = callback \/ callback'.fed = n
      BY <1>1 DEF Render
    <3> QED
      BY <3>1 DEF DelayInv
  <2> QED
    BY <2>1, <2>2 DEF DelayInv, Channel
<1>2. ASSUME NEW n \in Frames, NEW p \in Frames \cup {0}, NEW b \in BOOLEAN, Capture(n, p, b)
      PROVE  DelayInv'
  BY <1>2 DEF Capture, DelayInv, Channel
<1>3. CASE Filter
  BY <1>3, DelayFilter
<1>4. CASE Play
  <2>1. UNCHANGED <<ratio, delay, deviceRate, drift, adjusted>> /\ callback' = Idle
    BY <1>4 DEF Play
  <2>2. Channel' = Channel
    BY <1>4 DEF Play, Channel
  <2> QED
    BY <2>1, <2>2 DEF DelayInv, Idle
<1>5. CASE Deliver
  <2>1. UNCHANGED <<ratio, delay, deviceRate, drift, adjusted>> /\ callback' = Idle
    BY <1>5 DEF Deliver
  <2>2. Channel' = Channel
    BY <1>5 DEF Deliver, Channel
  <2> QED
    BY <2>1, <2>2 DEF DelayInv, Idle
<1>6. CASE SetClockDrift
  BY <1>6, DelayAdjust
<1>7. ASSUME NEW r \in Rate, SetDeviceRate(r) PROVE DelayInv'
  <2>1. UNCHANGED <<filters, callback, drift, adjusted>> /\ deviceRate' \in {deviceRate, r}
    BY <1>7 DEF SetDeviceRate, Checked
  <2> QED
    BY <2>1 DEF DelayInv, Channel
<1>8. ASSUME NEW b \in BOOLEAN, SetExclusiveMode(b) PROVE DelayInv'
  BY <1>8, DelayUnchanged DEF SetExclusiveMode
<1>9. ASSUME NEW objects, StartFails(objects) PROVE DelayInv'
  <2>1. UNCHANGED <<filters, callback, drift, adjusted>>
    BY <1>9 DEF StartFails
  <2>2. deviceRate' \in {deviceRate, MixRate}
    BY <1>9 DEF StartFails, ConfiguredRate, Checked
  <2>3. deviceRate' \in Rate
    BY <2>2 DEF DelayInv, WasapiAssumption
  <2> QED
    BY <2>1, <2>3 DEF DelayInv, Channel
<1>10. ASSUME NEW n \in 1..MaxChannel, NEW plays \in BOOLEAN, Start(n, plays) PROVE DelayInv'
  BY <1>10, DelayStart DEF WasapiAssumption
<1>11. CASE Stop
  BY <1>11, DelayUnchanged DEF Stop
<1>12. CASE SlowTimer
  BY <1>12, DelayUnchanged DEF SlowTimer
<1>13. ASSUME NEW d \in Drift, ClockDrift(d) PROVE DelayInv'
  BY <1>13 DEF ClockDrift, DelayInv, Channel
<1>14. CASE DeviceLost
  BY <1>14, DelayUnchanged DEF DeviceLost
<1>15. ASSUME NEW n \in Frames, DevicePlays(n) PROVE DelayInv'
  BY <1>15, DelayUnchanged DEF DevicePlays
<1>16. CASE UNCHANGED vars
  BY <1>16, DelayUnchanged DEF vars
<1> QED
  BY <1>1, <1>2, <1>3, <1>4, <1>5, <1>6, <1>7, <1>8, <1>9, <1>10, <1>11, <1>12, <1>13, <1>14,
     <1>15, <1>16 DEF Next, AudioThread, MainThread, Device

\* What TypeOK says, with the sequences as such.
Flags ==
    /\ exclusive \in BOOLEAN /\ active \in BOOLEAN /\ isPaRunning \in BOOLEAN
    /\ oscIsRunning \in BOOLEAN /\ uneven \in BOOLEAN /\ overread \in BOOLEAN

StreamTypes ==
    /\ direction \in {"output", "input"} /\ state \in {"stopped", "playing", "invalidated"}
    /\ deviceRate \in Rate /\ streamRate \in Rate /\ held \subseteq Objects
    /\ drift \in Drift \cup {0} /\ drifts \in 0..MaxDrifts
    /\ xruns \subseteq {"overflow", "underflow"} /\ adjusted \subseteq 1..MaxChannel

FilterTypes ==
    /\ size \in Seq(Nat) /\ ratio \in Seq(Nat \ {0}) /\ delay \in Seq(Int)
    /\ Len(ratio) = Len(size) /\ Len(delay) = Len(size) /\ Len(size) <= MaxChannel
    /\ callback \in [channel : 0..(Len(size) + 1), nframes : Nat, fed : Nat, required : Nat]
    /\ main \in 0..Len(size)
    /\ "service" \in held => Len(size) # 0

\* A block that was let through fits into what the device's buffer has left.
RoomKept ==
    /\ padding \in 0..BufferSize
    /\ callback # Idle /\ direction = "output" => padding + callback.required <= BufferSize

WasapiTypes == Flags /\ StreamTypes /\ FilterTypes /\ RoomKept

\* The flags of a WasapiInstance keep their types.
LEMMA FlagsStep ==
  ASSUME Flags, [Next]_vars
  PROVE  Flags'
<1> USE DEF settings, stream, history, clock, filters, report
<1>1. CASE AudioThread
  <2>1. ASSUME NEW n \in Frames, Render(n) PROVE Flags'
    BY <2>1, Zenon DEF Render, Flags
  <2>2. ASSUME NEW n \in Frames, NEW p \in Frames \cup {0}, NEW b \in BOOLEAN, Capture(n, p, b)
        PROVE  Flags'
    BY <2>2, Zenon DEF Capture, Flags
  <2>3. CASE Filter
    <3>1. UNCHANGED <<exclusive, active, isPaRunning, oscIsRunning, overread>>
      BY <2>3 DEF Filter
    <3>2. uneven' \in BOOLEAN
      BY <2>3, Zenon DEF Filter
    <3> QED
      BY <3>1, <3>2, Zenon DEF Flags
  <2>4. CASE Play
    <3>1. UNCHANGED <<exclusive, active, oscIsRunning, uneven>>
      BY <2>4 DEF Play
    <3>2. overread' = overread \/ overread' \in BOOLEAN
      BY <2>4, Zenon DEF Play
    <3>3. isPaRunning' = isPaRunning \/ isPaRunning' = TRUE
      BY <2>4, Zenon DEF Play
    <3> QED
      BY <3>1, <3>2, <3>3, Zenon DEF Flags
  <2>5. CASE Deliver
    BY <2>5, Zenon DEF Deliver, Flags
  <2> QED
    BY <1>1, <2>1, <2>2, <2>3, <2>4, <2>5 DEF AudioThread
<1>2. CASE MainThread
  <2>1. CASE SetClockDrift
    <3>1. UNCHANGED <<exclusive, active, isPaRunning, oscIsRunning, overread>>
      BY <2>1 DEF SetClockDrift
    <3>2. uneven' \in BOOLEAN
      BY <2>1, Zenon DEF SetClockDrift
    <3> QED
      BY <3>1, <3>2, Zenon DEF Flags
  <2>2. ASSUME NEW r \in Rate, SetDeviceRate(r) PROVE Flags'
    BY <2>2, Zenon DEF SetDeviceRate, Flags
  <2>3. ASSUME NEW b \in BOOLEAN, SetExclusiveMode(b) PROVE Flags'
    <3>1. exclusive' = exclusive \/ exclusive' = b
      BY <2>3, Zenon DEF SetExclusiveMode, Checked
    <3>2. UNCHANGED <<active, isPaRunning, oscIsRunning, uneven, overread>>
      BY <2>3 DEF SetExclusiveMode
    <3> QED
      BY <3>1, <3>2, Zenon DEF Flags
  <2>4. ASSUME NEW objects, StartFails(objects) PROVE Flags'
    BY <2>4, Zenon DEF StartFails, Flags
  <2>5. ASSUME NEW n \in 1..MaxChannel, NEW plays \in BOOLEAN, Start(n, plays) PROVE Flags'
    <3>1. UNCHANGED <<exclusive, isPaRunning, oscIsRunning>> /\ active' = TRUE /\ overread' = FALSE
      BY <2>5 DEF Start
    <3>2. uneven' \in BOOLEAN
      BY <2>5, Zenon DEF Start
    <3> QED
      BY <3>1, <3>2, Zenon DEF Flags
  <2>6. CASE Stop
    BY <2>6, Zenon DEF Stop, Flags
  <2>7. CASE SlowTimer
    BY <2>7, Zenon DEF SlowTimer, Flags
  <2>8. ASSUME NEW d \in Drift, ClockDrift(d) PROVE Flags'
    BY <2>8, Zenon DEF ClockDrift, Flags
  <2> QED
    BY <1>2, <2>1, <2>2, <2>3, <2>4, <2>5, <2>6, <2>7, <2>8 DEF MainThread
<1>3. CASE Device
  BY <1>3, Zenon DEF Device, DeviceLost, DevicePlays, Flags
<1>4. CASE UNCHANGED vars
  BY <1>4, Zenon DEF vars, Flags
<1> QED
  BY <1>1, <1>2, <1>3, <1>4 DEF Next

\* The stream of a WasapiInstance keeps its types.
LEMMA StreamTypesStep ==
  ASSUME WasapiAssumption, StreamTypes, FilterTypes, [Next]_vars
  PROVE  StreamTypes'
<1> USE DEF settings, stream, history, clock, filters, report, device, StreamTypes
<1>1. CASE AudioThread
  BY <1>1 DEF AudioThread, Render, Capture, Filter, Play, Deliver
<1>2. CASE MainThread
  <2>1. CASE SetClockDrift
    <3>1. /\ main # 0 /\ adjusted' = adjusted \cup {main}
          /\ UNCHANGED <<direction, state, deviceRate, streamRate, held, drift, drifts, xruns>>
      BY <2>1 DEF SetClockDrift
    <3>2. Len(size) \in Nat /\ MaxChannel \in Nat
      BY LenProperties DEF FilterTypes, WasapiAssumption
    <3>3. main \in 1..MaxChannel
      BY <3>1, <3>2 DEF FilterTypes
    <3> QED
      BY <3>1, <3>3
  <2>2. ASSUME NEW r \in Rate, SetDeviceRate(r) PROVE StreamTypes'
    BY <2>2 DEF SetDeviceRate, Checked
  <2>3. ASSUME NEW b \in BOOLEAN, SetExclusiveMode(b) PROVE StreamTypes'
    BY <2>3 DEF SetExclusiveMode
  <2>4. ASSUME NEW objects, StartFails(objects) PROVE StreamTypes'
    BY <2>4 DEF StartFails, ConfiguredRate, Checked, WasapiAssumption
  <2>5. ASSUME NEW n \in 1..MaxChannel, NEW plays \in BOOLEAN, Start(n, plays) PROVE StreamTypes'
    BY <2>5 DEF Start, ConfiguredRate, Checked, WasapiAssumption
  <2>6. CASE Stop
    BY <2>6 DEF Stop
  <2>7. CASE SlowTimer
    BY <2>7 DEF SlowTimer
  <2>8. ASSUME NEW d \in Drift, ClockDrift(d) PROVE StreamTypes'
    BY <2>8 DEF ClockDrift, WasapiAssumption
  <2> QED
    BY <1>2, <2>1, <2>2, <2>3, <2>4, <2>5, <2>6, <2>7, <2>8 DEF MainThread
<1>3. CASE Device
  BY <1>3 DEF Device, DeviceLost, DevicePlays
<1>4. CASE UNCHANGED vars
  BY <1>4 DEF vars
<1> QED
  BY <1>1, <1>2, <1>3, <1>4 DEF Next

\* What the filter asks room for is a number of frames.
LEMMA MinRequired ==
  ASSUME OversamplingRatio \in Nat \ {0}, NEW n \in Nat, NEW r \in Nat \ {0}
  PROVE  MinRequiredOutputSize(n, r) \in Nat
<1>1. n * OversamplingRatio \in Nat
  BY Z3
<1> QED
  BY <1>1, Quotient DEF MinRequiredOutputSize

\* The filters of a WasapiInstance keep their types.
LEMMA FilterTypesStep ==
  ASSUME WasapiAssumption, IInv, DelayInv, StreamTypes, FilterTypes, [Next]_vars
  PROVE  FilterTypes'
<1> USE DEF settings, stream, history, clock, filters, report, device
<1>0. /\ OversamplingRatio \in Nat \ {0} /\ Frames \subseteq Nat /\ MaxChannel \in Nat
      /\ Len(size) \in Nat /\ Channel = 1..Len(size)
      /\ callback.channel \in Nat /\ callback.fed \in Nat /\ callback.required \in Nat
      /\ \A c \in Channel : size[c] \in Nat /\ ratio[c] \in Nat \ {0} /\ delay[c] \in Int
  <2>1. /\ size \in [1..Len(size) -> Nat] /\ ratio \in [1..Len(size) -> Nat \ {0}]
        /\ delay \in [1..Len(size) -> Int] /\ Len(size) \in Nat /\ DOMAIN size = 1..Len(size)
    BY LenProperties DEF FilterTypes
  <2>2. callback.channel \in Nat /\ callback.fed \in Nat /\ callback.required \in Nat
    BY <2>1 DEF FilterTypes
  <2> QED
    BY <2>1, <2>2 DEF WasapiAssumption, Channel
<1>1. ASSUME NEW n \in Frames, Render(n) PROVE FilterTypes'
  <2>1. UNCHANGED <<size, ratio, delay, main, held>> /\ Len(size) # 0
    BY <1>1 DEF Render, Ready, FilterTypes
  <2>2. MinRequiredOutputSize(n, ratio[1]) \in Nat /\ size[1] \in Nat
    <3>1. size[1] \in Nat /\ ratio[1] \in Nat \ {0} /\ n \in Nat
      BY <1>0, <2>1
    <3> QED
      BY <1>0, <3>1, MinRequired
  <2>3. \/ callback' = callback
        \/ callback' = [channel |-> 1, nframes |-> n, fed |-> n,
                        required |-> MinRequiredOutputSize(n, ratio[1]) + size[1]]
    BY <1>1 DEF Render
  <2>4. callback' \in [channel : 0..(Len(size) + 1), nframes : Nat, fed : Nat, required : Nat]
    <3>1. MinRequiredOutputSize(n, ratio[1]) + size[1] \in Nat /\ n \in Nat /\ 1 \in 0..(Len(size) + 1)
      BY <1>0, <2>2
    <3> QED
      BY <2>3, <3>1 DEF FilterTypes
  <2> QED
    BY <2>1, <2>4 DEF FilterTypes
<1>2. ASSUME NEW n \in Frames, NEW p \in Frames \cup {0}, NEW b \in BOOLEAN, Capture(n, p, b)
      PROVE  FilterTypes'
  <2>1. UNCHANGED <<size, ratio, delay, main, held>>
    BY <1>2 DEF Capture
  <2>2. callback' = [channel |-> 1, nframes |-> n, fed |-> p, required |-> n]
    BY <1>2 DEF Capture
  <2>3. callback' \in [channel : 0..(Len(size) + 1), nframes : Nat, fed : Nat, required : Nat]
    BY <1>0, <2>2
  <2> QED
    BY <2>1, <2>3 DEF FilterTypes
<1>3. CASE Filter
  <2> DEFINE k == callback.channel
             f == AsFloat(ratio[k])
             p == ProcessSamples(delay[k], f, callback.fed)
  <2>1. /\ k \in 1..Len(size)
        /\ size' = [size EXCEPT ![k] = size[k] + p.outputs]
        /\ delay' = [delay EXCEPT ![k] = p.delay]
        /\ callback' = [callback EXCEPT !.channel = k + 1]
        /\ UNCHANGED <<ratio, main, held>>
    BY <1>0, <1>3 DEF Filter
  <2>2. p.outputs \in Nat /\ p.delay \in Int
    <3>1. FilterAssumption /\ delay[k] \in Int /\ delay[k] < OversamplingRatio /\ f \in Nat \ {0}
      BY <1>0, <2>1, RatiosFacts DEF DelayInv
    <3>2. LET pp == ProcessSamples(delay[k], f, callback.fed)
          IN  pp.outputs \in Nat /\ pp.delay \in Int
      BY <1>0, <3>1, FilterFacts
    <3> QED
      BY <3>2
  <2> HIDE DEF p
  <2>3. size[k] + p.outputs \in Nat
    BY <1>0, <2>1, <2>2
  <2>4. size' \in Seq(Nat) /\ Len(size') = Len(size)
    BY <2>1, <2>3, ExceptSeq DEF FilterTypes
  <2>5. delay' \in Seq(Int) /\ Len(delay') = Len(delay)
    BY <2>1, <2>2, ExceptSeq DEF FilterTypes
  <2>6. callback' \in [channel : 0..(Len(size) + 1), nframes : Nat, fed : Nat, required : Nat]
    <3>1. k + 1 \in 0..(Len(size) + 1)
      BY <1>0, <2>1
    <3> HIDE DEF k
    <3> QED
      BY <2>1, <3>1 DEF FilterTypes
  <2> QED
    BY <2>1, <2>4, <2>5, <2>6 DEF FilterTypes
<1>4. CASE Play
  <2>1. UNCHANGED <<ratio, delay, main, held>> /\ callback' = Idle
    BY <1>4 DEF Play
  <2>2. \/ size' = size
        \/ size' = [c \in 1..Len(size) |-> IF callback.required > size[c] THEN 0 ELSE size[c] - callback.required]
    BY <1>0, <1>4 DEF Play
  <2>3. size' = size \/ size' \in [1..Len(size) -> Nat]
    BY <1>0, <2>2
  <2>4. size' \in Seq(Nat) /\ Len(size') = Len(size)
    <3>1. CASE size' = size
      BY <3>1 DEF FilterTypes
    <3>2. CASE size' \in [1..Len(size) -> Nat]
      BY <1>0, <3>2, SeqDef, LenProperties
    <3> QED
      BY <2>3, <3>1, <3>2
  <2> QED
    BY <1>0, <2>1, <2>4 DEF FilterTypes, Idle
<1>5. CASE Deliver
  <2>1. UNCHANGED <<ratio, delay, main, held>> /\ callback' = Idle
    BY <1>5 DEF Deliver
  <2>2. size' = [c \in 1..Len(size) |-> IF c \in {d \in 1..Len(size) : size[d] >= callback.required}
                                        THEN size[c] - callback.required ELSE size[c]]
    BY <1>0, <1>5 DEF Deliver
  <2>3. size' \in [1..Len(size) -> Nat]
    BY <1>0, <2>2
  <2>4. size' \in Seq(Nat) /\ Len(size') = Len(size)
    BY <1>0, <2>3, SeqDef, LenProperties
  <2> QED
    BY <1>0, <2>1, <2>4 DEF FilterTypes, Idle
<1>6. CASE SetClockDrift
  <2> DEFINE new == ClockDriftRatio(ratio[main], deviceRate + drift)
  <2>1. /\ main # 0 /\ ratio' = [ratio EXCEPT ![main] = new]
        /\ main' = IF main = Len(size) THEN 0 ELSE main + 1
        /\ UNCHANGED <<size, delay, callback, held>>
    BY <1>6 DEF SetClockDrift
  <2>2. main \in 1..Len(ratio) /\ main' \in 0..Len(size)
    BY <1>0, <2>1 DEF FilterTypes
  <2>3. deviceRate + drift \in Int
    BY DEF StreamTypes, WasapiAssumption
  <2>4. new \in Nat \ {0}
    <3>1. ratio[main] \in Nat \ {0}
      BY <2>2, LenProperties DEF FilterTypes
    <3>2. new = ratio[main] \/ (new = deviceRate + drift /\ deviceRate + drift >= 1)
      BY DEF ClockDriftRatio
    <3> HIDE DEF new
    <3> QED
      BY <2>3, <3>1, <3>2
  <2> HIDE DEF new
  <2>5. ratio' \in Seq(Nat \ {0}) /\ Len(ratio') = Len(ratio)
    BY <2>1, <2>2, <2>4, ExceptSeq DEF FilterTypes
  <2> QED
    BY <2>1, <2>2, <2>5 DEF FilterTypes
<1>7. ASSUME NEW r \in Rate, SetDeviceRate(r) PROVE FilterTypes'
  BY <1>7 DEF SetDeviceRate, FilterTypes
<1>8. ASSUME NEW b \in BOOLEAN, SetExclusiveMode(b) PROVE FilterTypes'
  BY <1>8 DEF SetExclusiveMode, FilterTypes
<1>9. ASSUME NEW objects, StartFails(objects) PROVE FilterTypes'
  BY <1>9 DEF StartFails, FilterTypes
<1>10. ASSUME NEW n \in 1..MaxChannel, NEW plays \in BOOLEAN, Start(n, plays), main = 0 PROVE FilterTypes'
  <2> DEFINE q == ClockDriftRatio(deviceRate', deviceRate' + drift)
  <2>1. /\ ~active
        /\ size' = [c \in 1..n |-> IF c <= Len(size) THEN size[c] ELSE 0]
        /\ ratio' = [c \in 1..n |-> q]
        /\ delay' = [c \in 1..n |-> ResetDelay]
        /\ UNCHANGED <<callback, main>>
        /\ deviceRate' = ConfiguredRate
    BY <1>10 DEF Start, ResetDelays
  <2>2. deviceRate' \in Rate
    BY <2>1 DEF ConfiguredRate, Checked, StreamTypes, WasapiAssumption
  <2>3. q \in Nat \ {0}
    <3>1. deviceRate' \in Nat \ {0} /\ deviceRate' + drift \in Int
      BY <2>2 DEF StreamTypes, WasapiAssumption
    <3> QED
      BY <3>1 DEF ClockDriftRatio
  <2>4. ResetDelay \in Int
    BY <1>0 DEF ResetDelay
  <2>5. callback = Idle
    BY <2>1 DEF IInv, Shape
  <2> HIDE DEF q
  <2>6. size' \in [1..n -> Nat] /\ ratio' \in [1..n -> Nat \ {0}] /\ delay' \in [1..n -> Int]
    BY <1>0, <2>1, <2>3, <2>4
  <2>7. /\ size' \in Seq(Nat) /\ ratio' \in Seq(Nat \ {0}) /\ delay' \in Seq(Int)
        /\ Len(size') = n /\ Len(ratio') = n /\ Len(delay') = n
    BY <1>0, <2>6, SeqDef, LenProperties
  <2> QED
    BY <1>0, <1>10, <2>1, <2>5, <2>7 DEF FilterTypes, Idle
<1>11. CASE Stop
  BY <1>11 DEF Stop, FilterTypes
<1>12. CASE SlowTimer
  BY <1>12 DEF SlowTimer, FilterTypes
<1>13. ASSUME NEW d \in Drift, ClockDrift(d) PROVE FilterTypes'
  <2>1. UNCHANGED <<size, ratio, delay, callback, held>> /\ main' = IF size = <<>> THEN 0 ELSE 1
    BY <1>13 DEF ClockDrift
  <2>2. size # <<>> => Len(size) # 0
    BY EmptySeq DEF FilterTypes
  <2> QED
    BY <1>0, <2>1, <2>2 DEF FilterTypes
<1>14. CASE DeviceLost
  BY <1>14 DEF DeviceLost, FilterTypes
<1>15. ASSUME NEW n \in Frames, DevicePlays(n) PROVE FilterTypes'
  BY <1>15 DEF DevicePlays, FilterTypes
<1>16. CASE UNCHANGED vars
  BY <1>16 DEF vars, FilterTypes
<1> QED
  BY <1>1, <1>2, <1>3, <1>4, <1>5, <1>6, <1>7, <1>8, <1>9, <1>10, <1>11, <1>12, <1>13, <1>14,
     <1>15, <1>16 DEF Next, AudioThread, MainThread, Device

\* What was free when a block was let through is free until it is written.
LEMMA RoomStep ==
  ASSUME WasapiAssumption, IInv, StreamTypes, FilterTypes, RoomKept, [Next]_vars
  PROVE  RoomKept'
<1> USE DEF settings, stream, history, clock, filters, report, device
<1>0. BufferSize \in Nat /\ padding \in Nat /\ callback.required \in Nat /\ callback.channel \in Nat /\ Len(size) \in Nat
  BY LenProperties DEF WasapiAssumption, RoomKept, FilterTypes
<1>1. ASSUME NEW n \in Frames, Render(n) PROVE RoomKept'
  <2> DEFINE required == MinRequiredOutputSize(n, ratio[1]) + size[1]
  <2>1. Len(size) # 0
    BY <1>1 DEF Render, Ready, FilterTypes
  <2>2. required \in Nat
    <3>1. size[1] \in Nat /\ ratio[1] \in Nat \ {0} /\ n \in Nat /\ OversamplingRatio \in Nat \ {0}
      BY <1>0, <2>1, SMTT(15) DEF FilterTypes, WasapiAssumption
    <3>2. MinRequiredOutputSize(n, ratio[1]) \in Nat
      BY <3>1, MinRequired
    <3> QED
      BY <3>1, <3>2
  <2>3. \/ UNCHANGED <<callback, padding, direction>>
        \/ /\ BufferSize - padding >= required
           /\ callback = Idle /\ padding' = padding + required
           /\ UNCHANGED <<callback, direction>>
        \/ /\ BufferSize - padding >= required
           /\ callback' = [channel |-> 1, nframes |-> n, fed |-> n, required |-> required]
           /\ UNCHANGED <<padding, direction>>
    BY <1>1 DEF Render, Ready
  <2> HIDE DEF required
  <2> QED
    BY <1>0, <2>2, <2>3 DEF RoomKept
<1>2. ASSUME NEW n \in Frames, NEW p \in Frames \cup {0}, NEW b \in BOOLEAN, Capture(n, p, b)
      PROVE  RoomKept'
  BY <1>2 DEF Capture, RoomKept
<1>3. CASE Filter
  <2>1. UNCHANGED <<padding, direction>> /\ callback'.required = callback.required /\ callback # Idle
    <3>1. callback.channel # 0
      BY <1>3 DEF Filter, IInv, Shape
    <3>2. callback' = [callback EXCEPT !.channel = @ + 1] /\ UNCHANGED <<padding, direction>>
      BY <1>3 DEF Filter
    <3> QED
      BY <3>1, <3>2 DEF FilterTypes, Idle
  <2> QED
    BY <2>1 DEF RoomKept
<1>4. CASE Play
  <2>1. callback' = Idle /\ direction' = direction /\ (padding' = padding \/ padding' = padding + callback.required)
    BY <1>4 DEF Play
  <2>2. callback # Idle /\ direction = "output"
    BY <1>0, <1>4 DEF Play, Idle
  <2> QED
    BY <1>0, <2>1, <2>2 DEF RoomKept
<1>5. CASE Deliver
  BY <1>5 DEF Deliver, RoomKept
<1>6. CASE SetClockDrift
  BY <1>6 DEF SetClockDrift, RoomKept
<1>7. ASSUME NEW r \in Rate, SetDeviceRate(r) PROVE RoomKept'
  BY <1>7 DEF SetDeviceRate, RoomKept
<1>8. ASSUME NEW b \in BOOLEAN, SetExclusiveMode(b) PROVE RoomKept'
  BY <1>8 DEF SetExclusiveMode, RoomKept
<1>9. ASSUME NEW objects, StartFails(objects) PROVE RoomKept'
  BY <1>9 DEF StartFails, RoomKept
<1>10. ASSUME NEW n \in 1..MaxChannel, NEW plays \in BOOLEAN, Start(n, plays) PROVE RoomKept'
  <2>1. callback = Idle /\ callback' = callback /\ padding' = 0
    BY <1>10 DEF Start, IInv, Shape
  <2> QED
    BY <1>0, <2>1 DEF RoomKept
<1>11. CASE Stop
  BY <1>11 DEF Stop, RoomKept
<1>12. CASE SlowTimer
  BY <1>12 DEF SlowTimer, RoomKept
<1>13. ASSUME NEW d \in Drift, ClockDrift(d) PROVE RoomKept'
  BY <1>13 DEF ClockDrift, RoomKept
<1>14. CASE DeviceLost
  BY <1>14 DEF DeviceLost, RoomKept
<1>15. ASSUME NEW n \in Frames, DevicePlays(n) PROVE RoomKept'
  <2>1. /\ UNCHANGED <<callback, direction>> /\ n \in Nat
        /\ padding' = IF n < padding THEN padding - n ELSE 0
    BY <1>15 DEF DevicePlays, WasapiAssumption
  <2> QED
    BY <1>0, <2>1 DEF RoomKept
<1>16. CASE UNCHANGED vars
  BY <1>16 DEF vars, RoomKept
<1> QED
  BY <1>1, <1>2, <1>3, <1>4, <1>5, <1>6, <1>7, <1>8, <1>9, <1>10, <1>11, <1>12, <1>13, <1>14,
     <1>15, <1>16 DEF Next, AudioThread, MainThread, Device

\* The outputs of a block are those there is room for, or one more.
LEMMA RoomForOutputs ==
  ASSUME FilterAssumption, NEW d \in Int, NEW r \in Nat \ {0}, NEW n \in Nat,
         d < OversamplingRatio, d >= OversamplingRatio - r
  PROVE  ProcessSamples(d, r, n).outputs - MinRequiredOutputSize(n, r) \in {0, 1}
<1> DEFINE P == OversamplingRatio
           latest == d + (n - 1) * P
           N == n * P
           m == N \div r
<1>1. N \in Nat /\ latest = d + N - P /\ P \in Nat \ {0}
  <2>1. (n - 1) * P = N - P /\ N \in Nat
    BY Z3 DEF FilterAssumption
  <2> QED
    BY <2>1 DEF FilterAssumption
<1>2. ProcessSamples(d, r, n).outputs = IF latest < 0 THEN 0 ELSE latest \div r + 1
  BY FilterFacts DEF Outputs
<1>3. MinRequiredOutputSize(n, r) = m
  BY DEF MinRequiredOutputSize
<1> HIDE DEF latest, N
<1>4. m \in Nat /\ m * r <= N /\ N < m * r + r
  BY <1>1, Quotient
<1> HIDE DEF m
<1>5. CASE latest < 0
  <2>1. N < r
    BY <1>1, <1>5
  <2>2. m = 0
    BY <1>1, <1>4, <2>1, Z3
  <2> QED
    BY <1>2, <1>3, <1>5, <2>2
<1>6. CASE latest >= 0
  <2>1. latest \in Nat
    BY <1>1, <1>6
  <2> DEFINE l == latest \div r
  <2>2. l \in Nat /\ l * r <= latest /\ latest < l * r + r
    BY <2>1, Quotient
  <2>5. latest \div r = l
    OBVIOUS
  <2> HIDE DEF l
  <2>3. l * r < m * r + r /\ m * r < l * r + 2 * r
    BY <1>1, <1>4, <2>1, <2>2
  <2>4. l < m + 1 /\ m < l + 2
    BY <1>4, <2>2, <2>3, Z3
  <2> QED
    BY <1>2, <1>3, <1>4, <1>6, <2>1, <2>2, <2>4, <2>5
<1> QED
  BY <1>1, <1>5, <1>6

\* The larger of two ratios divides a number fewer times, by one at most if they are close.
LEMMA QuotientsClose ==
  ASSUME NEW a \in Nat, NEW q \in Nat \ {0}, NEW f \in Nat \ {0}, q <= f, a * (f - q) <= q * f
  PROVE  a \div f <= a \div q /\ a \div q <= a \div f + 1
<1> DEFINE x == a \div f
           y == a \div q
<1>1. /\ x \in Nat /\ x * f <= a /\ a < x * f + f
      /\ y \in Nat /\ y * q <= a /\ a < y * q + q
  BY Quotient
<1> HIDE DEF x, y
<1>2. x <= y
  <2>1. x * q <= x * f /\ y * q + q = (y + 1) * q
    BY <1>1, Z3
  <2>2. x * q < (y + 1) * q
    BY <1>1, <2>1, Z3
  <2> QED
    BY <1>1, <2>2, Z3
<1>3. y <= x + 1
  <2>1. a * (f - q) = a * f - a * q
    BY Z3
  <2>2. (y * q) * f <= a * f
    BY <1>1, Z3
  <2>3. a * f <= q * f + a * q
    BY <2>1, Z3
  <2>4. (y * q) * f = q * (y * f) /\ q * f + a * q = q * (f + a)
    BY <1>1, Z3
  <2>5. y * f <= f + a
    <3>1. q * (y * f) <= q * (f + a)
      BY <1>1, <2>2, <2>3, <2>4, Z3
    <3> DEFINE u == y * f
               v == f + a
    <3>2. u \in Int /\ v \in Int /\ q * u <= q * v
      BY <1>1, <3>1, Z3
    <3> HIDE DEF u, v
    <3>3. u <= v
      BY <3>2, Z3
    <3> QED
      BY <3>3 DEF u, v
  <2>6. y * f < x * f + f + f /\ x * f + f + f = (x + 2) * f
    BY <1>1, <2>5, Z3
  <2>7. y < x + 2
    BY <1>1, <2>6, Z3
  <2> QED
    BY <1>1, <2>7
<1> QED
  BY <1>2, <1>3 DEF x, y

\* Rounding the ratio moves the outputs away from the room by one frame at most.
LEMMA RoomForRounded ==
  ASSUME FilterAssumption, NEW d \in Int, NEW q \in Nat \ {0}, NEW f \in Nat \ {0}, NEW n \in Nat,
         d < OversamplingRatio, d >= OversamplingRatio - f,
         n # 0 => /\ n * OversamplingRatio * (f - q) <= q * f
                  /\ n * OversamplingRatio * (q - f) <= q * f
  PROVE  LET more == ProcessSamples(d, f, n).outputs - MinRequiredOutputSize(n, q)
         IN  /\ more \in (-1)..2
             /\ f >= q => more <= 1
             /\ f <= q => more >= 0
<1> DEFINE a == n * OversamplingRatio
           o == ProcessSamples(d, f, n).outputs
           x == a \div f
           y == a \div q
<1>1. a \in Nat
  BY Z3 DEF FilterAssumption
<1>2. a * (f - q) <= q * f /\ a * (q - f) <= q * f
  <2>1. CASE n = 0
    <3>1. a = 0 /\ q * f \in Nat
      BY <2>1, Z3 DEF FilterAssumption
    <3> HIDE DEF a
    <3>2. a * (f - q) = 0 /\ a * (q - f) = 0
      BY <3>1
    <3> QED
      BY <3>1, <3>2
  <2>2. CASE n # 0
    BY <2>2
  <2> QED
    BY <2>1, <2>2
<1>3. o - x \in {0, 1}
  BY RoomForOutputs DEF MinRequiredOutputSize
<1>4. MinRequiredOutputSize(n, q) = y
  BY DEF MinRequiredOutputSize
<1>5. o \in Nat
  <2>1. LET p == ProcessSamples(d, f, n) IN p.outputs \in Nat
    BY FilterFacts
  <2> QED
    BY <2>1
<1>6. x \in Nat /\ y \in Nat
  <2> HIDE DEF a
  <2> QED
    BY <1>1, Quotient
<1>7. f >= q => x <= y /\ y <= x + 1
  <2> HIDE DEF a
  <2> QED
    BY <1>1, <1>2, QuotientsClose
<1>8. f <= q => y <= x /\ x <= y + 1
  <2>1. q * f = f * q
    BY Z3
  <2> HIDE DEF a
  <2> QED
    BY <1>1, <1>2, <2>1, QuotientsClose
<1> HIDE DEF a, o, x, y
<1>9. f >= q \/ f <= q
  OBVIOUS
<1>10. /\ o - y \in (-1)..2
       /\ f >= q => o - y <= 1
       /\ f <= q => o - y >= 0
  BY <1>3, <1>5, <1>6, <1>7, <1>8, <1>9
<1> QED
  BY <1>4, <1>10 DEF o

\* What the filter gives differs from what getMinRequiredOutputSize() asked the device
\* room for by one frame less to two more, and only for the float at which it resamples,
\* which may be more or less than the ratio the room is computed from; in a block of any
\* size and for any rates, while ratios and floats are as close as RatiosClose says
\* (copySamplesRender, ResamplingFilter::getMinRequiredOutputSize).
THEOREM RoomIsEnough ==
  ASSUME WasapiAssumption, RatiosClose
  PROVE  Spec => []RenderExact
<1>1. ASSUME Init
      PROVE  DelayInv /\ WasapiTypes
  <2>1. DelayInv
    BY <1>1 DEF Init, DelayInv, Channel, Idle
  <2>2. Flags
    BY <1>1, Zenon DEF Init, Flags
  <2>3. StreamTypes /\ RoomKept
    BY <1>1 DEF Init, StreamTypes, RoomKept, Idle, WasapiAssumption
  <2>4. FilterTypes
    BY <1>1, EmptySeq DEF Init, FilterTypes, Idle, WasapiAssumption
  <2> QED
    BY <2>1, <2>2, <2>3, <2>4 DEF WasapiTypes
<1>2. IInv /\ DelayInv /\ WasapiTypes /\ [Next]_vars => DelayInv' /\ WasapiTypes'
  BY DelayStep, FlagsStep, StreamTypesStep, FilterTypesStep, RoomStep DEF WasapiTypes
<1>3. ASSUME DelayInv, WasapiTypes
      PROVE  RenderExact
  <2>1. TypeOK
    <3>1. {exclusive, active, isPaRunning, oscIsRunning, uneven, overread} \subseteq BOOLEAN
      BY <1>3 DEF WasapiTypes, Flags
    <3>2. /\ Len(size) \in 0..MaxChannel /\ Channel = 1..Len(size)
          /\ Len(ratio) = Len(size) /\ Len(delay) = Len(size)
          /\ callback.channel \in 0..(MaxChannel + 1) /\ main \in 0..MaxChannel
      BY <1>3, LenProperties, SMTT(15) DEF WasapiTypes, FilterTypes, Channel, WasapiAssumption
    <3>3. \A c \in Channel : size[c] \in Nat /\ ratio[c] \in Nat \ {0} /\ delay[c] < OversamplingRatio
      BY <1>3, <3>2, LenProperties, SMTT(15) DEF WasapiTypes, FilterTypes, DelayInv
    <3> QED
      BY <1>3, <3>1, <3>2, <3>3 DEF TypeOK, WasapiTypes, StreamTypes, RoomKept
  <2>2. ASSUME NEW c \in Channel \ adjusted, NEW n \in Frames
        PROVE  LET f == AsFloat(ratio[c])
                   more == ProcessSamples(delay[c], f, n).outputs - MinRequiredOutputSize(n, ratio[c])
               IN  /\ more \in (-1)..2
                   /\ f >= ratio[c] => more <= 1
                   /\ f <= ratio[c] => more >= 0
    <3> DEFINE q == ratio[c]
               f == AsFloat(q)
    <3>1. /\ delay[c] \in Int /\ q \in Ratios /\ q \in Nat \ {0} /\ f \in Nat \ {0} /\ n \in Nat
          /\ delay[c] < OversamplingRatio /\ delay[c] >= OversamplingRatio - f
      BY <1>3, RatiosFacts DEF DelayInv, WasapiAssumption
    <3>2. n # 0 => /\ n * OversamplingRatio * (f - q) <= q * f
                   /\ n * OversamplingRatio * (q - f) <= q * f
      BY <3>1 DEF RatiosClose
    <3> HIDE DEF f, q
    <3>3. LET more == ProcessSamples(delay[c], f, n).outputs - MinRequiredOutputSize(n, q)
          IN  /\ more \in (-1)..2
              /\ f >= q => more <= 1
              /\ f <= q => more >= 0
      BY <3>1, <3>2, RatiosFacts, RoomForRounded
    <3> QED
      BY <3>3 DEF f, q
  <2> QED
    BY <2>1, <2>2 DEF RenderExact
<1>4. MaxChannel \in Nat
  BY DEF WasapiAssumption
<1>5. Spec => []IInv
  BY <1>4, Inductive
<1> QED
  BY <1>1, <1>2, <1>3, <1>5, PTL DEF Spec

(***************************************************************************)
(* The rings of a sound device.                                            *)
(***************************************************************************)

\* The filter of an instance is the filter.
LEMMA RingFilter ==
  /\ Ring!ResetDelay = ResetDelay
  /\ \A d, r, n : Ring!ProcessSamples(d, r, n) = ProcessSamples(d, r, n)
BY DEF Ring!ResetDelay, ResetDelay, Ring!ProcessSamples, ProcessSamples, Ring!Get, Get

\* ProcessSamples as DeviceRing has it.
LEMMA RingFilterFacts ==
  ASSUME FilterAssumption, NEW d \in Int, d < OversamplingRatio, NEW r \in Nat \ {0}, NEW n \in Nat
  PROVE  LET p == Ring!ProcessSamples(d, r, n)
         IN  /\ p.outputs \in Nat /\ p.delay \in Int /\ p.delay < OversamplingRatio
             /\ p.outputs = Outputs(d, r, n)
<1>1. Ring!ProcessSamples(d, r, n) = ProcessSamples(d, r, n)
  BY RingFilter
<1>2. LET p == ProcessSamples(d, r, n)
      IN  /\ p.outputs \in Nat /\ p.delay \in Int /\ p.delay < OversamplingRatio
          /\ p.outputs = Outputs(d, r, n)
  BY FilterFacts
<1> QED
  BY <1>1, <1>2

\* Cardinality as DeviceRing has it.
LEMMA RingCardinality ==
  \A S : Ring!Cardinality(S) = Cardinality(S)
BY DEF Ring!Cardinality, Cardinality

\* JACK and PortAudio have a largest block.
BlocksBounded ==
    /\ ConsumerFrames # {}
    /\ \E b \in Nat : \A n \in ProducerFrames \cup ConsumerFrames : n <= b

RingTypes ==
    /\ Ring!TypeOK
    /\ \A c \in Ring!Channel : ringDelay[c] < OversamplingRatio
    /\ producer # 0 => ringFrames \in ProducerFrames
    /\ consumer # 0 => frameCount \in ConsumerFrames
    /\ ringStream \/ (producer = 0 /\ consumer = 0)

\* The greatest of a bounded set of block sizes.
LEMMA GreatestBlock ==
  ASSUME NEW S \in SUBSET Nat, S # {}, NEW b \in Nat, \A n \in S : n <= b
  PROVE  Ring!Max(S) \in S /\ \A n \in S : n <= Ring!Max(S)
<1>1. \E m \in S : \A n \in S : m >= n
  BY Greatest
<1> QED
  BY <1>1 DEF Ring!Max

\* The parameters of a device's rings.
LEMMA RingConstants ==
  ASSUME Ring!DeviceRingAssumption
  PROVE  /\ NumChannel \in Nat \ {0} /\ Size \in Nat \ {0} /\ RingDrifts \in Nat
         /\ ProducerFrames \subseteq Nat \ {0} /\ ConsumerFrames \subseteq Nat \ {0}
         /\ Ratio \subseteq Nat \ {0}
         /\ FilterAssumption
  BY DEF Ring!DeviceRingAssumption, FilterAssumption

\* MaxBlock is what it is meant to be.
LEMMA MaxBlockFacts ==
  ASSUME Ring!DeviceRingAssumption, BlocksBounded
  PROVE  /\ Ring!MaxBlock \in Nat \ {0}
         /\ \A n \in ConsumerFrames : n <= Ring!MaxBlock
         /\ \A d \in Int, r \in Ratio, n \in ProducerFrames :
              d < OversamplingRatio =>
                /\ Ring!ProcessSamples(d, r, n).outputs \in Nat
                /\ Ring!ProcessSamples(d, r, n).outputs <= Ring!MaxBlock
<1> DEFINE S == ConsumerFrames \cup
             {Ring!ProcessSamples(Ring!ResetDelay, r, n).outputs : r \in Ratio, n \in ProducerFrames}
<1>1. Ring!ResetDelay \in Int /\ Ring!ResetDelay < OversamplingRatio /\ OversamplingRatio \in Nat \ {0}
  BY RingConstants DEF Ring!ResetDelay, FilterAssumption
<1>2. PICK b \in Nat : \A n \in ProducerFrames \cup ConsumerFrames : n <= b
  BY DEF BlocksBounded
<1>3. ASSUME NEW d \in Int, NEW r \in Ratio, NEW n \in ProducerFrames, d < OversamplingRatio
      PROVE  /\ Ring!ProcessSamples(d, r, n).outputs = Outputs(d, r, n)
             /\ Outputs(d, r, n) \in Nat
             /\ Outputs(d, r, n) <= Outputs(Ring!ResetDelay, r, n)
  <2>1. r \in Nat \ {0} /\ n \in Nat /\ d <= Ring!ResetDelay
    BY <1>1, <1>3, RingConstants DEF Ring!ResetDelay
  <2>2. Ring!ProcessSamples(d, r, n).outputs = Outputs(d, r, n)
    BY <1>3, <2>1, RingConstants, RingFilterFacts
  <2> QED
    BY <1>1, <2>1, <2>2, RingConstants, OutputsMonotone
<1>4. ASSUME NEW r \in Ratio, NEW n \in ProducerFrames
      PROVE  /\ Outputs(Ring!ResetDelay, r, n) \in Nat
             /\ Outputs(Ring!ResetDelay, r, n) <= b * OversamplingRatio
  <2> DEFINE P == OversamplingRatio
             a == Ring!ResetDelay + (n - 1) * P
  <2>1. r \in Nat \ {0} /\ n \in Nat \ {0} /\ n <= b
    BY <1>2, RingConstants
  <2>2. a = n * P - 1 /\ n * P \in Nat \ {0} /\ n * P <= b * P
    <3>1. (n - 1) * P = n * P - P /\ n * P \in Nat \ {0} /\ n * P <= b * P
      BY <1>1, <2>1, Z3
    <3> QED
      BY <1>1, <3>1 DEF Ring!ResetDelay
  <2>3. a \in Nat
    BY <2>2
  <2> HIDE DEF a
  <2> DEFINE q == a \div r
  <2>4. q \in Nat /\ q * r <= a
    BY <2>1, <2>3, Quotient
  <2>5. Outputs(Ring!ResetDelay, r, n) = q + 1
    BY <2>3 DEF Outputs, a
  <2> HIDE DEF q
  <2>6. q <= q * r /\ q * r \in Nat
    BY <2>1, <2>4, Z3
  <2>7. b * P \in Nat
    BY <1>1, Z3
  <2> QED
    BY <2>2, <2>3, <2>4, <2>5, <2>6, <2>7
<1>5. S \in SUBSET Nat /\ S # {}
  <2>1. \A r \in Ratio, n \in ProducerFrames : Ring!ProcessSamples(Ring!ResetDelay, r, n).outputs \in Nat
    BY <1>1, <1>3
  <2> QED
    BY <2>1, RingConstants DEF BlocksBounded
<1>6. \E k \in Nat : \A n \in S : n <= k
  <2>1. b * OversamplingRatio \in Nat /\ b <= b * OversamplingRatio
    BY <1>1, Z3
  <2>2. \A n \in ConsumerFrames : n <= b
    BY <1>2
  <2>3. \A r \in Ratio, n \in ProducerFrames :
          Ring!ProcessSamples(Ring!ResetDelay, r, n).outputs <= b * OversamplingRatio
    BY <1>1, <1>3, <1>4
  <2>4. \A n \in ConsumerFrames : n <= b * OversamplingRatio
    BY <2>1, <2>2, RingConstants
  <2> QED
    BY <2>1, <2>3, <2>4
<1>7. Ring!MaxBlock = Ring!Max(S)
  BY DEF Ring!MaxBlock
<1>8. Ring!MaxBlock \in S /\ \A n \in S : n <= Ring!MaxBlock
  <2> HIDE DEF S
  <2> QED
    BY <1>5, <1>6, <1>7, GreatestBlock
<1>9. Ring!MaxBlock \in Nat /\ \A n \in ConsumerFrames : n <= Ring!MaxBlock
  BY <1>5, <1>8
<1>10. Ring!MaxBlock # 0
  <2>1. PICK n \in ConsumerFrames : TRUE
    BY DEF BlocksBounded
  <2> QED
    BY <1>9, <2>1, RingConstants
<1>11. ASSUME NEW d \in Int, NEW r \in Ratio, NEW n \in ProducerFrames, d < OversamplingRatio
       PROVE  /\ Ring!ProcessSamples(d, r, n).outputs \in Nat
              /\ Ring!ProcessSamples(d, r, n).outputs <= Ring!MaxBlock
  <2>1. Ring!ProcessSamples(Ring!ResetDelay, r, n).outputs \in S
    OBVIOUS
  <2>2. Ring!ProcessSamples(Ring!ResetDelay, r, n).outputs <= Ring!MaxBlock
    BY <1>8, <2>1
  <2>3. /\ Ring!ProcessSamples(Ring!ResetDelay, r, n).outputs = Outputs(Ring!ResetDelay, r, n)
        /\ Outputs(Ring!ResetDelay, r, n) \in Nat
    BY <1>1, <1>3
  <2>4. /\ Ring!ProcessSamples(d, r, n).outputs = Outputs(d, r, n)
        /\ Outputs(d, r, n) \in Nat
        /\ Outputs(d, r, n) <= Outputs(Ring!ResetDelay, r, n)
    BY <1>3, <1>11
  <2> QED
    BY <1>9, <2>2, <2>3, <2>4
<1> QED
  BY <1>9, <1>10, <1>11

Made(c) == c < producer
Taken(c) == c < consumer

\* The filters have made the same of the same blocks.
FiltersTogether ==
    \A c, d \in Ring!Channel :
        /\ Made(c) <=> Made(d) => ringDelay[c] = ringDelay[d]
        /\ Made(c) /\ ~Made(d) => ringDelay[c] = Ring!ProcessSamples(ringDelay[d], ringRatio[d], ringFrames).delay

\* How far a channel is ahead of a later one because the threads are between them.
MadeBetween(c, d) ==
    IF Made(c) /\ ~Made(d) THEN Ring!ProcessSamples(ringDelay[d], ringRatio[d], ringFrames).outputs ELSE 0
TakenBetween(c, d) == IF Taken(c) /\ ~Taken(d) THEN frameCount ELSE 0
Ahead(c, d) == fill[c] - fill[d] - (MadeBetween(c, d) - TakenBetween(c, d))

\* Apart from that, two channels are less than two blocks apart.
Close(c, d) == -2 * Ring!MaxBlock < Ahead(c, d) /\ Ahead(c, d) < 2 * Ring!MaxBlock
ChannelsClose == \A c, d \in Ring!Channel : c < d => Close(c, d)

RingInv == RingTypes /\ (~ringUneven => FiltersTogether /\ ChannelsClose)

\* The variables have their types when a thread produces.
LEMMA ProduceTypes ==
  ASSUME Ring!DeviceRingAssumption, RingTypes, Ring!Produce
  PROVE  RingTypes'
<1> DEFINE c == producer
           r == Ring!ProcessSamples(ringDelay[c], ringRatio[c], ringFrames)
<1>1. c \in Ring!Channel /\ producer # 0 /\ NumChannel \in Nat \ {0} /\ ringStream
  BY RingConstants DEF Ring!Produce, RingTypes, Ring!TypeOK, Ring!Channel
<1>2. /\ ringDelay[c] \in Int /\ ringDelay[c] < OversamplingRatio /\ ringRatio[c] \in Nat \ {0} /\ ringFrames \in Nat
      /\ ringDelay \in [Ring!Channel -> Int]
  BY <1>1, RingConstants DEF RingTypes, Ring!TypeOK
<1>3. r.outputs \in Nat /\ r.delay \in Int /\ r.delay < OversamplingRatio
  BY <1>2, RingConstants, RingFilterFacts
<1>4. ringDelay' = [ringDelay EXCEPT ![c] = r.delay]
  BY DEF Ring!Produce
<1>5. \/ Ring!Fits(c, r.outputs) /\ fill' = [fill EXCEPT ![c] = @ + r.outputs] /\ UNCHANGED <<
                                                                                              overflow,
                                                                                              occurred>>
      \/ overflow' = TRUE /\ occurred' = occurred \cup {"overflow"} /\ UNCHANGED fill
  BY DEF Ring!Produce
<1>6. /\ producer' = Ring!NextChannel(producer)
      /\ ringUneven' = (ringUneven \/ Ring!Cardinality({ringRatio[k] : k \in Ring!Channel}) > 1)
      /\ UNCHANGED <<ringStream, ringRatio, ringFrames, consumer, frameCount, silent, ringMain,
                     ringDrift, underflow, counted, ringChanges>>
  BY DEF Ring!Produce
<1> HIDE DEF r, c
<1>7. ringDelay' \in [Ring!Channel -> Int] /\ \A k \in Ring!Channel : ringDelay'[k] < OversamplingRatio
  BY <1>1, <1>2, <1>3, <1>4 DEF RingTypes
<1>8. fill' \in [Ring!Channel -> 0..(Size - 1)]
  <2>1. fill \in [Ring!Channel -> 0..(Size - 1)] /\ Size \in Nat
    BY RingConstants DEF RingTypes, Ring!TypeOK
  <2>2. Ring!Fits(c, r.outputs) => fill[c] + r.outputs \in 0..(Size - 1)
    BY <1>1, <1>3, <2>1 DEF Ring!Fits
  <2> DEFINE n == fill[c] + r.outputs
  <2>3. Ring!Fits(c, r.outputs) => n \in 0..(Size - 1)
    BY <2>2
  <2>4. fill' = fill \/ (Ring!Fits(c, r.outputs) /\ fill' = [fill EXCEPT ![c] = n])
    BY <1>5
  <2> HIDE DEF n
  <2> QED
    BY <2>1, <2>3, <2>4
<1>9. producer' \in 0..NumChannel
  BY <1>1, <1>6 DEF Ring!NextChannel, c, Ring!Channel
<1>10. overflow' \in BOOLEAN /\ occurred' \subseteq {"overflow", "underflow"}
  BY <1>5 DEF RingTypes, Ring!TypeOK
<1>11. ringUneven' \in BOOLEAN
  BY <1>6
<1> QED
  BY <1>1, <1>6, <1>7, <1>8, <1>9, <1>10, <1>11 DEF RingTypes, Ring!TypeOK

\* A channel is resampled and, if it has room, gets the block.
LEMMA ProduceInv ==
  ASSUME Ring!DeviceRingAssumption, BlocksBounded, RingInv, Ring!Produce
  PROVE  RingInv'
<1> DEFINE p == producer
           r == Ring!ProcessSamples(ringDelay[p], ringRatio[p], ringFrames)
           o == r.outputs
<1>1. p \in Ring!Channel /\ p \in Nat /\ NumChannel \in Nat \ {0} /\ Ring!Channel = 1..NumChannel
  BY RingConstants DEF Ring!Produce, RingInv, RingTypes, Ring!TypeOK, Ring!Channel
<1>2. RingTypes'
  BY ProduceTypes DEF RingInv
<1> SUFFICES ASSUME ~ringUneven'
             PROVE  FiltersTogether' /\ ChannelsClose'
  BY <1>2 DEF RingInv
<1>3. /\ ringDelay' = [ringDelay EXCEPT ![p] = r.delay]
      /\ Ring!Fits(p, o) => fill' = [fill EXCEPT ![p] = @ + o]
      /\ ~Ring!Fits(p, o) => fill' = fill
      /\ producer' = Ring!NextChannel(p)
      /\ ringUneven' = (ringUneven \/ Ring!Cardinality({ringRatio[k] : k \in Ring!Channel}) > 1)
      /\ UNCHANGED <<ringRatio, ringFrames, consumer, frameCount>>
  BY DEF Ring!Produce
<1>4. FiltersTogether /\ ChannelsClose
  BY <1>3 DEF RingInv
<1>5. \A c, d \in Ring!Channel : ringRatio[c] = ringRatio[d]
  <2> SUFFICES ASSUME NEW c \in Ring!Channel, NEW d \in Ring!Channel, ringRatio[c] # ringRatio[d]
               PROVE  FALSE
    OBVIOUS
  <2> DEFINE S == {ringRatio[k] : k \in Ring!Channel}
  <2>1. ~(Cardinality(S) > 1)
    BY <1>3, RingCardinality
  <2>2. IsFiniteSet(Ring!Channel)
    BY <1>1, FS_Interval
  <2>3. IsFiniteSet(S)
    <3> DEFINE f == [k \in Ring!Channel |-> ringRatio[k]]
    <3>1. f \in Surjection(Ring!Channel, S)
      BY DEF Surjection
    <3> HIDE DEF f, S
    <3> QED
      BY <2>2, <3>1, FS_Surjection
  <2>4. {ringRatio[c], ringRatio[d]} \in SUBSET S
    OBVIOUS
  <2> HIDE DEF S
  <2>5. Cardinality({ringRatio[c], ringRatio[d]}) <= Cardinality(S) /\ Cardinality(S) \in Nat
    BY <2>3, <2>4, FS_Subset, FS_CardinalityType
  <2>6. Cardinality({ringRatio[c], ringRatio[d]}) = 2
    <3>1. IsFiniteSet({ringRatio[c]}) /\ Cardinality({ringRatio[c]}) = 1
      BY FS_Singleton
    <3>2. {ringRatio[c], ringRatio[d]} = {ringRatio[c]} \cup {ringRatio[d]} /\ ringRatio[d] \notin {ringRatio[c]}
      OBVIOUS
    <3> QED
      BY <3>1, <3>2, FS_AddElement
  <2> QED
    BY <2>1, <2>5, <2>6
<1>6. /\ ringDelay[p] \in Int /\ ringDelay[p] < OversamplingRatio /\ ringRatio[p] \in Ratio
      /\ ringFrames \in ProducerFrames
  BY <1>1 DEF Ring!Produce, RingInv, RingTypes, Ring!TypeOK
<1>7. o \in Nat /\ o <= Ring!MaxBlock /\ Ring!MaxBlock \in Nat \ {0}
  BY <1>6, MaxBlockFacts
<1>8. DOMAIN ringDelay = Ring!Channel /\ DOMAIN fill = Ring!Channel /\ fill \in [Ring!Channel -> 0..(Size - 1)]
      /\ Size \in Nat
  BY RingConstants DEF RingInv, RingTypes, Ring!TypeOK
<1> HIDE DEF r, o
<1>9. /\ ringDelay'[p] = r.delay
      /\ \A c \in Ring!Channel : c # p => ringDelay'[c] = ringDelay[c] /\ fill'[c] = fill[c]
      /\ Ring!Fits(p, o) => fill'[p] = fill[p] + o
      /\ ~Ring!Fits(p, o) => fill'[p] = fill[p]
  BY <1>1, <1>3, <1>8
\* Who has made the block after this step, and what the filters still to come make of it.
<1>10. FiltersTogether' /\ \A c, d \in Ring!Channel : c < d =>
          /\ c = p => MadeBetween(c, d) = 0 /\ MadeBetween(c, d)' = o
          /\ d = p => MadeBetween(c, d) = o /\ MadeBetween(c, d)' = 0
          /\ c # p /\ d # p => MadeBetween(c, d)' = MadeBetween(c, d)
  <2>1. CASE p = NumChannel
    <3>1. producer' = 0
      BY <1>3, <2>1 DEF Ring!NextChannel
    <3>2. \A c \in Ring!Channel : ~Made(c)' /\ (c = p \/ Made(c)) /\ ~Made(p)
      BY <1>1, <2>1, <3>1 DEF Made
    <3>3. \A c \in Ring!Channel : ringDelay'[c] = r.delay
      BY <1>1, <1>4, <1>9, <3>2 DEF FiltersTogether, r
    <3>4. FiltersTogether'
      BY <3>2, <3>3 DEF FiltersTogether
    <3>5. \A c, d \in Ring!Channel : c < d => c # p
      BY <1>1, <2>1
    <3> QED
      BY <3>2, <3>4, <3>5 DEF MadeBetween, r, o
  <2>2. CASE p # NumChannel
    <3>1. producer' = p + 1
      BY <1>3, <2>2 DEF Ring!NextChannel
    <3>2. \A c \in Ring!Channel : (Made(c)' <=> Made(c) \/ c = p) /\ ~Made(p)
      BY <1>1, <3>1 DEF Made
    <3>3. \A c \in Ring!Channel : Made(c)' => ringDelay'[c] = r.delay
      BY <1>1, <1>4, <1>9, <3>2 DEF FiltersTogether, r
    <3>4. \A c \in Ring!Channel : ~Made(c)' =>
             ringDelay'[c] = ringDelay[p] /\ ringRatio'[c] = ringRatio[p] /\ ringFrames' = ringFrames
      BY <1>1, <1>3, <1>4, <1>5, <1>9, <3>2 DEF FiltersTogether
    <3>5. \A c \in Ring!Channel : ~Made(c)' => Ring!ProcessSamples(ringDelay'[c], ringRatio'[c], ringFrames') = r
      BY <3>4 DEF r
    <3>6. FiltersTogether'
      BY <3>3, <3>4, <3>5 DEF FiltersTogether, r
    <3>7. \A c \in Ring!Channel : ~Made(c) /\ c # p => ringDelay[c] = ringDelay[p] /\ ringRatio[c] = ringRatio[p]
      BY <1>1, <1>4, <1>5, <3>2 DEF FiltersTogether
    <3>8. \A c \in Ring!Channel : ~Made(c) => Ring!ProcessSamples(ringDelay[c], ringRatio[c], ringFrames) = r
      BY <3>7 DEF r
    <3>9. \A c, d \in Ring!Channel : c < d => (c = p => ~Made(d)) /\ (d = p => Made(c))
      BY <1>1 DEF Made
    <3>10. \A c, d \in Ring!Channel : c < d => MadeBetween(c, d) = IF Made(c) /\ ~Made(d) THEN o ELSE 0
      BY <3>8 DEF MadeBetween, o
    <3>11. \A c, d \in Ring!Channel : c < d => MadeBetween(c, d)' = IF Made(c)' /\ ~Made(d)' THEN o ELSE 0
      BY <3>5 DEF MadeBetween, o
    <3>12. \A c, d \in Ring!Channel : c < d => c # d
      BY <1>1
    <3> QED
      BY <3>2, <3>6, <3>9, <3>10, <3>11, <3>12
  <2> QED
    BY <2>1, <2>2
<1>11. ASSUME NEW c \in Ring!Channel, NEW d \in Ring!Channel, c < d
       PROVE  Close(c, d)'
  <2> DEFINE y == TakenBetween(c, d)
             x == MadeBetween(c, d)
  <2>1. /\ y \in Nat /\ y <= Ring!MaxBlock /\ y' = y
    <3>1. Taken(c) => consumer # 0
      BY <1>1 DEF Taken
    <3>2. Taken(c) => frameCount \in ConsumerFrames
      BY <3>1 DEF RingInv, RingTypes
    <3>3. y' = y
      BY <1>3 DEF TakenBetween, Taken
    <3> QED
      BY <1>7, <3>2, <3>3, MaxBlockFacts, RingConstants DEF TakenBetween
  <2>2. /\ fill[c] \in Nat /\ fill[d] \in Nat /\ fill[c] < Size /\ fill[d] < Size
    BY <1>8
  <2>3. /\ -2 * Ring!MaxBlock < fill[c] - fill[d] - (x - y)
        /\ fill[c] - fill[d] - (x - y) < 2 * Ring!MaxBlock
    BY <1>4, <1>11 DEF ChannelsClose, Close, Ahead
  <2>4. (Ring!Fits(p, o) <=> fill[p] + o < Size)
    BY DEF Ring!Fits
  <2>5. Close(c, d)' <=> /\ -2 * Ring!MaxBlock < fill'[c] - fill'[d] - (x' - y)
                         /\ fill'[c] - fill'[d] - (x' - y) < 2 * Ring!MaxBlock
    BY <2>1 DEF Close, Ahead, Ring!MaxBlock
  <2> HIDE DEF x, y
  <2>6. c # d /\ c \in Nat /\ d \in Nat
    BY <1>1, <1>11
  <2>7. CASE c = p
    <3>1. x = 0 /\ x' = o
      BY <1>10, <1>11, <2>7 DEF x
    <3>2. fill'[d] = fill[d]
      BY <1>9, <2>6, <2>7
    <3>3. fill'[c] = fill[c] + o \/ (fill'[c] = fill[c] /\ fill[c] + o >= Size)
      BY <1>7, <1>8, <1>9, <2>2, <2>4, <2>7
    <3> QED
      BY <1>7, <1>8, <2>1, <2>2, <2>3, <2>5, <3>1, <3>2, <3>3
  <2>8. CASE d = p
    <3>1. x = o /\ x' = 0
      BY <1>10, <1>11, <2>8 DEF x
    <3>2. fill'[c] = fill[c]
      BY <1>9, <2>6, <2>8
    <3>3. fill'[d] = fill[d] + o \/ (fill'[d] = fill[d] /\ fill[d] + o >= Size)
      BY <1>7, <1>8, <1>9, <2>2, <2>4, <2>8
    <3> QED
      BY <1>7, <1>8, <2>1, <2>2, <2>3, <2>5, <3>1, <3>2, <3>3
  <2>9. CASE c # p /\ d # p
    <3>1. x' = x /\ fill'[c] = fill[c] /\ fill'[d] = fill[d]
      BY <1>9, <1>10, <1>11, <2>9 DEF x
    <3> QED
      BY <2>3, <2>5, <3>1
  <2> QED
    BY <2>7, <2>8, <2>9
<1> QED
  BY <1>10, <1>11 DEF ChannelsClose

\* A channel's block is read whole or not at all.
LEMMA ConsumeInv ==
  ASSUME Ring!DeviceRingAssumption, BlocksBounded, RingInv, Ring!Consume
  PROVE  RingInv'
<1> DEFINE p == consumer
           y == frameCount
<1>1. p \in Ring!Channel /\ p \in Nat /\ NumChannel \in Nat \ {0} /\ Ring!Channel = 1..NumChannel /\ ringStream
  BY RingConstants DEF Ring!Consume, RingInv, RingTypes, Ring!TypeOK, Ring!Channel
<1>2. y \in ConsumerFrames /\ y \in Nat /\ y <= Ring!MaxBlock /\ Ring!MaxBlock \in Nat \ {0}
  BY MaxBlockFacts, RingConstants DEF Ring!Consume, RingInv, RingTypes
<1>3. /\ fill[p] >= y => fill' = [fill EXCEPT ![p] = @ - y]
      /\ ~(fill[p] >= y) => fill' = fill
      /\ consumer' = Ring!NextChannel(p)
      /\ UNCHANGED <<ringStream, ringRatio, ringDelay, producer, ringFrames, frameCount, ringMain,
                     ringDrift, overflow, counted, ringUneven, ringChanges>>
  BY DEF Ring!Consume
<1>4. fill \in [Ring!Channel -> 0..(Size - 1)] /\ Size \in Nat /\ DOMAIN fill = Ring!Channel
  BY RingConstants DEF RingInv, RingTypes, Ring!TypeOK
<1>5. /\ \A c \in Ring!Channel : c # p => fill'[c] = fill[c]
      /\ \/ fill'[p] = fill[p] - y
         \/ fill'[p] = fill[p] /\ fill[p] < y
  <2>1. CASE fill[p] >= y
    BY <1>1, <1>3, <1>4, <2>1
  <2>2. CASE ~(fill[p] >= y)
    <3>1. fill[p] \in Nat
      BY <1>1, <1>4
    <3> QED
      BY <1>2, <1>3, <2>2, <3>1
  <2> QED
    BY <2>1, <2>2
<1>6. RingTypes'
  <2>1. fill' \in [Ring!Channel -> 0..(Size - 1)]
    <3> DEFINE n == fill[p] - y
    <3>1. fill[p] \in 0..(Size - 1)
      BY <1>1, <1>4
    <3>2. fill[p] >= y => n \in 0..(Size - 1)
      BY <1>2, <1>4, <3>1
    <3>3. fill' = fill \/ (fill[p] >= y /\ fill' = [fill EXCEPT ![p] = n])
      BY <1>3
    <3> HIDE DEF n
    <3> QED
      BY <1>4, <3>2, <3>3
  <2>2. silent' \in BOOLEAN
    BY DEF Ring!Consume
  <2>3. underflow' \in BOOLEAN /\ occurred' \subseteq {"overflow", "underflow"}
    <3>1. \/ underflow' = TRUE /\ occurred' = occurred \cup {"underflow"}
          \/ UNCHANGED <<underflow, occurred>>
      BY DEF Ring!Consume
    <3> QED
      BY <3>1 DEF RingInv, RingTypes, Ring!TypeOK
  <2>4. consumer' \in 0..NumChannel
    BY <1>1, <1>3 DEF Ring!NextChannel
  <2> QED
    BY <1>1, <1>2, <1>3, <2>1, <2>2, <2>3, <2>4 DEF RingInv, RingTypes, Ring!TypeOK
<1> SUFFICES ASSUME ~ringUneven'
             PROVE  FiltersTogether' /\ ChannelsClose'
  BY <1>6 DEF RingInv
<1>7. FiltersTogether /\ ChannelsClose
  BY <1>3 DEF RingInv
<1>8. FiltersTogether'
  BY <1>3, <1>7 DEF FiltersTogether, Made
<1>9. ASSUME NEW c \in Ring!Channel, NEW d \in Ring!Channel, c < d
      PROVE  /\ c = p => TakenBetween(c, d) = 0 /\ TakenBetween(c, d)' = y
             /\ d = p => TakenBetween(c, d) = y /\ TakenBetween(c, d)' = 0
             /\ c # p /\ d # p => TakenBetween(c, d)' = TakenBetween(c, d)
  <2>1. c \in 1..NumChannel /\ d \in 1..NumChannel /\ c < d
    BY <1>1, <1>9
  <2>2. CASE p = NumChannel
    <3>1. consumer' = 0
      BY <1>3, <2>2 DEF Ring!NextChannel
    <3> QED
      BY <1>1, <1>3, <2>1, <2>2, <3>1 DEF TakenBetween, Taken
  <2>3. CASE p # NumChannel
    <3>1. consumer' = p + 1
      BY <1>3, <2>3 DEF Ring!NextChannel
    <3> QED
      BY <1>1, <1>3, <2>1, <2>3, <3>1 DEF TakenBetween, Taken
  <2> QED
    BY <2>2, <2>3
<1>10. ASSUME NEW c \in Ring!Channel, NEW d \in Ring!Channel, c < d
       PROVE  Close(c, d)'
  <2> DEFINE x == MadeBetween(c, d)
             z == TakenBetween(c, d)
  <2>1. x \in Nat /\ x <= Ring!MaxBlock /\ x' = x
    <3>1. x' = x
      BY <1>3 DEF MadeBetween, Made
    <3>2. Made(c) => ringFrames \in ProducerFrames
      <4>1. Made(c) => producer # 0
        BY <1>1 DEF Made
      <4> QED
        BY <4>1 DEF RingInv, RingTypes
    <3>3. ringDelay[d] \in Int /\ ringDelay[d] < OversamplingRatio /\ ringRatio[d] \in Ratio
      BY DEF RingInv, RingTypes, Ring!TypeOK
    <3> QED
      BY <1>2, <3>1, <3>2, <3>3, MaxBlockFacts DEF MadeBetween
  <2>2. /\ fill[c] \in Nat /\ fill[d] \in Nat /\ fill[c] < Size /\ fill[d] < Size
    BY <1>4
  <2>3. /\ -2 * Ring!MaxBlock < fill[c] - fill[d] - (x - z)
        /\ fill[c] - fill[d] - (x - z) < 2 * Ring!MaxBlock
    BY <1>7, <1>10 DEF ChannelsClose, Close, Ahead
  <2>4. Close(c, d)' <=> /\ -2 * Ring!MaxBlock < fill'[c] - fill'[d] - (x - z')
                         /\ fill'[c] - fill'[d] - (x - z') < 2 * Ring!MaxBlock
    BY <2>1 DEF Close, Ahead, Ring!MaxBlock
  <2> HIDE DEF x, z
  <2>5. c # d
    BY <1>1, <1>10
  <2>6. CASE c = p
    <3>1. z = 0 /\ z' = y
      BY <1>9, <1>10, <2>6 DEF z
    <3>2. fill'[d] = fill[d]
      BY <1>5, <2>5, <2>6
    <3>3. fill'[c] = fill[c] - y \/ (fill'[c] = fill[c] /\ fill[c] < y)
      BY <1>5, <2>6
    <3> QED
      BY <1>2, <2>1, <2>2, <2>3, <2>4, <3>1, <3>2, <3>3
  <2>7. CASE d = p
    <3>1. z = y /\ z' = 0
      BY <1>9, <1>10, <2>7 DEF z
    <3>2. fill'[c] = fill[c]
      BY <1>5, <2>5, <2>7
    <3>3. fill'[d] = fill[d] - y \/ (fill'[d] = fill[d] /\ fill[d] < y)
      BY <1>5, <2>7
    <3> QED
      BY <1>2, <2>1, <2>2, <2>3, <2>4, <3>1, <3>2, <3>3
  <2>8. CASE c # p /\ d # p
    <3>1. z' = z /\ fill'[c] = fill[c] /\ fill'[d] = fill[d]
      BY <1>5, <1>9, <1>10, <2>8 DEF z
    <3> QED
      BY <2>3, <2>4, <3>1
  <2> QED
    BY <2>6, <2>7, <2>8
<1> QED
  BY <1>8, <1>10 DEF ChannelsClose

\* At the start of a stream all channels are alike.
LEMMA AllAlike ==
  ASSUME Ring!DeviceRingAssumption, BlocksBounded,
         NEW d \in Int, fill = [c \in Ring!Channel |-> 0], ringDelay = [c \in Ring!Channel |-> d],
         producer = 0, consumer = 0
  PROVE  FiltersTogether /\ ChannelsClose
<1>1. Ring!MaxBlock \in Nat \ {0}
  BY MaxBlockFacts
<1>2. \A c \in Ring!Channel : ~Made(c) /\ ~Taken(c)
  BY RingConstants DEF Made, Taken, Ring!Channel
<1>3. FiltersTogether
  BY <1>2 DEF FiltersTogether
<1>4. \A c, d1 \in Ring!Channel : MadeBetween(c, d1) = 0 /\ TakenBetween(c, d1) = 0
  BY <1>2 DEF MadeBetween, TakenBetween
<1>5. \A c, d1 \in Ring!Channel : Close(c, d1)
  BY <1>1, <1>4 DEF Close, Ahead
<1> QED
  BY <1>3, <1>5 DEF ChannelsClose

\* The invariant holds before the device starts.
LEMMA RingInitInv ==
  ASSUME Ring!DeviceRingAssumption, BlocksBounded, Ring!Init
  PROVE  RingInv
<1>1. Ring!ResetDelay \in Int /\ Ring!ResetDelay < OversamplingRatio
  BY RingConstants DEF Ring!ResetDelay, FilterAssumption
<1>2. FiltersTogether /\ ChannelsClose
  BY <1>1, AllAlike DEF Ring!Init
<1>3. Ring!TypeOK
  <2>1. /\ fill \in [Ring!Channel -> 0..(Size - 1)] /\ ringRatio \in [Ring!Channel -> Ratio]
        /\ ringDelay \in [Ring!Channel -> Int] /\ {producer, consumer} \subseteq 0..NumChannel
        /\ ringChanges \in 0..RingDrifts
    BY <1>1, RingConstants DEF Ring!Init
  <2> QED
    BY <2>1 DEF Ring!Init, Ring!TypeOK
<1>4. RingTypes
  BY <1>1, <1>3 DEF RingTypes, Ring!Init
<1> QED
  BY <1>2, <1>4 DEF RingInv

\* A start of the device keeps the invariant.
LEMMA RingStartInv ==
  ASSUME Ring!DeviceRingAssumption, BlocksBounded, RingInv, Ring!Start
  PROVE  RingInv'
<1>1. Ring!ResetDelay \in Int /\ Ring!ResetDelay < OversamplingRatio
  BY RingConstants DEF Ring!ResetDelay, FilterAssumption
<1>2. producer = 0 /\ consumer = 0
  BY DEF Ring!Start, RingInv, RingTypes
<1>3. /\ fill' = [c \in Ring!Channel |-> 0] /\ ringDelay' = [c \in Ring!Channel |-> Ring!ResetDelay]
      /\ ringRatio' = [c \in Ring!Channel |-> ringDrift] /\ ringUneven' = FALSE /\ ringStream' = TRUE
      /\ UNCHANGED <<producer, consumer, ringFrames, frameCount, silent, ringMain, ringDrift,
                     overflow, underflow, counted, occurred, ringChanges>>
  BY DEF Ring!Start, Ring!threads
<1>4. Ring!TypeOK'
  <2>1. Ring!TypeOK
    BY DEF RingInv, RingTypes
  <2>2. 0 \in 0..(Size - 1)
    BY RingConstants
  <2>3. /\ fill' \in [Ring!Channel -> 0..(Size - 1)] /\ ringRatio' \in [Ring!Channel -> Ratio]
        /\ ringDelay' \in [Ring!Channel -> Int]
    BY <1>1, <1>3, <2>1, <2>2 DEF Ring!TypeOK
  <2> QED
    BY <1>3, <2>1, <2>3 DEF Ring!TypeOK
<1>5. RingTypes'
  BY <1>1, <1>2, <1>3, <1>4 DEF RingTypes
<1>6. Ring!MaxBlock \in Nat \ {0}
  BY MaxBlockFacts
<1>7. \A c \in Ring!Channel : ~Made(c)' /\ ~Taken(c)'
  BY <1>2, <1>3, RingConstants DEF Made, Taken, Ring!Channel
<1>8. FiltersTogether'
  BY <1>3, <1>7 DEF FiltersTogether
<1>9. \A c, d \in Ring!Channel : MadeBetween(c, d)' = 0 /\ TakenBetween(c, d)' = 0
  BY <1>7 DEF MadeBetween, TakenBetween
<1>10. \A c, d \in Ring!Channel : Close(c, d)'
  BY <1>3, <1>6, <1>9 DEF Close, Ahead, Ring!MaxBlock
<1> QED
  BY <1>5, <1>8, <1>10 DEF RingInv, ChannelsClose

\* Steps that touch neither rings nor filters, nor where the audio threads are.
LEMMA RingUnchanged ==
  ASSUME RingInv, Ring!TypeOK',
         UNCHANGED <<ringStream, fill, ringRatio, ringDelay, producer, ringFrames, consumer,
                     frameCount, ringUneven>>
  PROVE  RingInv'
<1>1. RingTypes'
  BY DEF RingInv, RingTypes
<1>2. FiltersTogether => FiltersTogether'
  BY DEF FiltersTogether, Made
<1>3. ChannelsClose => ChannelsClose'
  BY DEF ChannelsClose, Close, Ahead, MadeBetween, TakenBetween, Made, Taken, Ring!MaxBlock
<1> QED
  BY <1>1, <1>2, <1>3 DEF RingInv

\* A thread enters its callback, or a filter is adjusted outside of the producer's.
LEMMA RingUnmade ==
  ASSUME Ring!DeviceRingAssumption, RingInv, RingTypes',
         UNCHANGED <<fill, ringDelay, ringUneven>>, producer = 0, producer' \in {0, 1},
         UNCHANGED <<consumer, frameCount>> \/ (consumer = 0 /\ consumer' = 1)
  PROVE  RingInv'
<1>1. \A c \in Ring!Channel : ~Made(c) /\ ~Made(c)'
  BY RingConstants DEF Made, Ring!Channel
<1>2. FiltersTogether => FiltersTogether'
  BY <1>1 DEF FiltersTogether
<1>3. \A c, d \in Ring!Channel : TakenBetween(c, d)' = TakenBetween(c, d)
  <2>1. CASE UNCHANGED <<consumer, frameCount>>
    BY <2>1 DEF TakenBetween, Taken
  <2>2. CASE consumer = 0 /\ consumer' = 1
    <3>1. \A c \in Ring!Channel : ~Taken(c) /\ ~Taken(c)'
      BY <2>2, RingConstants DEF Taken, Ring!Channel
    <3> QED
      BY <3>1 DEF TakenBetween
  <2> QED
    BY <2>1, <2>2
<1>4. \A c, d \in Ring!Channel : MadeBetween(c, d)' = MadeBetween(c, d)
  BY <1>1 DEF MadeBetween
<1>5. ChannelsClose => ChannelsClose'
  BY <1>3, <1>4 DEF ChannelsClose, Close, Ahead, Ring!MaxBlock
<1> QED
  BY <1>2, <1>5 DEF RingInv

\* The consumer enters its callback while the producer is anywhere.
LEMMA ConsumerEnterInv ==
  ASSUME Ring!DeviceRingAssumption, RingInv, NEW n \in ConsumerFrames, Ring!ConsumerEnter(n)
  PROVE  RingInv'
<1>1. /\ consumer = 0 /\ consumer' = 1 /\ frameCount' = n /\ silent' = FALSE /\ ringStream
      /\ UNCHANGED <<ringStream, fill, ringRatio, ringDelay, producer, ringFrames, ringMain,
                     ringDrift, overflow, underflow, counted, occurred, ringUneven, ringChanges>>
  BY DEF Ring!ConsumerEnter
<1>2. 1 \in 0..NumChannel
  BY RingConstants
<1>3. RingTypes'
  BY <1>1, <1>2 DEF RingInv, RingTypes, Ring!TypeOK
<1>4. \A c \in Ring!Channel : ~Taken(c) /\ ~Taken(c)'
  BY <1>1, RingConstants DEF Taken, Ring!Channel
<1>5. FiltersTogether => FiltersTogether'
  BY <1>1 DEF FiltersTogether, Made
<1>6. \A c, d \in Ring!Channel :
         TakenBetween(c, d)' = TakenBetween(c, d) /\ MadeBetween(c, d)' = MadeBetween(c, d)
  BY <1>1, <1>4 DEF TakenBetween, MadeBetween, Made
<1>7. ChannelsClose => ChannelsClose'
  BY <1>1, <1>6 DEF ChannelsClose, Close, Ahead, Ring!MaxBlock
<1> QED
  BY <1>1, <1>3, <1>5, <1>7 DEF RingInv

\* A callback of the producer that begins keeps the invariant.
LEMMA ProducerEnterInv ==
  ASSUME Ring!DeviceRingAssumption, RingInv, NEW n \in ProducerFrames, Ring!ProducerEnter(n)
  PROVE  RingInv'
<1>1. /\ producer = 0 /\ producer' = 1 /\ ringFrames' = n /\ ringStream
      /\ UNCHANGED <<ringStream, fill, ringRatio, ringDelay, consumer, frameCount, silent, ringMain,
                     ringDrift, overflow, underflow, counted, occurred, ringUneven, ringChanges>>
  BY DEF Ring!ProducerEnter
<1>2. 1 \in 0..NumChannel
  BY RingConstants
<1>3. RingTypes'
  BY <1>1, <1>2 DEF RingInv, RingTypes, Ring!TypeOK
<1> QED
  BY <1>1, <1>3, RingUnmade

\* A filter is adjusted; in the middle of a block this is what `uneven' records.
LEMMA AdjustInv ==
  ASSUME Ring!DeviceRingAssumption, RingInv, Ring!SetClockDrift
  PROVE  RingInv'
<1>1. /\ ringMain.at = "filter"
      /\ ringRatio' = [ringRatio EXCEPT ![ringMain.channel] = ringDrift]
      /\ ringMain' = IF ringMain.channel = NumChannel THEN Ring!Idle ELSE Ring!AtFilter(ringMain.channel + 1)
      /\ ringUneven' = (ringUneven \/ producer # 0)
      /\ UNCHANGED <<ringStream, fill, ringDelay, producer, ringFrames, consumer, frameCount,
                     silent, ringDrift, overflow, underflow, counted, occurred, ringChanges>>
  BY DEF Ring!SetClockDrift, Ring!threads
<1>2. PICK c \in Ring!Channel : ringMain = Ring!AtFilter(c)
  BY <1>1 DEF RingInv, RingTypes, Ring!TypeOK, Ring!Idle, Ring!CheckUnderflow, Ring!Counted
<1>3. ringMain.channel = c
  BY <1>2 DEF Ring!AtFilter
<1>4. ringMain' \in {Ring!Idle} \cup {Ring!AtFilter(k) : k \in Ring!Channel}
  <2>1. c # NumChannel => c + 1 \in Ring!Channel
    BY RingConstants DEF Ring!Channel
  <2> QED
    BY <1>1, <1>3, <2>1
<1>5. ringRatio' \in [Ring!Channel -> Ratio]
  BY <1>1 DEF RingInv, RingTypes, Ring!TypeOK
<1>6. ringUneven' \in BOOLEAN
  BY <1>1
<1>7. RingTypes'
  BY <1>1, <1>4, <1>5, <1>6 DEF RingInv, RingTypes, Ring!TypeOK
<1>8. CASE producer = 0
  <2>1. ringUneven' = ringUneven
    BY <1>1, <1>8 DEF RingInv, RingTypes, Ring!TypeOK
  <2> QED
    BY <1>1, <1>7, <1>8, <2>1, RingUnmade
<1>9. CASE producer # 0
  BY <1>1, <1>7, <1>9 DEF RingInv
<1> QED
  BY <1>8, <1>9

\* Every step of the three threads keeps the invariant.
LEMMA RingStepInv ==
  ASSUME Ring!DeviceRingAssumption, BlocksBounded, RingInv, [Ring!Next]_(Ring!vars)
  PROVE  RingInv'
<1>1. CASE Ring!Produce
  BY <1>1, ProduceInv
<1>2. CASE Ring!Consume
  BY <1>2, ConsumeInv
<1>3. ASSUME NEW n \in ProducerFrames, Ring!ProducerEnter(n) PROVE RingInv'
  BY <1>3, ProducerEnterInv
<1>4. ASSUME NEW n \in ConsumerFrames, Ring!ConsumerEnter(n) PROVE RingInv'
  BY <1>4, ConsumerEnterInv
<1>5. CASE Ring!Start
  BY <1>5, RingStartInv
<1>6. CASE Ring!Stop
  <2>1. RingTypes'
    BY <1>6 DEF Ring!Stop, RingInv, RingTypes, Ring!TypeOK, Ring!threads
  <2> QED
    BY <1>6, <2>1, RingUnmade DEF Ring!Stop, Ring!threads
<1>7. CASE Ring!SetClockDrift
  BY <1>7, AdjustInv
<1>8. ASSUME NEW r \in Ratio, Ring!ClockDrift(r) PROVE RingInv'
  <2>1. Ring!TypeOK'
    BY <1>8, RingConstants, SMTT(15) DEF Ring!ClockDrift, RingInv, RingTypes, Ring!TypeOK, Ring!threads, Ring!Channel
  <2> QED
    BY <1>8, <2>1, RingUnchanged DEF Ring!ClockDrift, Ring!threads
<1>9. CASE Ring!SlowTimer
  <2>1. Ring!TypeOK'
    BY <1>9 DEF Ring!SlowTimer, RingInv, RingTypes, Ring!TypeOK, Ring!threads
  <2> QED
    BY <1>9, <2>1, RingUnchanged DEF Ring!SlowTimer, Ring!threads
<1>10. CASE Ring!ClearOverflow
  <2>1. Ring!TypeOK'
    BY <1>10 DEF Ring!ClearOverflow, RingInv, RingTypes, Ring!TypeOK, Ring!threads
  <2> QED
    BY <1>10, <2>1, RingUnchanged DEF Ring!ClearOverflow, Ring!threads
<1>11. CASE Ring!SlowTimerUnderflow
  <2>1. Ring!TypeOK'
    BY <1>11 DEF Ring!SlowTimerUnderflow, RingInv, RingTypes, Ring!TypeOK, Ring!threads
  <2> QED
    BY <1>11, <2>1, RingUnchanged DEF Ring!SlowTimerUnderflow, Ring!threads
<1>12. CASE Ring!ClearUnderflow
  <2>1. Ring!TypeOK'
    BY <1>12 DEF Ring!ClearUnderflow, RingInv, RingTypes, Ring!TypeOK, Ring!threads
  <2> QED
    BY <1>12, <2>1, RingUnchanged DEF Ring!ClearUnderflow, Ring!threads
<1>13. CASE UNCHANGED Ring!vars
  <2>1. Ring!TypeOK'
    BY <1>13 DEF Ring!vars, RingInv, RingTypes, Ring!TypeOK, Ring!threads
  <2> QED
    BY <1>13, <2>1, RingUnchanged DEF Ring!vars, Ring!threads
<1> QED
  BY <1>1, <1>2, <1>3, <1>4, <1>5, <1>6, <1>7, <1>8, <1>9, <1>10, <1>11, <1>12, <1>13
     DEF Ring!Next, Ring!ProducerNext, Ring!ConsumerNext, Ring!MainNext

\* What the main thread has seen it has counted.
XrunsInv ==
    /\ Ring!XrunsNoticed
    /\ \A kind \in {"overflow", "underflow"} : ringMain = Ring!Counted(kind) => kind \in counted

\* Every step keeps what is known of the flags and counts of overflows and underflows.
LEMMA XrunsStep ==
  ASSUME XrunsInv, [Ring!Next]_(Ring!vars)
  PROVE  XrunsInv'
<1> USE DEF XrunsInv, Ring!XrunsNoticed, Ring!threads, Ring!Idle, Ring!Counted, Ring!CheckUnderflow, Ring!AtFilter
<1>1. CASE Ring!Produce
  BY <1>1 DEF Ring!Produce
<1>2. CASE Ring!Consume
  BY <1>2 DEF Ring!Consume
<1>3. ASSUME NEW n, Ring!ProducerEnter(n) \/ Ring!ConsumerEnter(n) PROVE XrunsInv'
  BY <1>3 DEF Ring!ProducerEnter, Ring!ConsumerEnter
<1>4. CASE Ring!Start \/ Ring!Stop
  BY <1>4 DEF Ring!Start, Ring!Stop
<1>5. ASSUME NEW r, Ring!ClockDrift(r) PROVE XrunsInv'
  BY <1>5 DEF Ring!ClockDrift
<1>6. CASE Ring!SetClockDrift
  BY <1>6 DEF Ring!SetClockDrift
<1>7. CASE Ring!SlowTimer
  BY <1>7 DEF Ring!SlowTimer
<1>8. CASE Ring!ClearOverflow
  BY <1>8 DEF Ring!ClearOverflow
<1>9. CASE Ring!SlowTimerUnderflow
  BY <1>9 DEF Ring!SlowTimerUnderflow
<1>10. CASE Ring!ClearUnderflow
  BY <1>10 DEF Ring!ClearUnderflow
<1>11. CASE UNCHANGED Ring!vars
  BY <1>11 DEF Ring!vars
<1> QED
  BY <1>1, <1>2, <1>3, <1>4, <1>5, <1>6, <1>7, <1>8, <1>9, <1>10, <1>11
     DEF Ring!Next, Ring!ProducerNext, Ring!ConsumerNext, Ring!MainNext

\* The strengthening holds in every reachable state: the types, and, unless the filters
\* were adjusted in the middle of a block, filters that agree and channels that are less
\* than two blocks apart, whatever channels the two threads are at.
THEOREM RingInductive ==
  ASSUME Ring!DeviceRingAssumption, BlocksBounded
  PROVE  Ring!Spec => []RingInv
<1>1. Ring!Init => RingInv
  BY RingInitInv
<1>2. RingInv /\ [Ring!Next]_(Ring!vars) => RingInv'
  BY RingStepInv
<1> QED
  BY <1>1, <1>2, PTL DEF Ring!Spec

\* Every variable of the rings keeps its type, and the channels of a device stay less than
\* two blocks apart, for any number of channels, ring size, block sizes and ratios
\* (DeviceOutputInstance, DeviceInputInstance).
THEOREM ChannelsApart ==
  ASSUME Ring!DeviceRingAssumption, BlocksBounded
  PROVE  Ring!Spec => []SkewBounded
<1>1. ASSUME RingInv
      PROVE  SkewBounded
  <2>1. Ring!MaxBlock \in Nat \ {0}
    BY MaxBlockFacts
  <2>2. ASSUME Ring!Between, ~ringUneven, NEW c \in Ring!Channel, NEW d \in Ring!Channel
        PROVE  fill[c] - fill[d] < 2 * Ring!MaxBlock
    <3>1. \A k \in Ring!Channel : ~Made(k) /\ ~Taken(k)
      BY <2>2, RingConstants DEF Ring!Between, Made, Taken, Ring!Channel
    <3>2. \A k, l \in Ring!Channel : Ahead(k, l) = fill[k] - fill[l] - (0 - 0)
      BY <3>1 DEF Ahead, MadeBetween, TakenBetween
    <3>3. fill[c] \in Int /\ fill[d] \in Int /\ c \in Int /\ d \in Int
      <4>1. fill \in [Ring!Channel -> 0..(Size - 1)]
        BY <1>1 DEF RingInv, RingTypes, Ring!TypeOK
      <4>2. fill[c] \in 0..(Size - 1) /\ fill[d] \in 0..(Size - 1)
        BY <4>1
      <4> QED
        BY <4>2, RingConstants DEF Ring!Channel
    <3>4. \A k, l \in Ring!Channel : k < l => -2 * Ring!MaxBlock < Ahead(k, l) /\ Ahead(k, l) < 2 * Ring!MaxBlock
      BY <1>1, <2>2 DEF RingInv, ChannelsClose, Close
    <3>5. CASE c < d
      BY <2>1, <3>2, <3>3, <3>4, <3>5
    <3>6. CASE d < c
      BY <2>1, <3>2, <3>3, <3>4, <3>6
    <3>7. CASE c = d
      BY <2>1, <3>3, <3>7
    <3> QED
      BY <3>3, <3>5, <3>6, <3>7
  <2> QED
    BY <1>1, <2>2 DEF SkewBounded, RingInv, RingTypes, Ring!SkewBounded
<1> QED
  BY <1>1, RingInductive, PTL

\* The filters make one output for each step of the ratio and never interpolate beyond
\* the latest frame, for blocks of any sizes following one another
\* (ResamplingFilter::processSamples, getLinearInterpolatedPoint).
THEOREM Resampled ==
  ASSUME Ring!DeviceRingAssumption, BlocksBounded
  PROVE  Ring!Spec => []ResampleExact
<1>1. ASSUME RingInv
      PROVE  ResampleExact
  <2> SUFFICES ASSUME NEW c \in Ring!Channel, NEW n \in ProducerFrames
               PROVE  LET latest == ringDelay[c] + (n - 1) * OversamplingRatio
                      IN  /\ Ring!ProcessSamples(ringDelay[c], ringRatio[c], n).outputs =
                               IF latest < 0 THEN 0 ELSE latest \div ringRatio[c] + 1
                          /\ ringDelay[c] < OversamplingRatio
    BY DEF ResampleExact, Ring!ResampleExact
  <2>1. /\ ringDelay[c] \in Int /\ ringDelay[c] < OversamplingRatio /\ ringRatio[c] \in Nat \ {0} /\ n \in Nat
    BY <1>1, RingConstants DEF RingInv, RingTypes, Ring!TypeOK
  <2>2. Ring!ProcessSamples(ringDelay[c], ringRatio[c], n).outputs = Outputs(ringDelay[c], ringRatio[c], n)
    BY <2>1, RingConstants, RingFilterFacts
  <2> QED
    BY <2>1, <2>2 DEF Outputs
<1> QED
  BY <1>1, RingInductive, PTL

\* No overflow or underflow is lost between the audio threads that raise the flags and the
\* timer that takes them down (onSlowTimer).
THEOREM XrunsKept == Ring!Spec => []XrunsNoticed
<1>1. Ring!Init => XrunsInv
  BY DEF Ring!Init, XrunsInv, Ring!XrunsNoticed, Ring!Idle, Ring!Counted
<1>2. XrunsInv /\ [Ring!Next]_(Ring!vars) => XrunsInv'
  BY XrunsStep
<1>3. XrunsInv => XrunsNoticed
  BY DEF XrunsInv, XrunsNoticed
<1> QED
  BY <1>1, <1>2, <1>3, PTL DEF Ring!Spec
(***************************************************************************)
(* A remote input.                                                         *)
(***************************************************************************)

\* The filter as RemoteInput has it.
LEMMA InputFilter ==
  /\ Input!ResetDelay = ResetDelay
  /\ \A d, r, n : Input!ProcessSamples(d, r, n) = ProcessSamples(d, r, n)
  /\ \A r : Input!AsFloat(r) = AsFloat(r)
BY DEF Input!ResetDelay, ResetDelay, Input!ProcessSamples, ProcessSamples, Input!Get, Get,
       Input!AsFloat, AsFloat

\* The float of the ratio 0 is 0.
LEMMA FloatOfZero ==
  ASSUME FloatStep \in Nat \ {0}
  PROVE  AsFloat(0) = 0
<1> DEFINE h == FloatStep \div 2
<1>1. h \in Nat /\ h < FloatStep
  OBVIOUS
<1> HIDE DEF h
<1>2. 0 * FloatStep <= h /\ h < 0 * FloatStep + FloatStep
  BY <1>1
<1>3. h \div FloatStep = 0
  BY <1>1, <1>2, Quotient
<1>4. (0 + h) \div FloatStep = 0
  BY <1>1, <1>3
<1> QED
  BY <1>4 DEF AsFloat, h

\* Frames before the next output only bring it closer, whatever the ratio.
LEMMA NoOutputs ==
  ASSUME FilterAssumption, NEW d \in Int, NEW r \in Nat, NEW n \in Nat,
         n = 0 \/ d + (n - 1) * OversamplingRatio < 0
  PROVE  ProcessSamples(d, r, n) = [outputs |-> 0, delay |-> d + n * OversamplingRatio]
<1> DEFINE P == OversamplingRatio
           Body(h, k) ==
             IF k = 0 THEN [outputs |-> 0, delay |-> d]
             ELSE LET g == Get(h[k - 1].delay, r)
                  IN  [outputs |-> h[k - 1].outputs + g.outputs, delay |-> g.delay]
           f == CHOOSE h : h = [k \in 0..n |-> Body(h, k)]
           Early(k) == [outputs |-> 0, delay |-> d + k * P]
           c == [k \in 0..n |-> Early(k)]
<1>1. ProcessSamples(d, r, n) = f[n]
  BY DEF ProcessSamples
<1>2. Early(0) = [outputs |-> 0, delay |-> d]
  <2>1. 0 * P = 0
    BY DEF FilterAssumption
  <2> QED
    BY <2>1
<1>3. ASSUME NEW k \in Nat, k + 1 \in 0..n
      PROVE  LET g == Get(Early(k).delay, r)
             IN  Early(k + 1) = [outputs |-> Early(k).outputs + g.outputs, delay |-> g.delay]
  <2> DEFINE e == d + k * P
  <2>1. /\ (k + 1) * P = k * P + P /\ k * P \in Int /\ (n - 1) * P \in Int
        /\ k * P <= (n - 1) * P
    <3>1. P \in Nat \ {0} /\ k <= n - 1 /\ n - 1 \in Int
      BY <1>3 DEF FilterAssumption
    <3> HIDE DEF P
    <3> QED
      BY <3>1, Z3
  <2>2. e \in Int /\ e < 0 /\ P \in Int
    BY <1>3, <2>1 DEF FilterAssumption
  <2>3. d + (k + 1) * P = e + P
    BY <2>1, <2>2
  <2>4. Early(k).delay = e /\ Early(k).outputs = 0
    OBVIOUS
  <2>5. Early(k + 1) = [outputs |-> 0, delay |-> e + P]
    BY <2>3
  <2> HIDE DEF e, Early
  <2>6. Get(e, r) = [outputs |-> 0, delay |-> e - 0 * r + P]
    BY <2>2 DEF Get
  <2>7. e - 0 * r + P = e + P
    BY <2>2
  <2> QED
    BY <2>4, <2>5, <2>6, <2>7
<1>4. \A k \in 0..n : Early(k) = Body(c, k)
  <2> SUFFICES ASSUME NEW k \in 0..n
               PROVE  Early(k) = Body(c, k)
    OBVIOUS
  <2>1. CASE k = 0
    BY <1>2, <2>1
  <2>2. CASE k # 0
    <3>1. k - 1 \in Nat /\ k - 1 \in 0..n /\ (k - 1) + 1 = k
      BY <2>2
    <3>2. c[k - 1] = Early(k - 1)
      BY <3>1
    <3> HIDE DEF c, Early
    <3>3. Early(k) = LET g == Get(Early(k - 1).delay, r)
              IN  [outputs |-> Early(k - 1).outputs + g.outputs, delay |-> g.delay]
      BY <1>3, <3>1
    <3> QED
      BY <2>2, <3>2, <3>3
  <2> QED
    BY <2>1, <2>2
<1>5. f = [k \in 0..n |-> Body(f, k)]
  <2>1. c = [k \in 0..n |-> Body(c, k)]
    <3>1. c = [k \in 0..n |-> c[k]] /\ \A k \in 0..n : c[k] = Early(k)
      OBVIOUS
    <3> HIDE DEF c, Body, Early
    <3> QED
      BY <1>4, <3>1
  <2> HIDE DEF c, Body
  <2> QED
    BY <2>1, Zenon
<1>6. \A k \in 0..n : f[k] = Body(f, k)
  <2> HIDE DEF f, Body
  <2> QED
    BY <1>5, Zenon
<1> DEFINE S == {k \in Nat : k \in 0..n => f[k] = Early(k)}
<1>7. \A k \in Nat : k \in S
  <2> HIDE DEF f
  <2>1. 0 \in S
    BY <1>2, <1>6
  <2>2. ASSUME NEW k \in Nat, k \in S
        PROVE  k + 1 \in S
    <3> SUFFICES ASSUME k + 1 \in 0..n
                 PROVE  f[k + 1] = Early(k + 1)
      OBVIOUS
    <3>1. k \in 0..n /\ k + 1 # 0 /\ (k + 1) - 1 = k
      OBVIOUS
    <3>2. f[k] = Early(k)
      BY <2>2, <3>1
    <3> HIDE DEF Early
    <3>3. f[k + 1] = LET g == Get(Early(k).delay, r)
              IN  [outputs |-> Early(k).outputs + g.outputs, delay |-> g.delay]
      BY <1>6, <3>1, <3>2
    <3> QED
      BY <1>3, <3>3
  <2> HIDE DEF S
  <2> QED
    BY <2>1, <2>2, NatSetInduction
<1> QED
  <2>1. n \in S /\ n \in 0..n
    BY <1>7
  <2> HIDE DEF f
  <2> QED
    BY <1>1, <2>1

\* Where the next output of a filter falls, after a block that ends.
LEMMA InputFilterFacts ==
  ASSUME FilterAssumption, NEW d \in Int, d < OversamplingRatio, NEW r \in Nat, NEW n \in Nat,
         r = 0 => n = 0 \/ d + (n - 1) * OversamplingRatio < 0
  PROVE  LET p == Input!ProcessSamples(d, r, n)
         IN  p.outputs \in Nat /\ p.delay \in Int /\ p.delay < OversamplingRatio
<1>1. Input!ProcessSamples(d, r, n) = ProcessSamples(d, r, n)
  BY InputFilter
<1>2. CASE r = 0
  <2>1. ProcessSamples(d, r, n) = [outputs |-> 0, delay |-> d + n * OversamplingRatio]
    BY <1>2, NoOutputs
  <2>2. /\ n * OversamplingRatio \in Int /\ OversamplingRatio \in Nat \ {0}
        /\ (n - 1) * OversamplingRatio = n * OversamplingRatio - OversamplingRatio
        /\ n = 0 => n * OversamplingRatio = 0
    BY Z3 DEF FilterAssumption
  <2>3. d + n * OversamplingRatio \in Int /\ d + n * OversamplingRatio < OversamplingRatio
    BY <1>2, <2>2
  <2> QED
    BY <1>1, <2>1, <2>3
<1>3. CASE r # 0
  <2>1. LET p == ProcessSamples(d, r, n)
        IN  p.outputs \in Nat /\ p.delay \in Int /\ p.delay < OversamplingRatio
    BY <1>3, FilterFacts
  <2> QED
    BY <1>1, <2>1
<1> QED
  BY <1>2, <1>3

\* The ratios that the rates and the drift make, and that of a rate of 0.
InputRatios == {0} \cup {r + d : r \in RemoteRate, d \in InputDrift}

At == {"idle", "heard", "follow", "take", "filter", "endless", "erase"}
CallbackType ==
    [at : At, channel : 0..2, nframes : InputFrames \cup {0}, rate : RemoteRate \cup {0}, fed : Nat]

\* The types of the audio thread's place.
LEMMA CallbackFacts ==
  ASSUME Input!RemoteInputAssumption, Input!TypeOK
  PROVE  /\ inputCallback \in CallbackType
         /\ inputCallback.at \in At /\ inputCallback.channel \in 0..2 /\ inputCallback.nframes \in Nat
         /\ inputCallback.rate \in RemoteRate \cup {0} /\ inputCallback.fed \in Nat
<1>1. inputCallback \in CallbackType
  BY DEF Input!TypeOK, CallbackType, At
<1>2. \A n \in InputFrames \cup {0} : n \in Nat
  BY DEF Input!RemoteInputAssumption
<1> QED
  BY <1>1, <1>2 DEF CallbackType

\* The types, and what the threads may be at.
InputTypes ==
    /\ Input!TypeOK
    /\ \A i \in Input!Side : inputFilter[i].delay < OversamplingRatio /\ inputFilter[i].ratio \in InputRatios
    /\ inputCallback.at \in {"follow", "filter"} => inputCallback.channel \in Input!Side
    /\ inputMain = Input!AtRest \/ inputMain.filter \in Input!Side
    /\ inputSocket = "closed" => inputCallback = Input!Idle

\* Between blocks the two sides are alike; within a block the left one is ahead by what
\* its filter made of the block.
SidesAlike ==
    IF inputCallback.at = "filter" /\ inputCallback.channel = 2
    THEN LET p == Input!ProcessSamples(inputFilter[2].delay, Input!AsFloat(inputFilter[2].ratio),
                                       inputCallback.fed)
         IN  inputSize[1] = inputSize[2] + p.outputs /\ inputFilter[1].delay = p.delay
    ELSE inputCallback.at # "endless" =>
             inputSize[1] = inputSize[2] /\ inputFilter[1].delay = inputFilter[2].delay

InputInv ==
    /\ InputTypes /\ Input!WholeFrames
    /\ ~inputUneven => SidesAlike /\ ~inputOverread

\* The lesser of two numbers.
LEMMA MinOfTwo ==
  ASSUME NEW a \in Int, NEW b \in Int
  PROVE  Input!Min({a, b}) = IF a <= b THEN a ELSE b
<1> DEFINE m == IF a <= b THEN a ELSE b
<1>1. m \in {a, b} /\ \A y \in {a, b} : m <= y
  OBVIOUS
<1>2. \A x \in {a, b} : (\A y \in {a, b} : x <= y) => x = m
  OBVIOUS
<1> HIDE DEF m
<1>3. Input!Min({a, b}) \in {a, b} /\ \A y \in {a, b} : Input!Min({a, b}) <= y
  BY <1>1 DEF Input!Min
<1>4. Input!Min({a, b}) = m
  BY <1>2, <1>3
<1> QED
  BY <1>4 DEF m

\* Whole frames fit into what is left of the ring.
LEMMA RingStaysWhole ==
  ASSUME NEW R \in Nat \ {0}, NEW s \in 0..(R - 1), s % 2 = 0, NEW frames \in Nat,
         NEW n, n = Input!Min({s + 2 * Input!Min({frames, (R - 1 - s) \div 2}), R - 1})
  PROVE  n \in 0..(R - 1) /\ n % 2 = 0
<1> DEFINE free == (R - 1 - s) \div 2
           k == Input!Min({frames, free})
<1>1. free \in Nat /\ 2 * free <= R - 1 - s
  OBVIOUS
<1> HIDE DEF free
<1>2. k \in Nat /\ k <= free
  BY <1>1, MinOfTwo
<1> HIDE DEF k
<1>3. s + 2 * k <= R - 1 /\ s + 2 * k \in Nat
  BY <1>1, <1>2
<1>4. n = s + 2 * k
  <2>1. n = Input!Min({s + 2 * k, R - 1})
    BY DEF k, free
  <2> QED
    BY <1>3, <2>1, MinOfTwo
<1> QED
  BY <1>2, <1>3, <1>4

\* The parameters of a remote input.
LEMMA InputFacts ==
  ASSUME Input!RemoteInputAssumption
  PROVE  /\ FilterAssumption /\ RingSize \in Nat \ {0} /\ InputFrames \subseteq Nat
         /\ RemoteRate \subseteq Nat \ {0} /\ 0 \in InputDrift
         /\ Input!ResetDelay \in Int /\ Input!ResetDelay < OversamplingRatio
         /\ InputRatios \subseteq Nat
         /\ \A q \in InputRatios : Input!AsFloat(q) \in Nat /\ (Input!AsFloat(q) = 0 <=> q = 0)
<1>1. /\ FilterAssumption /\ RingSize \in Nat \ {0} /\ InputFrames \subseteq Nat
      /\ RemoteRate \subseteq Nat \ {0} /\ InputDrift \subseteq Int /\ 0 \in InputDrift
      /\ Input!ResetDelay \in Int /\ Input!ResetDelay < OversamplingRatio
      /\ FloatStep \in Nat \ {0}
      /\ \A r \in RemoteRate, d \in InputDrift : r + d >= 1 /\ Input!AsFloat(r + d) >= 1
  BY DEF Input!RemoteInputAssumption, FilterAssumption, Input!ResetDelay
<1>2. InputRatios \subseteq Nat
  BY <1>1 DEF InputRatios
<1>3. ASSUME NEW q \in InputRatios
      PROVE  Input!AsFloat(q) \in Nat /\ (Input!AsFloat(q) = 0 <=> q = 0)
  <2>1. q \in Nat /\ Input!AsFloat(q) = AsFloat(q) /\ AsFloat(q) \in Nat
    BY <1>1, <1>2, InputFilter, FloatType
  <2>2. CASE q = 0
    BY <1>1, <2>1, <2>2, FloatOfZero
  <2>3. CASE q # 0
    <3>1. PICK r \in RemoteRate, d \in InputDrift : q = r + d
      BY <2>3 DEF InputRatios
    <3> QED
      BY <1>1, <2>1, <2>3, <3>1
  <2> QED
    BY <2>2, <2>3
<1> QED
  BY <1>1, <1>2, <1>3

\* A filter that is reset or adjusted to a rate, or to none, stays one.
LEMMA AdjustedFacts ==
  ASSUME Input!RemoteInputAssumption, NEW d \in InputDrift
  PROVE  /\ \A r \in RemoteRate :
              /\ Input!Reset(r, d) \in [source : RemoteRate \cup {0}, ratio : Nat, delay : Int]
              /\ Input!Reset(r, d).delay = Input!ResetDelay /\ Input!Reset(r, d).ratio \in InputRatios
         /\ \A r \in RemoteRate \cup {0}, f \in [source : RemoteRate \cup {0}, ratio : Nat, delay : Int] :
              /\ Input!Adjusted(f, r, d) \in [source : RemoteRate \cup {0}, ratio : Nat, delay : Int]
              /\ Input!Adjusted(f, r, d).delay = f.delay /\ Input!Adjusted(f, r, d).ratio \in InputRatios
<1>1. \A r \in RemoteRate : r + d \in InputRatios /\ r + d \in Nat
  BY InputFacts DEF InputRatios
<1>2. ASSUME NEW r \in RemoteRate
      PROVE  /\ Input!Reset(r, d) \in [source : RemoteRate \cup {0}, ratio : Nat, delay : Int]
             /\ Input!Reset(r, d).delay = Input!ResetDelay /\ Input!Reset(r, d).ratio \in InputRatios
  BY <1>1, InputFacts DEF Input!Reset
<1>3. ASSUME NEW r \in RemoteRate \cup {0}, NEW f \in [source : RemoteRate \cup {0}, ratio : Nat, delay : Int]
      PROVE  /\ Input!Adjusted(f, r, d) \in [source : RemoteRate \cup {0}, ratio : Nat, delay : Int]
             /\ Input!Adjusted(f, r, d).delay = f.delay /\ Input!Adjusted(f, r, d).ratio \in InputRatios
  <2> DEFINE q == IF r = 0 THEN 0 ELSE r + d
  <2>1. q \in Nat /\ q \in InputRatios
    BY <1>1 DEF InputRatios
  <2>2. Input!Adjusted(f, r, d) = [f EXCEPT !.source = r, !.ratio = q]
    BY DEF Input!Adjusted
  <2> HIDE DEF q
  <2> QED
    BY <2>1, <2>2
<1> QED
  BY <1>2, <1>3

\* The invariant holds before the remote input starts.
LEMMA InputInitInv ==
  ASSUME Input!RemoteInputAssumption, Input!Init
  PROVE  InputInv
<1>1. /\ inputFilter \in [Input!Side -> [source : RemoteRate \cup {0}, ratio : Nat, delay : Int]]
      /\ \A i \in Input!Side : inputFilter[i].delay = Input!ResetDelay /\ inputFilter[i].ratio \in InputRatios
  <2>1. /\ Input!Reset(inputDeviceRate, 0) \in [source : RemoteRate \cup {0}, ratio : Nat, delay : Int]
        /\ Input!Reset(inputDeviceRate, 0).delay = Input!ResetDelay
        /\ Input!Reset(inputDeviceRate, 0).ratio \in InputRatios
    BY AdjustedFacts, InputFacts DEF Input!Init
  <2> QED
    BY <2>1 DEF Input!Init
<1>2. Input!TypeOK
  <2>1. /\ 0 \in 0..(RingSize - 1) /\ 0 \in 0..InputChanges /\ 0 \in InputDrift
        /\ inputSize \in [Input!Side -> Nat]
        /\ inputCallback \in CallbackType
        /\ inputMain \in [filter : 0..2, set : {"none", "drift", "rate"}]
    BY DEF Input!Init, Input!RemoteInputAssumption, Input!Idle, Input!AtRest, CallbackType, At
  <2> QED
    BY <1>1, <2>1 DEF Input!Init, Input!TypeOK, CallbackType, At
<1>3. inputCallback.at = "idle" /\ inputCallback = Input!Idle /\ inputMain = Input!AtRest
  BY DEF Input!Init, Input!Idle
<1>4. InputTypes
  BY <1>1, <1>2, <1>3, InputFacts DEF InputTypes
<1>5. SidesAlike
  BY <1>1, <1>3 DEF SidesAlike, Input!Init, Input!Side
<1> QED
  BY <1>4, <1>5 DEF InputInv, Input!Init, Input!WholeFrames

\* Steps of the main thread that leave filters and buffers alone.
LEMMA InputUnchanged ==
  ASSUME InputInv, Input!TypeOK', Input!WholeFrames',
         UNCHANGED <<inputFilter, inputSize, inputCallback, inputUneven, inputOverread>>,
         inputMain' = Input!AtRest \/ inputMain'.filter \in Input!Side,
         inputSocket' = "closed" => inputCallback = Input!Idle
  PROVE  InputInv'
BY DEF InputInv, InputTypes, SidesAlike

\* Steps between two filters' turns leave what the sides have alone.
LEMMA SidesUnchanged ==
  ASSUME InputInv, InputTypes', Input!WholeFrames',
         UNCHANGED <<inputSize, inputUneven, inputOverread>>,
         \A i \in Input!Side : inputFilter'[i].delay = inputFilter[i].delay,
         inputCallback.at \notin {"filter", "endless"},
         inputCallback'.at = "filter" => inputCallback'.channel # 2
  PROVE  InputInv'
BY DEF InputInv, SidesAlike, Input!Side

\* A start of the remote input keeps the invariant.
LEMMA StartInputInv ==
  ASSUME Input!RemoteInputAssumption, InputInv, NEW bound \in BOOLEAN, Input!Start(bound)
  PROVE  InputInv'
<1>1. /\ inputFilter' = [i \in Input!Side |-> Input!Reset(inputDeviceRate, inputAdded)]
      /\ ring' = 0 /\ inputRate' = 0 /\ vbanRate' = 0 /\ inputSocket' \in {"bound", "failed"}
      /\ inputUneven' = (inputSize[1] # inputSize[2]) /\ inputOverread' = FALSE
      /\ UNCHANGED <<Input!settings, inputSize, inputCallback, inputMain,
                     changes>> /\ inputSocket = "closed"
  BY DEF Input!Start
<1>2. inputCallback = Input!Idle /\ inputCallback.at = "idle"
  BY <1>1 DEF InputInv, InputTypes, Input!Idle
<1>3. /\ Input!Reset(inputDeviceRate, inputAdded) \in [source : RemoteRate \cup {0}, ratio : Nat, delay : Int]
      /\ Input!Reset(inputDeviceRate, inputAdded).delay = Input!ResetDelay
      /\ Input!Reset(inputDeviceRate, inputAdded).ratio \in InputRatios
  BY AdjustedFacts DEF InputInv, InputTypes, Input!TypeOK
<1>4. /\ inputFilter' \in [Input!Side -> [source : RemoteRate \cup {0}, ratio : Nat, delay : Int]]
      /\ \A i \in Input!Side : inputFilter'[i].delay = Input!ResetDelay /\ inputFilter'[i].ratio \in InputRatios
  BY <1>1, <1>3
<1>5. Input!TypeOK'
  <2>1. Input!TypeOK /\ 0 \in 0..(RingSize - 1) /\ inputUneven' \in BOOLEAN
    BY <1>1, InputFacts DEF InputInv, InputTypes
  <2> QED
    BY <1>1, <1>4, <2>1 DEF Input!TypeOK, Input!settings
<1>6. InputTypes'
  BY <1>1, <1>2, <1>4, <1>5, InputFacts DEF InputInv, InputTypes
<1>7. ~inputUneven' => SidesAlike'
  <2>1. ~inputUneven' => inputSize[1] = inputSize[2]
    BY <1>1, Zenon
  <2>2. inputCallback'.at = "idle" /\ inputSize' = inputSize /\ inputFilter'[1].delay = inputFilter'[2].delay
    BY <1>1, <1>2, <1>4 DEF Input!Side
  <2> QED
    BY <2>1, <2>2 DEF SidesAlike
<1> QED
  BY <1>1, <1>6, <1>7 DEF InputInv, Input!WholeFrames

\* A filter is adjusted by the main thread; in the middle of a block this is what
\* `uneven' records.
LEMMA AdjustFilterInv ==
  ASSUME Input!RemoteInputAssumption, InputInv, Input!AdjustFilter
  PROVE  InputInv'
<1> DEFINE i == inputMain.filter
           new == IF inputMain.set = "rate" THEN Input!Adjusted(inputFilter[i], inputDeviceRate, 0)
                  ELSE Input!Adjusted(inputFilter[i], inputFilter[i].source, inputAdded)
<1>1. /\ inputFilter' = [inputFilter EXCEPT ![i] = new]
      /\ inputMain # Input!AtRest
      /\ inputMain' = IF inputMain.filter = 1 THEN [inputMain EXCEPT !.filter = 2] ELSE Input!AtRest
      /\ inputUneven' = (inputUneven \/ inputCallback.at = "filter")
      /\ UNCHANGED <<Input!settings, inputSocket, ring, inputRate, vbanRate, inputSize,
                     inputCallback, inputOverread, changes>>
  BY DEF Input!AdjustFilter
<1>2. i \in Input!Side /\ Input!TypeOK
  BY <1>1 DEF InputInv, InputTypes
<1>3. /\ new \in [source : RemoteRate \cup {0}, ratio : Nat, delay : Int]
      /\ new.delay = inputFilter[i].delay /\ new.ratio \in InputRatios
  <2>1. /\ inputDeviceRate \in RemoteRate /\ inputAdded \in InputDrift /\ 0 \in InputDrift
        /\ inputFilter[i] \in [source : RemoteRate \cup {0}, ratio : Nat, delay : Int]
        /\ inputFilter[i].source \in RemoteRate \cup {0}
    BY <1>2, InputFacts DEF Input!TypeOK
  <2>2. CASE inputMain.set = "rate"
    BY <2>1, <2>2, AdjustedFacts
  <2>3. CASE inputMain.set # "rate"
    BY <2>1, <2>3, AdjustedFacts
  <2> QED
    BY <2>2, <2>3
<1> HIDE DEF i, new
<1>4. /\ inputFilter' \in [Input!Side -> [source : RemoteRate \cup {0}, ratio : Nat, delay : Int]]
      /\ \A j \in Input!Side : inputFilter'[j].delay = inputFilter[j].delay /\ inputFilter'[j].ratio \in InputRatios
  BY <1>1, <1>2, <1>3 DEF Input!TypeOK, InputInv, InputTypes
<1>5. /\ inputMain' \in [filter : 0..2, set : {"none", "drift", "rate"}]
      /\ inputMain' = Input!AtRest \/ inputMain'.filter \in Input!Side
  BY <1>1, <1>2 DEF Input!TypeOK, Input!AtRest, Input!Side
<1>6. Input!TypeOK'
  BY <1>1, <1>2, <1>4, <1>5 DEF Input!TypeOK, Input!settings
<1>7. InputTypes'
  BY <1>1, <1>4, <1>5, <1>6 DEF InputInv, InputTypes
<1>8. ASSUME ~inputUneven'
      PROVE  SidesAlike' /\ ~inputOverread'
  <2>1. inputCallback.at # "filter" /\ ~inputUneven
    BY <1>1, <1>8, <1>2, Zenon
  <2> QED
    BY <1>1, <1>4, <2>1 DEF InputInv, SidesAlike, Input!Side
<1> QED
  BY <1>1, <1>7, <1>8 DEF InputInv, Input!WholeFrames

\* A block begins.
LEMMA PlayInputInv ==
  ASSUME Input!RemoteInputAssumption, InputInv, NEW n \in InputFrames, Input!Play(n)
  PROVE  InputInv'
<1>1. /\ inputCallback = Input!Idle /\ inputSocket # "closed"
      /\ inputCallback' \in {[Input!Idle EXCEPT !.at = "heard", !.nframes = n, !.rate = inputRate],
                             [Input!Idle EXCEPT !.at = "take", !.nframes = n]}
      /\ UNCHANGED <<Input!settings, inputSocket, ring, inputRate, vbanRate, inputFilter, inputSize, inputMain,
                     inputUneven, inputOverread, changes>>
  BY DEF Input!Play
<1>2. Input!TypeOK
  BY DEF InputInv, InputTypes
<1>3. /\ inputCallback' \in CallbackType
      /\ inputCallback'.at \in {"heard", "take"} /\ inputCallback.at = "idle"
  BY <1>1, <1>2 DEF Input!TypeOK, Input!Idle, CallbackType, At
<1>4. Input!TypeOK'
  BY <1>1, <1>2, <1>3 DEF Input!TypeOK, Input!settings, CallbackType, At
<1>5. InputTypes'
  BY <1>1, <1>3, <1>4 DEF InputInv, InputTypes
<1>6. Input!WholeFrames'
  BY <1>1 DEF InputInv, Input!WholeFrames
<1> QED
  BY <1>1, <1>3, <1>5, <1>6, SidesUnchanged

\* The audio thread stores the rate that it heard.
LEMMA TakeRateInv ==
  ASSUME Input!RemoteInputAssumption, InputInv, Input!TakeRate
  PROVE  InputInv'
<1>1. /\ inputCallback.at = "heard" /\ vbanRate' = inputCallback.rate
      /\ inputCallback' = [inputCallback EXCEPT !.at = "follow", !.channel = 1]
      /\ UNCHANGED <<Input!settings, inputSocket, ring, inputRate, inputFilter, inputSize, inputMain,
                     inputUneven, inputOverread, changes>>
  BY DEF Input!TakeRate
<1>2. Input!TypeOK /\ inputSocket # "closed"
  BY <1>1 DEF InputInv, InputTypes, Input!Idle
<1>3. /\ inputCallback' \in CallbackType
      /\ inputCallback'.at = "follow" /\ inputCallback'.channel = 1
      /\ vbanRate' \in RemoteRate \cup {0}
  <2>1. inputCallback \in CallbackType /\ "follow" \in At /\ 1 \in 0..2 /\ 0 \in Nat
    BY <1>2, CallbackFacts DEF At
  <2> DEFINE a == "follow"
             k == 1
  <2>2. a \in At /\ k \in 0..2 /\ inputCallback' = [inputCallback EXCEPT !.at = a, !.channel = k]
    BY <1>1, <2>1
  <2> HIDE DEF a, k
  <2>3. inputCallback' \in CallbackType /\ inputCallback'.at = a /\ inputCallback'.channel = k
    BY <2>1, <2>2 DEF CallbackType
  <2>4. vbanRate' \in RemoteRate \cup {0}
    BY <1>1, <1>2, CallbackFacts
  <2> QED
    BY <2>3, <2>4 DEF a, k
<1>4. Input!TypeOK'
  BY <1>1, <1>2, <1>3 DEF Input!TypeOK, Input!settings, CallbackType, At
<1>5. InputTypes'
  BY <1>1, <1>2, <1>3, <1>4 DEF InputInv, InputTypes, Input!Side
<1>6. Input!WholeFrames'
  BY <1>1 DEF InputInv, Input!WholeFrames
<1> QED
  BY <1>1, <1>3, <1>5, <1>6, SidesUnchanged

\* A filter follows the rate.
LEMMA FollowRateInv ==
  ASSUME Input!RemoteInputAssumption, InputInv, Input!FollowRate
  PROVE  InputInv'
<1> DEFINE i == inputCallback.channel
           new == Input!Adjusted(inputFilter[i], vbanRate, inputAdded)
<1>1. /\ inputCallback.at = "follow"
      /\ inputFilter' = [inputFilter EXCEPT ![i] = new]
      /\ inputCallback' \in {[inputCallback EXCEPT !.channel = 2],
                             [inputCallback EXCEPT !.at = "take", !.channel = 0]}
      /\ UNCHANGED <<Input!settings, inputSocket, ring, inputRate, vbanRate, inputSize, inputMain,
                     inputUneven, inputOverread, changes>>
  BY DEF Input!FollowRate
<1>2. Input!TypeOK /\ inputSocket # "closed" /\ i \in Input!Side
  BY <1>1 DEF InputInv, InputTypes, Input!Idle
<1>3. /\ new \in [source : RemoteRate \cup {0}, ratio : Nat, delay : Int]
      /\ new.delay = inputFilter[i].delay /\ new.ratio \in InputRatios
  <2>1. /\ vbanRate \in RemoteRate \cup {0} /\ inputAdded \in InputDrift
        /\ inputFilter[i] \in [source : RemoteRate \cup {0}, ratio : Nat, delay : Int]
    BY <1>2 DEF Input!TypeOK
  <2> QED
    BY <2>1, AdjustedFacts
<1> HIDE DEF new
<1>4. /\ inputFilter' \in [Input!Side -> [source : RemoteRate \cup {0}, ratio : Nat, delay : Int]]
      /\ \A j \in Input!Side : inputFilter'[j].delay = inputFilter[j].delay /\ inputFilter'[j].ratio \in InputRatios
  BY <1>1, <1>2, <1>3 DEF Input!TypeOK, InputInv, InputTypes
<1>5. /\ inputCallback' \in CallbackType
      /\ \/ inputCallback'.at = "follow" /\ inputCallback'.channel = 2
         \/ inputCallback'.at = "take"
  <2>1. /\ inputCallback \in CallbackType /\ inputCallback.at \in At /\ "take" \in At
        /\ 2 \in 0..2 /\ 0 \in 0..2 /\ 0 \in Nat
    BY <1>2, CallbackFacts DEF At
  <2>2. CASE inputCallback' = [inputCallback EXCEPT !.channel = 2]
    <3> DEFINE k == 2
    <3>1. k \in 0..2 /\ inputCallback' = [inputCallback EXCEPT !.channel = k]
      BY <2>2
    <3> HIDE DEF k
    <3>2. inputCallback' \in CallbackType /\ inputCallback'.at = inputCallback.at /\ inputCallback'.channel = k
      BY <2>1, <3>1 DEF CallbackType
    <3> QED
      BY <1>1, <3>2 DEF k
  <2>3. CASE inputCallback' = [inputCallback EXCEPT !.at = "take", !.channel = 0]
    <3> DEFINE a == "take"
               k == 0
    <3>1. a \in At /\ k \in 0..2 /\ inputCallback' = [inputCallback EXCEPT !.at = a, !.channel = k]
      BY <2>1, <2>3
    <3> HIDE DEF a, k
    <3>2. inputCallback' \in CallbackType /\ inputCallback'.at = a
      BY <2>1, <3>1 DEF CallbackType
    <3> QED
      BY <3>2 DEF a
  <2> QED
    BY <1>1, <2>2, <2>3
<1>6. Input!TypeOK'
  BY <1>1, <1>2, <1>4, <1>5 DEF Input!TypeOK, Input!settings, CallbackType, At
<1>7. InputTypes'
  BY <1>1, <1>2, <1>4, <1>5, <1>6 DEF InputInv, InputTypes, Input!Side
<1>8. Input!WholeFrames'
  BY <1>1 DEF InputInv, Input!WholeFrames
<1> QED
  BY <1>1, <1>4, <1>5, <1>7, <1>8, SidesUnchanged

\* All whole frames are taken from the ring.
LEMMA TakeInv ==
  ASSUME Input!RemoteInputAssumption, InputInv, Input!Take
  PROVE  InputInv'
<1>1. /\ inputCallback.at = "take"
      /\ inputCallback' = [inputCallback EXCEPT !.at = "filter", !.channel = 1, !.fed = ring \div 2]
      /\ ring' = ring - 2 * (ring \div 2)
      /\ UNCHANGED <<Input!settings, inputSocket, inputRate, vbanRate, inputFilter, inputSize, inputMain,
                     inputUneven, inputOverread, changes>>
  BY DEF Input!Take
<1>2. Input!TypeOK /\ inputSocket # "closed"
  BY <1>1 DEF InputInv, InputTypes, Input!Idle
<1>3. ring \div 2 \in Nat /\ ring' \in 0..(RingSize - 1) /\ ring' % 2 = 0
  <2>1. ring \in 0..(RingSize - 1) /\ RingSize \in Nat
    BY <1>2, InputFacts DEF Input!TypeOK
  <2>2. ring \div 2 \in Nat /\ ring' = 0
    BY <1>1, <2>1 DEF InputInv, Input!WholeFrames
  <2> QED
    BY <2>1, <2>2
<1>4. /\ inputCallback' \in CallbackType
      /\ inputCallback'.at = "filter" /\ inputCallback'.channel = 1
  <2>1. inputCallback \in CallbackType /\ "filter" \in At /\ 1 \in 0..2 /\ ring \div 2 \in Nat
    BY <1>2, <1>3, CallbackFacts DEF At
  <2> DEFINE n == ring \div 2
             a == "filter"
             k == 1
  <2>2. /\ a \in At /\ k \in 0..2 /\ n \in Nat
        /\ inputCallback' = [inputCallback EXCEPT !.at = a, !.channel = k, !.fed = n]
    BY <1>1, <2>1
  <2> HIDE DEF n, a, k
  <2>3. inputCallback' \in CallbackType /\ inputCallback'.at = a /\ inputCallback'.channel = k
    BY <2>1, <2>2 DEF CallbackType
  <2> QED
    BY <2>3 DEF a, k
<1>5. Input!TypeOK'
  BY <1>1, <1>2, <1>3, <1>4 DEF Input!TypeOK, Input!settings, CallbackType, At
<1>6. InputTypes'
  BY <1>1, <1>2, <1>4, <1>5 DEF InputInv, InputTypes, Input!Side
<1>7. Input!WholeFrames'
  BY <1>3 DEF Input!WholeFrames
<1> QED
  BY <1>1, <1>4, <1>6, <1>7, SidesUnchanged

\* A filter whose ratio is 0 never lets go of the audio thread.
LEMMA NeverEndsInv ==
  ASSUME Input!RemoteInputAssumption, InputInv, Input!NeverEnds
  PROVE  InputInv'
<1>1. /\ inputCallback.at = "filter"
      /\ inputCallback' = [inputCallback EXCEPT !.at = "endless"]
      /\ UNCHANGED <<Input!settings, inputSocket, ring, inputRate, vbanRate, inputFilter, inputSize, inputMain,
                     inputUneven, inputOverread, changes>>
  BY DEF Input!NeverEnds
<1>2. Input!TypeOK /\ inputSocket # "closed"
  BY <1>1 DEF InputInv, InputTypes, Input!Idle
<1>3. /\ inputCallback' \in CallbackType
      /\ inputCallback'.at = "endless"
  <2>1. inputCallback \in CallbackType
    BY <1>2, CallbackFacts
  <2> QED
    BY <1>1, <2>1 DEF CallbackType, At
<1>4. Input!TypeOK'
  BY <1>1, <1>2, <1>3 DEF Input!TypeOK, Input!settings, CallbackType, At
<1>5. InputTypes' /\ SidesAlike'
  BY <1>1, <1>2, <1>3, <1>4 DEF InputInv, InputTypes, SidesAlike
<1> QED
  BY <1>1, <1>5 DEF InputInv, Input!WholeFrames

\* A side is resampled.
LEMMA FilterInputInv ==
  ASSUME Input!RemoteInputAssumption, InputInv, Input!Filter
  PROVE  InputInv'
<1> DEFINE i == inputCallback.channel
           p == Input!ProcessSamples(inputFilter[i].delay, Input!AsFloat(inputFilter[i].ratio),
                                     inputCallback.fed)
<1>1. /\ inputCallback.at = "filter" /\ ~Input!Endless(inputFilter[i])
      /\ inputSize' = [inputSize EXCEPT ![i] = @ + p.outputs]
      /\ inputFilter' = [inputFilter EXCEPT ![i].delay = p.delay]
      /\ inputCallback' = IF i = 1 THEN [inputCallback EXCEPT !.channel = 2]
                          ELSE [inputCallback EXCEPT !.at = "erase"]
      /\ inputUneven' = (inputUneven \/ inputFilter[1].ratio # inputFilter[2].ratio)
      /\ UNCHANGED <<Input!settings, inputSocket, ring, inputRate, vbanRate, inputMain,
                     inputOverread, changes>>
  BY DEF Input!Filter, Input!Resampled
<1>2. Input!TypeOK /\ i \in Input!Side /\ inputSocket # "closed"
  BY <1>1 DEF InputInv, InputTypes, Input!Idle
<1>3. p.outputs \in Nat /\ p.delay \in Int /\ p.delay < OversamplingRatio
  <2> DEFINE d == inputFilter[i].delay
             r == Input!AsFloat(inputFilter[i].ratio)
             n == inputCallback.fed
  <2>1. d \in Int /\ d < OversamplingRatio /\ n \in Nat /\ inputFilter[i].ratio \in InputRatios
    BY <1>2, CallbackFacts DEF InputInv, InputTypes, Input!TypeOK
  <2>2. r \in Nat /\ (r = 0 <=> inputFilter[i].ratio = 0)
    BY <2>1, InputFacts
  <2>3. r = 0 => n = 0 \/ d + (n - 1) * OversamplingRatio < 0
    <3>1. (n - 1) * OversamplingRatio \in Int
      BY <2>1, InputFacts, Z3 DEF FilterAssumption
    <3>2. ~(inputFilter[i].ratio = 0 /\ n > 0 /\ d + (n - 1) * OversamplingRatio >= 0)
      BY <1>1 DEF Input!Endless
    <3> QED
      BY <2>1, <2>2, <3>1, <3>2
  <2>4. p = Input!ProcessSamples(d, r, n)
    OBVIOUS
  <2> HIDE DEF d, r, n, p
  <2> QED
    BY <2>1, <2>2, <2>3, <2>4, InputFacts, InputFilterFacts
<1> HIDE DEF p
<1>4. /\ inputSize \in [Input!Side -> Nat]
      /\ inputFilter \in [Input!Side -> [source : RemoteRate \cup {0}, ratio : Nat, delay : Int]]
  BY <1>2 DEF Input!TypeOK
<1>5. /\ inputCallback' \in CallbackType
      /\ i = 1 => inputCallback'.at = "filter" /\ inputCallback'.channel = 2
      /\ i = 2 => inputCallback'.at = "erase"
      /\ inputCallback'.fed = inputCallback.fed /\ i \in {1, 2}
  <2>1. /\ inputCallback \in CallbackType /\ i \in {1, 2} /\ inputCallback.at = "filter"
        /\ inputCallback.at \in At /\ "erase" \in At /\ 2 \in 0..2 /\ 0 \in Nat
    BY <1>1, <1>2, CallbackFacts DEF Input!Side, At
  <2>2. CASE i = 1
    <3>1. inputCallback' = [inputCallback EXCEPT !.channel = 2]
      BY <1>1, <2>2
    <3> DEFINE k == 2
    <3>2. k \in 0..2 /\ inputCallback' = [inputCallback EXCEPT !.channel = k]
      BY <3>1
    <3> HIDE DEF i, k
    <3>3. /\ inputCallback' \in CallbackType /\ inputCallback'.at = inputCallback.at
          /\ inputCallback'.channel = k /\ inputCallback'.fed = inputCallback.fed
      BY <2>1, <3>2 DEF CallbackType
    <3> QED
      BY <2>1, <2>2, <3>3 DEF k
  <2>3. CASE i = 2
    <3>1. inputCallback' = [inputCallback EXCEPT !.at = "erase"]
      BY <1>1, <2>3
    <3> DEFINE a == "erase"
    <3>2. a \in At /\ inputCallback' = [inputCallback EXCEPT !.at = a]
      BY <2>1, <3>1
    <3> HIDE DEF i, a
    <3>3. /\ inputCallback' \in CallbackType /\ inputCallback'.at = a
          /\ inputCallback'.fed = inputCallback.fed
      BY <2>1, <3>2 DEF CallbackType
    <3> QED
      BY <2>1, <2>3, <3>3 DEF a
  <2> QED
    BY <2>1, <2>2, <2>3
<1>6. /\ inputSize' \in [Input!Side -> Nat]
      /\ inputFilter' \in [Input!Side -> [source : RemoteRate \cup {0}, ratio : Nat, delay : Int]]
      /\ \A j \in Input!Side : /\ inputFilter'[j].delay < OversamplingRatio
                               /\ inputFilter'[j].ratio = inputFilter[j].ratio
                               /\ inputFilter'[j].ratio \in InputRatios
  BY <1>1, <1>3, <1>4 DEF InputInv, InputTypes
<1>7. Input!TypeOK'
  <2>1. inputUneven' \in BOOLEAN
    BY <1>1
  <2> QED
    BY <1>1, <1>2, <1>5, <1>6, <2>1 DEF Input!TypeOK, Input!settings, CallbackType, At
<1>8. InputTypes'
  BY <1>1, <1>2, <1>5, <1>6, <1>7 DEF InputInv, InputTypes, Input!Side
<1>9. ASSUME ~inputUneven'
      PROVE  SidesAlike' /\ ~inputOverread'
  <2>1. ~inputUneven /\ inputFilter[1].ratio = inputFilter[2].ratio
    BY <1>1, <1>9, Zenon
  <2>2. SidesAlike /\ ~inputOverread
    BY <2>1 DEF InputInv
  <2>3. \A j \in Input!Side : j # i => inputSize'[j] = inputSize[j] /\ inputFilter'[j] = inputFilter[j]
    <3> HIDE DEF i
    <3> QED
      BY <1>1, <1>4
  <2>4. inputSize'[i] = inputSize[i] + p.outputs /\ inputFilter'[i].delay = p.delay
    <3>1. /\ inputSize' = [inputSize EXCEPT ![i] = @ + p.outputs] /\ i \in Input!Side
          /\ inputFilter' = [inputFilter EXCEPT ![i].delay = p.delay]
      BY <1>1, <1>2
    <3> HIDE DEF i
    <3> QED
      BY <1>4, <3>1
  <2>5. CASE i = 1
    <3>1. inputSize[1] = inputSize[2] /\ inputFilter[1].delay = inputFilter[2].delay
      BY <1>1, <2>2, <2>5 DEF SidesAlike
    <3>2. /\ inputSize'[2] = inputSize[2] /\ inputFilter'[2] = inputFilter[2]
          /\ inputSize'[1] = inputSize[2] + p.outputs /\ inputFilter'[1].delay = p.delay
      BY <2>3, <2>4, <2>5, <3>1 DEF Input!Side
    <3>3. /\ p = Input!ProcessSamples(inputFilter'[2].delay, Input!AsFloat(inputFilter'[2].ratio),
                                      inputCallback'.fed)
          /\ inputCallback'.at = "filter" /\ inputCallback'.channel = 2
      BY <1>5, <2>1, <2>5, <3>1, <3>2 DEF p
    <3> DEFINE q == Input!ProcessSamples(inputFilter'[2].delay, Input!AsFloat(inputFilter'[2].ratio),
                                         inputCallback'.fed)
    <3>4. inputSize'[1] = inputSize'[2] + q.outputs /\ inputFilter'[1].delay = q.delay
      <4> HIDE DEF q
      <4> QED
        BY <3>2, <3>3 DEF q
    <3>5. SidesAlike' <=> (inputSize'[1] = inputSize'[2] + q.outputs /\ inputFilter'[1].delay = q.delay)
      BY <3>3 DEF SidesAlike
    <3> HIDE DEF q
    <3> QED
      BY <1>1, <2>2, <3>4, <3>5
  <2>6. CASE i = 2
    <3>1. inputSize[1] = inputSize[2] + p.outputs /\ inputFilter[1].delay = p.delay
      BY <1>1, <2>2, <2>6 DEF SidesAlike, p
    <3>2. /\ inputSize'[1] = inputSize'[2] /\ inputFilter'[1].delay = inputFilter'[2].delay
          /\ inputCallback'.at = "erase"
      BY <1>5, <2>3, <2>4, <2>6, <3>1 DEF Input!Side
    <3> QED
      BY <1>1, <2>2, <3>2 DEF SidesAlike
  <2> QED
    BY <1>5, <2>5, <2>6
<1> QED
  BY <1>1, <1>8, <1>9 DEF InputInv, Input!WholeFrames

\* The same is erased from both sides.
LEMMA EraseInv ==
  ASSUME Input!RemoteInputAssumption, InputInv, Input!Erase
  PROVE  InputInv'
<1> DEFINE played == Input!Min({inputCallback.nframes, inputSize[1]})
<1>1. /\ inputCallback.at = "erase"
      /\ inputSize' = [i \in Input!Side |-> IF inputSize[i] < played THEN 0 ELSE inputSize[i] - played]
      /\ inputOverread' = (inputOverread \/ inputSize[2] < played)
      /\ inputCallback' = Input!Idle
      /\ UNCHANGED <<Input!settings, inputSocket, ring, inputRate, vbanRate, inputFilter, inputMain,
                     inputUneven, changes>>
  BY DEF Input!Erase
<1>2. Input!TypeOK
  BY DEF InputInv, InputTypes
<1>3. inputSize \in [Input!Side -> Nat] /\ inputSize[1] \in Nat /\ inputSize[2] \in Nat
  BY <1>2 DEF Input!TypeOK, Input!Side
<1>4. played \in Nat /\ played <= inputSize[1]
  <2>1. inputCallback.nframes \in Nat
    BY <1>2, CallbackFacts
  <2> QED
    BY <1>3, <2>1, MinOfTwo
<1> HIDE DEF played
<1>5. inputSize' \in [Input!Side -> Nat]
  BY <1>1, <1>3, <1>4
<1>6. Input!TypeOK'
  <2>1. /\ inputOverread' \in BOOLEAN
        /\ inputCallback' \in CallbackType
        /\ inputCallback'.at = "idle"
    BY <1>1 DEF Input!Idle, CallbackType, At
  <2> QED
    BY <1>1, <1>2, <1>5, <2>1 DEF Input!TypeOK, Input!settings, CallbackType, At
<1>7. InputTypes'
  BY <1>1, <1>6 DEF InputInv, InputTypes, Input!Idle
<1>8. ASSUME ~inputUneven'
      PROVE  SidesAlike' /\ ~inputOverread'
  <2>1. inputSize[1] = inputSize[2] /\ inputFilter[1].delay = inputFilter[2].delay /\ ~inputOverread
    BY <1>1, <1>8 DEF InputInv, SidesAlike
  <2>2. ~(inputSize[2] < played) /\ inputSize'[1] = inputSize'[2]
    BY <1>1, <1>3, <1>4, <2>1 DEF Input!Side
  <2>3. ~inputOverread'
    BY <1>1, <2>1, <2>2, Zenon
  <2> QED
    BY <1>1, <2>1, <2>2, <2>3 DEF SidesAlike, Input!Idle
<1> QED
  BY <1>1, <1>7, <1>8 DEF InputInv, Input!WholeFrames

\* Every step of a remote input keeps the invariant.
LEMMA InputStepInv ==
  ASSUME Input!RemoteInputAssumption, InputInv, [Input!Next]_(Input!vars)
  PROVE  InputInv'
<1>0. /\ Input!TypeOK /\ Input!WholeFrames
      /\ inputMain = Input!AtRest \/ inputMain.filter \in Input!Side
      /\ inputSocket = "closed" => inputCallback = Input!Idle
  BY DEF InputInv, InputTypes
<1>1. ASSUME NEW n \in InputFrames, NEW r \in RemoteRate \cup {0}, Input!Receive(n, r) PROVE InputInv'
  <2>1. ring' = Input!Min({ring + 2 * Input!Min({n, (RingSize - 1 - ring) \div 2}), RingSize - 1})
    BY <1>1 DEF Input!Receive, Input!FramesThatFit
  <2>2. ring \in 0..(RingSize - 1) /\ ring % 2 = 0 /\ RingSize \in Nat \ {0} /\ n \in Nat
    BY <1>0, InputFacts DEF Input!TypeOK, Input!WholeFrames
  <2>3. ring' \in 0..(RingSize - 1) /\ ring' % 2 = 0
    BY <2>1, <2>2, RingStaysWhole
  <2>4. /\ inputRate' = r
        /\ UNCHANGED <<Input!settings, inputSocket, vbanRate, inputFilter, inputSize, inputCallback,
                       inputMain, inputUneven, inputOverread, changes>>
    BY <1>1 DEF Input!Receive
  <2>5. Input!TypeOK' /\ Input!WholeFrames'
    BY <1>0, <2>3, <2>4 DEF Input!TypeOK, Input!settings, Input!WholeFrames
  <2> QED
    BY <1>0, <2>4, <2>5, InputUnchanged
<1>2. ASSUME NEW bound \in BOOLEAN, Input!Start(bound) PROVE InputInv'
  BY <1>2, StartInputInv
<1>3. CASE Input!Stop
  <2>1. /\ changes' \in 0..InputChanges /\ inputSocket' = "closed" /\ inputCallback = Input!Idle
        /\ UNCHANGED <<Input!settings, ring, inputRate, vbanRate, inputFilter, inputSize,
                       inputCallback, inputMain, inputUneven, inputOverread>>
    BY <1>0, <1>3 DEF Input!Stop, Input!Change, Input!TypeOK, Input!RemoteInputAssumption
  <2>2. Input!TypeOK' /\ Input!WholeFrames'
    BY <1>0, <2>1 DEF Input!TypeOK, Input!settings, Input!WholeFrames
  <2> QED
    BY <1>0, <2>1, <2>2, InputUnchanged
<1>4. ASSUME NEW d \in InputDrift, Input!ClockDrift(d) PROVE InputInv'
  <2>1. /\ changes' \in 0..InputChanges /\ inputAdded' = d /\ inputMain' = [filter |-> 1, set |-> "drift"]
        /\ UNCHANGED <<vbanFormat, inputDeviceRate, inputSocket, ring, inputRate, vbanRate, inputFilter,
                   inputSize, inputCallback, inputUneven, inputOverread>>
    BY <1>0, <1>4 DEF Input!ClockDrift, Input!Change, Input!TypeOK, Input!RemoteInputAssumption
  <2>2. inputMain' \in [filter : 0..2, set : {"none", "drift", "rate"}] /\ inputMain'.filter \in Input!Side
    BY <2>1 DEF Input!Side
  <2>3. Input!TypeOK' /\ Input!WholeFrames'
    BY <1>0, <2>1, <2>2 DEF Input!TypeOK, Input!WholeFrames
  <2> QED
    BY <1>0, <2>1, <2>2, <2>3, InputUnchanged
<1>5. ASSUME NEW r \in RemoteRate, Input!ChangeDeviceRate(r), changes' \in 0..InputChanges PROVE InputInv'
  <2>1. /\ inputDeviceRate' = r /\ inputMain' = [filter |-> 1, set |-> "rate"]
        /\ UNCHANGED <<vbanFormat, inputAdded, inputSocket, ring, inputRate, vbanRate, inputFilter,
                   inputSize, inputCallback, inputUneven, inputOverread>>
    BY <1>5 DEF Input!ChangeDeviceRate
  <2>2. inputMain' \in [filter : 0..2, set : {"none", "drift", "rate"}] /\ inputMain'.filter \in Input!Side
    BY <2>1 DEF Input!Side
  <2>3. Input!TypeOK' /\ Input!WholeFrames'
    BY <1>0, <1>5, <2>1, <2>2 DEF Input!TypeOK, Input!WholeFrames
  <2> QED
    BY <1>0, <2>1, <2>2, <2>3, InputUnchanged
<1>6. ASSUME NEW r \in RemoteRate, Input!SetDeviceRate(r) PROVE InputInv'
  <2>1. Input!ChangeDeviceRate(r) /\ changes' \in 0..InputChanges
    BY <1>0, <1>6 DEF Input!SetDeviceRate, Input!Change, Input!TypeOK, Input!RemoteInputAssumption
  <2> QED
    BY <1>5, <2>1
<1>7. CASE Input!SlowTimer
  <2>1. vbanRate \in RemoteRate /\ Input!ChangeDeviceRate(vbanRate) /\ changes' \in 0..InputChanges
    BY <1>0, <1>7 DEF Input!SlowTimer, Input!Follow, Input!TypeOK
  <2> QED
    BY <1>5, <2>1
<1>8. ASSUME NEW b \in BOOLEAN, Input!SetVbanFormat(b) PROVE InputInv'
  <2>1. /\ changes' \in 0..InputChanges /\ vbanFormat' = b
        /\ vbanRate' \in {vbanRate, 0}
        /\ UNCHANGED <<inputDeviceRate, inputAdded, inputSocket, ring, inputRate, inputFilter,
                       inputSize, inputCallback, inputMain, inputUneven, inputOverread>>
    BY <1>0, <1>8 DEF Input!SetVbanFormat, Input!Change, Input!TypeOK, Input!RemoteInputAssumption
  <2>2. Input!TypeOK' /\ Input!WholeFrames'
    BY <1>0, <2>1 DEF Input!TypeOK, Input!WholeFrames
  <2> QED
    BY <1>0, <2>1, <2>2, InputUnchanged
<1>9. CASE Input!AdjustFilter
  BY <1>9, AdjustFilterInv
<1>10. CASE Input!Filter
  BY <1>10, FilterInputInv
<1>11. CASE Input!Erase
  BY <1>11, EraseInv
<1>12. ASSUME NEW n \in InputFrames, Input!Play(n) PROVE InputInv'
  BY <1>12, PlayInputInv
<1>13. CASE Input!TakeRate
  BY <1>13, TakeRateInv
<1>14. CASE Input!FollowRate
  BY <1>14, FollowRateInv
<1>15. CASE Input!Take
  BY <1>15, TakeInv
<1>16. CASE Input!NeverEnds
  BY <1>16, NeverEndsInv
<1>17. CASE UNCHANGED Input!vars
  <2>1. Input!TypeOK' /\ Input!WholeFrames'
    BY <1>0, <1>17 DEF Input!vars, Input!settings, Input!TypeOK, Input!WholeFrames
  <2> QED
    BY <1>0, <1>17, <2>1, InputUnchanged DEF Input!vars
<1> QED
  BY <1>1, <1>2, <1>3, <1>4, <1>6, <1>7, <1>8, <1>9, <1>10, <1>11, <1>12, <1>13, <1>14, <1>15, <1>16, <1>17
     DEF Input!Next, Input!MainThread, Input!AudioThread

\* The ring of a remote input holds whole frames, the two sides have the same between
\* blocks, and no more is erased than there is, whatever packets arrive and whenever the
\* rate changes outside of a block (RemoteUdpInput, RemoteInputInstance).
THEOREM InputTogether ==
  ASSUME Input!RemoteInputAssumption
  PROVE  Input!Spec => []SidesTogether
<1>1. Input!Init => InputInv
  BY InputInitInv
<1>2. InputInv /\ [Input!Next]_(Input!vars) => InputInv'
  BY InputStepInv
<1>3. InputInv => SidesTogether
  BY DEF SidesTogether, InputInv, InputTypes, SidesAlike, Input!SidesTogether, Input!Idle
<1> QED
  BY <1>1, <1>2, <1>3, PTL DEF Input!Spec
(***************************************************************************)
(* A remote output.                                                        *)
(***************************************************************************)

\* The filter as RemoteOutput has it.
LEMMA OutputFilter ==
  /\ Output!ResetDelay = ResetDelay
  /\ \A d, r, n : Output!ProcessSamples(d, r, n) = ProcessSamples(d, r, n)
BY DEF Output!ResetDelay, ResetDelay, Output!ProcessSamples, ProcessSamples, Output!Get, Get

\* ProcessSamples as RemoteOutput has it.
LEMMA OutputFilterFacts ==
  ASSUME FilterAssumption, NEW d \in Int, d < OversamplingRatio, NEW r \in Nat \ {0}, NEW n \in Nat
  PROVE  LET p == Output!ProcessSamples(d, r, n)
         IN  p.outputs \in Nat /\ p.delay \in Int /\ p.delay < OversamplingRatio
<1>1. Output!ProcessSamples(d, r, n) = ProcessSamples(d, r, n)
  BY OutputFilter
<1>2. LET p == ProcessSamples(d, r, n)
      IN  p.outputs \in Nat /\ p.delay \in Int /\ p.delay < OversamplingRatio
  BY FilterFacts
<1> QED
  BY <1>1, <1>2

OutputFilterType == [target : RemoteRate, ratio : Nat \ {0}, delay : Int]
BlockType ==
    [at : 0..3, nframes : Nat, frames : [1..2 -> Nat], done : Nat,
     target : RemoteRate \cup {0}, changed : BOOLEAN, failed : BOOLEAN]

\* The types, said of the parts of the strip.
OutputTypes ==
    /\ outputSocket \in {"closed", "open", "failed"}
    /\ outputFilter \in [Output!Side -> OutputFilterType]
    /\ \A i \in Output!Side : outputFilter[i].delay < OversamplingRatio
    /\ outputRate \in RemoteRate /\ header \in VbanRate \cup {0} /\ outputAdded \in OutputDrift
    /\ \/ outputMain = Output!AtRest
       \/ outputMain \in [at : 1..2, set : {"drift"}]
       \/ outputMain \in [at : 1..3, set : {"rate"}]
    /\ block \in BlockType
    /\ packet \in [frames : Nat, rate : VbanRate \cup {0}]
    /\ outputUneven \in BOOLEAN

\* Once a change of the rate is over, both filters and the header have it; before that
\* those that were adjusted have it.
AtRate ==
    LET changing == outputMain.set = "rate"
    IN  /\ ~changing \/ outputMain.at \in {2, 3} => outputFilter[1].target = outputRate
        /\ ~changing \/ outputMain.at = 3 => outputFilter[2].target = outputRate
        /\ ~changing /\ outputSocket = "open" /\ outputRate \in VbanRate => header = outputRate

\* A block has its rate from its first filter on, unless the rate is being changed; what
\* was sent of it is a part of what the left filter made.
BlockSent ==
    /\ packet.frames <= MaxPacket /\ block.done <= block.frames[1]
    /\ block.at \in {1, 2} => block.done = 0 /\ packet = Output!NoPacket
    /\ block.at = 0 /\ ~block.failed => block.done = block.frames[1]
    /\ block.at # 0 /\ ~block.changed => outputMain.set # "rate"
    /\ block.at \in {2, 3} /\ ~block.changed => block.target = outputRate
    /\ packet # Output!NoPacket /\ ~block.changed /\ block.target \in VbanRate =>
           packet.rate = block.target

\* Between blocks the two filters are alike; within a block the left one is ahead by
\* what it made of the block.
FiltersAlike ==
    IF block.at = 2
    THEN LET p == Output!ProcessSamples(outputFilter[2].delay, outputFilter[2].ratio, block.nframes)
         IN  block.frames[1] = p.outputs /\ outputFilter[1].delay = p.delay
    ELSE /\ outputFilter[1].delay = outputFilter[2].delay
         /\ block.at \in {0, 3} => block.frames[1] = block.frames[2]

OutputInv == OutputTypes /\ AtRate /\ BlockSent /\ (~outputUneven => FiltersAlike)

\* The parameters of a remote output.
LEMMA OutputFacts ==
  ASSUME Output!RemoteOutputAssumption
  PROVE  /\ FilterAssumption /\ MaxPacket \in Nat \ {0} /\ OutputFrames \subseteq Nat
         /\ RemoteRate \subseteq Nat \ {0} /\ OutputDrift \subseteq Int /\ 0 \in OutputDrift
         /\ Output!ResetDelay \in Int /\ Output!ResetDelay < OversamplingRatio
  BY DEF Output!RemoteOutputAssumption, FilterAssumption, Output!ResetDelay

\* A clock drift leaves the ratio one.
LEMMA RatioStays ==
  ASSUME Output!RemoteOutputAssumption
  PROVE  /\ \A q \in Nat \ {0}, r \in RemoteRate, d \in OutputDrift :
              Output!ClockDriftRatio(q, r + d) \in Nat \ {0}
         /\ \A r \in RemoteRate, d \in OutputDrift :
              /\ Output!Reset(r, d) \in OutputFilterType
              /\ Output!Reset(r, d).delay = Output!ResetDelay /\ Output!Reset(r, d).target = r
<1>1. ASSUME NEW q \in Nat \ {0}, NEW r \in RemoteRate, NEW d \in OutputDrift
      PROVE  Output!ClockDriftRatio(q, r + d) \in Nat \ {0}
  <2>1. r + d \in Int
    BY OutputFacts
  <2> QED
    BY <2>1 DEF Output!ClockDriftRatio
<1>2. ASSUME NEW r \in RemoteRate, NEW d \in OutputDrift
      PROVE  /\ Output!Reset(r, d) \in OutputFilterType
             /\ Output!Reset(r, d).delay = Output!ResetDelay /\ Output!Reset(r, d).target = r
  <2>1. r \in Nat \ {0} /\ Output!ResetDelay \in Int
    BY OutputFacts
  <2>2. Output!ClockDriftRatio(r, r + d) \in Nat \ {0}
    BY <1>1, <2>1
  <2> QED
    BY <2>1, <2>2 DEF Output!Reset, OutputFilterType
<1> QED
  BY <1>1, <1>2

\* Before the first block there is nothing.
LEMMA NoBlockFacts ==
  /\ Output!NoBlock \in BlockType /\ Output!NoBlock.at = 0 /\ Output!NoBlock.done = 0
  /\ Output!NoBlock.frames[1] = 0 /\ Output!NoBlock.frames[2] = 0
  /\ Output!NoPacket \in [frames : Nat, rate : VbanRate \cup {0}] /\ Output!NoPacket.frames = 0
<1>1. <<0, 0>> \in [1..2 -> Nat] /\ <<0, 0>>[1] = 0 /\ <<0, 0>>[2] = 0
  OBVIOUS
<1> DEFINE s == <<0, 0>>
<1>2. Output!NoBlock = [at |-> 0, nframes |-> 0, frames |-> s, done |-> 0,
                        target |-> 0, changed |-> FALSE, failed |-> FALSE]
  BY DEF Output!NoBlock
<1>3. s \in [1..2 -> Nat] /\ s[1] = 0 /\ s[2] = 0
  BY <1>1
<1> HIDE DEF s
<1>4. /\ Output!NoBlock \in BlockType /\ Output!NoBlock.at = 0 /\ Output!NoBlock.done = 0
      /\ Output!NoBlock.frames = s
  BY <1>2, <1>3 DEF BlockType
<1> QED
  BY <1>3, <1>4 DEF Output!NoPacket

\* The fields of a block and of a filter.
LEMMA BlockFields ==
  ASSUME OutputTypes
  PROVE  /\ block.at \in 0..3 /\ block.nframes \in Nat /\ block.frames \in [1..2 -> Nat]
         /\ block.frames[1] \in Nat /\ block.frames[2] \in Nat
         /\ block.done \in Nat /\ block.changed \in BOOLEAN /\ block.failed \in BOOLEAN
         /\ block.target \in RemoteRate \cup {0}
         /\ packet.frames \in Nat
         /\ \A i \in Output!Side : /\ outputFilter[i] \in OutputFilterType
                                   /\ outputFilter[i].target \in RemoteRate
                                   /\ outputFilter[i].ratio \in Nat \ {0} /\ outputFilter[i].delay \in Int
         /\ outputMain.set \in {"none", "drift", "rate"} /\ outputMain.at \in 0..3
         /\ outputMain.at = 3 => outputMain.set = "rate"
<1>1. block.at \in 0..3 /\ block.nframes \in Nat /\ block.frames \in [1..2 -> Nat]
      /\ block.done \in Nat /\ block.changed \in BOOLEAN /\ block.failed \in BOOLEAN
      /\ block.target \in RemoteRate \cup {0}
  BY DEF OutputTypes, BlockType
<1>2. \A i \in Output!Side : /\ outputFilter[i] \in OutputFilterType
                             /\ outputFilter[i].target \in RemoteRate
                             /\ outputFilter[i].ratio \in Nat \ {0} /\ outputFilter[i].delay \in Int
  BY DEF OutputTypes, OutputFilterType
<1>3. /\ outputMain.set \in {"none", "drift", "rate"} /\ outputMain.at \in 0..3
      /\ outputMain.at = 3 => outputMain.set = "rate"
  BY DEF OutputTypes, Output!AtRest
<1>4. packet.frames \in Nat
  BY DEF OutputTypes
<1> QED
  BY <1>1, <1>2, <1>3, <1>4

\* The invariant holds before the remote output starts.
LEMMA OutputInitInv ==
  ASSUME Output!RemoteOutputAssumption, Output!Init
  PROVE  OutputInv
<1>1. /\ outputSocket = "closed" /\ outputRate \in RemoteRate /\ outputAdded = 0 /\ header = 0
      /\ outputFilter = [i \in Output!Side |-> Output!Reset(outputRate, 0)]
      /\ outputMain = Output!AtRest /\ block = Output!NoBlock /\ packet = Output!NoPacket
      /\ outputUneven = FALSE
  BY DEF Output!Init
<1>2. /\ outputFilter \in [Output!Side -> OutputFilterType]
      /\ \A i \in Output!Side : outputFilter[i].delay = Output!ResetDelay /\ outputFilter[i].target = outputRate
  <2>1. /\ Output!Reset(outputRate, 0) \in OutputFilterType
        /\ Output!Reset(outputRate, 0).delay = Output!ResetDelay /\ Output!Reset(outputRate, 0).target = outputRate
    BY <1>1, OutputFacts, RatioStays
  <2> QED
    BY <1>1, <2>1
<1>3. OutputTypes
  BY <1>1, <1>2, OutputFacts, NoBlockFacts DEF OutputTypes
<1>4. AtRate
  BY <1>1, <1>2 DEF AtRate, Output!Side
<1>5. BlockSent
  BY <1>1, NoBlockFacts, OutputFacts DEF BlockSent
<1>6. FiltersAlike
  BY <1>1, <1>2, NoBlockFacts DEF FiltersAlike, Output!Side
<1> QED
  BY <1>3, <1>4, <1>5, <1>6 DEF OutputInv

\* A start of the remote output keeps the invariant.
LEMMA OutputStartInv ==
  ASSUME Output!RemoteOutputAssumption, OutputInv, NEW opens \in BOOLEAN, Output!Start(opens)
  PROVE  OutputInv'
<1>1. /\ outputFilter' = [i \in Output!Side |-> Output!Reset(outputRate, outputAdded)]
      /\ \/ outputSocket' = "open" /\ header' = Output!SampleRateIndex(outputRate, header)
         \/ outputSocket' = "failed" /\ UNCHANGED header
      /\ block' = Output!NoBlock /\ packet' = Output!NoPacket /\ outputUneven' = FALSE
      /\ UNCHANGED <<outputRate, outputAdded, outputMain>> /\ outputMain = Output!AtRest
  BY DEF Output!Start
<1>2. OutputTypes
  BY DEF OutputInv
<1>3. /\ outputFilter' \in [Output!Side -> OutputFilterType]
      /\ \A i \in Output!Side : outputFilter'[i].delay = Output!ResetDelay /\ outputFilter'[i].target = outputRate
  <2>1. /\ Output!Reset(outputRate, outputAdded) \in OutputFilterType
        /\ Output!Reset(outputRate, outputAdded).delay = Output!ResetDelay
        /\ Output!Reset(outputRate, outputAdded).target = outputRate
    BY <1>2, RatioStays DEF OutputTypes
  <2> QED
    BY <1>1, <2>1
<1>4. header' \in VbanRate \cup {0} /\ (outputSocket' = "open" /\ outputRate \in VbanRate => header' = outputRate)
  BY <1>1, <1>2 DEF OutputTypes, Output!SampleRateIndex
<1>5. OutputTypes'
  BY <1>1, <1>2, <1>3, <1>4, OutputFacts, NoBlockFacts DEF OutputTypes
<1>6. AtRate'
  BY <1>1, <1>3, <1>4 DEF AtRate, Output!Side
<1>7. BlockSent'
  BY <1>1, NoBlockFacts, OutputFacts DEF BlockSent
<1>8. FiltersAlike'
  BY <1>1, <1>3, NoBlockFacts DEF FiltersAlike, Output!Side
<1> QED
  BY <1>5, <1>6, <1>7, <1>8 DEF OutputInv

\* The end of a change of the header, and steps that leave block and filters alone.
LEMMA OutputUnsent ==
  ASSUME OutputInv, OutputTypes', AtRate',
         UNCHANGED <<outputFilter, outputRate, block, packet, outputUneven>>,
         outputMain'.set = "rate" => outputMain.set = "rate"
  PROVE  OutputInv'
<1>1. BlockSent'
  BY DEF OutputInv, BlockSent
<1> QED
  BY <1>1 DEF OutputInv, FiltersAlike

\* A filter is adjusted by the main thread; in the middle of a block this is what
\* `outputUneven' records.
LEMMA OutputAdjustInv ==
  ASSUME Output!RemoteOutputAssumption, OutputInv, Output!AdjustFilter
  PROVE  OutputInv'
<1> DEFINE i == outputMain.at
           target == IF outputMain.set = "rate" THEN outputRate ELSE outputFilter[i].target
           ratioOf == IF outputMain.set = "rate" THEN target
                      ELSE Output!ClockDriftRatio(outputFilter[i].ratio, target + outputAdded)
<1>1. /\ i \in Output!Side
      /\ outputFilter' = [outputFilter EXCEPT ![i].target = target, ![i].ratio = ratioOf]
      /\ outputMain' = IF outputMain = [at |-> 2, set |-> "drift"] THEN Output!AtRest
                       ELSE [outputMain EXCEPT !.at = @ + 1]
      /\ outputUneven' = (outputUneven \/ block.at \in Output!Side)
      /\ UNCHANGED <<outputSocket, outputRate, outputAdded, header, block, packet>>
  BY DEF Output!AdjustFilter
<1>2. OutputTypes /\ AtRate /\ BlockSent
  BY DEF OutputInv
<1>3. target \in RemoteRate /\ ratioOf \in Nat \ {0}
  <2>1. /\ outputRate \in RemoteRate /\ outputAdded \in OutputDrift /\ outputFilter[i].target \in RemoteRate
        /\ outputFilter[i].ratio \in Nat \ {0} /\ RemoteRate \subseteq Nat \ {0}
    BY <1>1, <1>2, BlockFields, OutputFacts DEF OutputTypes
  <2>2. target \in RemoteRate
    BY <2>1
  <2> HIDE DEF target
  <2> QED
    BY <2>1, <2>2, RatioStays
<1>4. /\ outputMain.set = "rate" => target = outputRate
      /\ outputMain.set # "rate" => target = outputFilter[i].target
  OBVIOUS
<1>5. \/ outputMain.set = "drift" /\ i = 1 /\ outputMain' = [at |-> 2, set |-> "drift"]
      \/ outputMain.set = "drift" /\ i = 2 /\ outputMain' = Output!AtRest
      \/ outputMain.set = "rate" /\ i = 1 /\ outputMain' = [at |-> 2, set |-> "rate"]
      \/ outputMain.set = "rate" /\ i = 2 /\ outputMain' = [at |-> 3, set |-> "rate"]
  BY <1>1, <1>2 DEF OutputTypes, Output!AtRest, Output!Side
<1> HIDE DEF i, target, ratioOf
<1>6. /\ outputFilter' \in [Output!Side -> OutputFilterType]
      /\ \A j \in Output!Side : /\ outputFilter'[j].delay = outputFilter[j].delay
                                /\ outputFilter'[j].target = IF j = i THEN target ELSE outputFilter[j].target
  <2>1. outputFilter \in [Output!Side -> OutputFilterType]
    BY <1>2 DEF OutputTypes
  <2> QED
    BY <1>1, <1>3, <2>1 DEF OutputFilterType
<1>7. OutputTypes'
  <2>1. \/ outputMain' = Output!AtRest
        \/ outputMain' \in [at : 1..2, set : {"drift"}]
        \/ outputMain' \in [at : 1..3, set : {"rate"}]
    BY <1>5
  <2>2. outputUneven' \in BOOLEAN
    BY <1>1, Zenon
  <2>3. \A j \in Output!Side : outputFilter'[j].delay < OversamplingRatio
    BY <1>2, <1>6 DEF OutputTypes
  <2> QED
    BY <1>1, <1>2, <1>6, <2>1, <2>2, <2>3 DEF OutputTypes
<1>8. AtRate'
  <2>1. /\ outputFilter'[1].target = IF i = 1 THEN target ELSE outputFilter[1].target
        /\ outputFilter'[2].target = IF i = 2 THEN target ELSE outputFilter[2].target
    BY <1>6 DEF Output!Side
  <2>2. CASE outputMain.set = "drift"
    <3>1. outputMain'.set # "rate" /\ outputMain.set # "rate"
      BY <1>5, <2>2 DEF Output!AtRest
    <3>2. outputFilter[1].target = outputRate /\ outputFilter[2].target = outputRate
      BY <1>2, <3>1 DEF AtRate
    <3>3. target = outputFilter[i].target /\ i \in {1, 2}
      BY <1>1, <1>4, <3>1 DEF Output!Side
    <3>4. outputFilter'[1].target = outputRate /\ outputFilter'[2].target = outputRate
      BY <2>1, <3>2, <3>3
    <3> QED
      BY <1>1, <1>2, <3>1, <3>4 DEF AtRate
  <2>3. CASE outputMain.set = "rate"
    <3>1. outputMain'.set = "rate" /\ outputMain'.at = i + 1 /\ i \in {1, 2}
      BY <1>5, <2>3 DEF Output!AtRest
    <3>2. outputFilter'[1].target = outputRate
      <4>1. i = 2 => outputFilter[1].target = outputRate
        BY <1>2, <2>3 DEF AtRate, i
      <4> QED
        BY <1>4, <2>1, <2>3, <3>1, <4>1
    <3>3. i = 2 => outputFilter'[2].target = outputRate
      BY <1>4, <2>1, <2>3
    <3> QED
      BY <1>1, <3>1, <3>2, <3>3 DEF AtRate
  <2> QED
    BY <1>5, <2>2, <2>3
<1>9. BlockSent'
  <2>1. outputMain'.set = "rate" => outputMain.set = "rate"
    BY <1>5 DEF Output!AtRest
  <2> QED
    BY <1>1, <1>2, <2>1 DEF BlockSent
<1>10. ASSUME ~outputUneven'
       PROVE  FiltersAlike'
  <2>1. ~outputUneven /\ block.at \notin Output!Side
    BY <1>1, <1>10, Zenon
  <2> QED
    BY <1>1, <1>6, <2>1 DEF OutputInv, FiltersAlike, Output!Side
<1> QED
  BY <1>7, <1>8, <1>9, <1>10 DEF OutputInv

\* A change of the rate begins; the block under way may be at either rate.
LEMMA OutputRateInv ==
  ASSUME Output!RemoteOutputAssumption, OutputInv, NEW r \in RemoteRate, Output!SetDeviceRate(r)
  PROVE  OutputInv'
<1> DEFINE changed == block.changed \/ block.at # 0
<1>1. /\ outputRate' = r /\ outputMain' = [at |-> 1, set |-> "rate"]
      /\ block' = [block EXCEPT !.changed = changed]
      /\ UNCHANGED <<outputSocket, outputFilter, outputAdded, header, packet, outputUneven>>
  BY DEF Output!SetDeviceRate
<1>2. OutputTypes /\ AtRate /\ BlockSent
  BY DEF OutputInv
<1>3. changed \in BOOLEAN /\ (~changed => ~block.changed /\ block.at = 0)
  BY <1>2, BlockFields
<1> HIDE DEF changed
<1>4. /\ block' \in BlockType
      /\ block'.at = block.at /\ block'.frames = block.frames /\ block'.nframes = block.nframes
      /\ block'.done = block.done /\ block'.failed = block.failed /\ block'.target = block.target
      /\ block'.changed = changed
  <2>1. block \in BlockType
    BY <1>2 DEF OutputTypes
  <2> QED
    BY <1>1, <1>3, <2>1 DEF BlockType
<1>5. OutputTypes'
  BY <1>1, <1>2, <1>4 DEF OutputTypes
<1>6. AtRate'
  BY <1>1 DEF AtRate
<1>7. BlockSent'
  BY <1>1, <1>2, <1>3, <1>4 DEF BlockSent
<1>8. FiltersAlike => FiltersAlike'
  BY <1>1, <1>4 DEF FiltersAlike
<1> QED
  BY <1>1, <1>5, <1>6, <1>7, <1>8 DEF OutputInv

\* A block begins.
LEMMA BeginInv ==
  ASSUME Output!RemoteOutputAssumption, OutputInv, NEW n \in OutputFrames, Output!Begin(n)
  PROVE  OutputInv'
<1> DEFINE changed == outputMain.set = "rate"
           a == 1
<1>1. /\ block.at = 0 /\ packet' = Output!NoPacket
      /\ block' = [Output!NoBlock EXCEPT !.at = a, !.nframes = n, !.changed = changed]
      /\ UNCHANGED <<outputSocket, outputFilter, outputRate, outputAdded, header, outputMain, outputUneven>>
  BY DEF Output!Begin
<1>2. OutputTypes /\ AtRate /\ BlockSent
  BY DEF OutputInv
<1>3. changed \in BOOLEAN /\ (~changed => outputMain.set # "rate") /\ a \in 0..3 /\ a = 1 /\ n \in Nat
  BY OutputFacts
<1> HIDE DEF changed, a
<1>4. /\ block' \in BlockType /\ block'.at = a /\ block'.changed = changed /\ block'.nframes = n
      /\ block'.frames = Output!NoBlock.frames /\ block'.done = Output!NoBlock.done
  BY <1>1, <1>3, NoBlockFacts DEF BlockType
<1>5. block'.at = 1 /\ block'.frames[1] = 0 /\ block'.done = 0
  BY <1>3, <1>4, NoBlockFacts
<1>6. OutputTypes'
  BY <1>1, <1>2, <1>4, NoBlockFacts DEF OutputTypes
<1>7. AtRate'
  BY <1>1, <1>2 DEF AtRate
<1>8. BlockSent'
  BY <1>1, <1>3, <1>4, <1>5, NoBlockFacts, OutputFacts DEF BlockSent
<1>9. FiltersAlike => FiltersAlike'
  BY <1>1, <1>5 DEF FiltersAlike
<1> QED
  BY <1>1, <1>6, <1>7, <1>8, <1>9 DEF OutputInv

\* A filter resamples the block.
LEMMA ResampleInv ==
  ASSUME Output!RemoteOutputAssumption, OutputInv, Output!Resample
  PROVE  OutputInv'
<1> DEFINE i == block.at
           p == Output!ProcessSamples(outputFilter[i].delay, outputFilter[i].ratio, block.nframes)
           a == i + 1
           t == IF i = 1 THEN outputFilter[1].target ELSE block.target
           o == p.outputs
           e == p.delay
<1>1. /\ i \in Output!Side
      /\ outputFilter' = [outputFilter EXCEPT ![i].delay = e]
      /\ block' = [block EXCEPT !.at = a, !.frames[i] = o, !.target = t]
      /\ outputUneven' = (outputUneven \/ outputFilter[1].ratio # outputFilter[2].ratio)
      /\ UNCHANGED <<outputSocket, outputRate, outputAdded, header, outputMain, packet>>
  BY DEF Output!Resample
<1>2. OutputTypes /\ AtRate /\ BlockSent
  BY DEF OutputInv
<1>3. i \in {1, 2} /\ a \in 0..3 /\ a = i + 1
  BY <1>1 DEF Output!Side
<1>4. /\ t \in RemoteRate \cup {0}
      /\ i = 1 => t = outputFilter[1].target
      /\ i = 2 => t = block.target
  BY <1>2, <1>3, BlockFields DEF Output!Side
<1>5. o \in Nat /\ e \in Int /\ e < OversamplingRatio
  <2> DEFINE d == outputFilter[i].delay
             r == outputFilter[i].ratio
             n == block.nframes
  <2>1. d \in Int /\ d < OversamplingRatio /\ r \in Nat \ {0} /\ n \in Nat
    BY <1>1, <1>2, BlockFields DEF OutputTypes
  <2>2. p = Output!ProcessSamples(d, r, n)
    OBVIOUS
  <2> HIDE DEF d, r, n, p
  <2>3. p.outputs \in Nat /\ p.delay \in Int /\ p.delay < OversamplingRatio
    BY <2>1, <2>2, OutputFacts, OutputFilterFacts
  <2> QED
    BY <2>3
<1>6. p.outputs = o /\ p.delay = e
  OBVIOUS
<1>7. p = Output!ProcessSamples(outputFilter[i].delay, outputFilter[i].ratio, block.nframes)
  OBVIOUS
<1> DEFINE c == i
<1>8. c = i
  OBVIOUS
<1> HIDE DEF p, a, t, o, e, c
<1>9. /\ block' \in BlockType /\ block'.at = a /\ block'.target = t
      /\ block'.frames = [block.frames EXCEPT ![c] = o]
      /\ block'.nframes = block.nframes /\ block'.done = block.done
      /\ block'.changed = block.changed /\ block'.failed = block.failed
  <2>1. block \in BlockType /\ c \in 1..2
    BY <1>2, <1>3, <1>8 DEF OutputTypes
  <2>2. block' = [block EXCEPT !.at = a, !.frames[c] = o, !.target = t]
    BY <1>1, <1>8
  <2> QED
    BY <1>3, <1>4, <1>5, <2>1, <2>2 DEF BlockType
<1>10. /\ i = 1 => block'.frames[1] = o
       /\ i = 2 => block'.frames[2] = o /\ block'.frames[1] = block.frames[1]
  BY <1>2, <1>3, <1>8, <1>9, BlockFields
<1>11. /\ outputFilter' \in [Output!Side -> OutputFilterType]
       /\ outputFilter'[c].delay = e
       /\ \A j \in Output!Side : /\ outputFilter'[j].delay < OversamplingRatio
                                 /\ outputFilter'[j].target = outputFilter[j].target
                                 /\ outputFilter'[j].ratio = outputFilter[j].ratio
                                 /\ j # c => outputFilter'[j].delay = outputFilter[j].delay
  <2>1. outputFilter' = [outputFilter EXCEPT ![c].delay = e] /\ c \in Output!Side
    BY <1>1, <1>8
  <2>2. outputFilter \in [Output!Side -> OutputFilterType]
    BY <1>2 DEF OutputTypes
  <2>3. \A j \in Output!Side : outputFilter[j].delay < OversamplingRatio
    BY <1>2 DEF OutputTypes
  <2> QED
    BY <1>5, <2>1, <2>2, <2>3 DEF OutputFilterType
<1>12. OutputTypes'
  <2>1. outputUneven' \in BOOLEAN
    BY <1>1, Zenon
  <2> QED
    BY <1>1, <1>2, <1>9, <1>11, <2>1 DEF OutputTypes
<1>13. AtRate'
  BY <1>1, <1>2, <1>11 DEF AtRate, Output!Side
<1>14. BlockSent'
  <2>1. block.done = 0 /\ packet = Output!NoPacket
    BY <1>2, <1>3 DEF BlockSent
  <2>2. block'.done <= block'.frames[1]
    BY <1>2, <1>3, <1>5, <1>9, <1>10, <2>1, BlockFields
  <2>3. ~block.changed => t = outputRate
    BY <1>2, <1>3, <1>4 DEF BlockSent, AtRate
  <2>4. a \in {2, 3}
    BY <1>3
  <2>5. packet.frames <= MaxPacket
    BY <1>2 DEF BlockSent
  <2>6. ~block.changed => outputMain.set # "rate"
    BY <1>2, <1>3 DEF BlockSent
  <2> QED
    BY <1>1, <1>9, <2>1, <2>2, <2>3, <2>4, <2>5, <2>6 DEF BlockSent
<1>15. ASSUME ~outputUneven'
       PROVE  FiltersAlike'
  <2>1. ~outputUneven /\ outputFilter[1].ratio = outputFilter[2].ratio
    BY <1>1, <1>15, Zenon
  <2>2. FiltersAlike
    BY <2>1 DEF OutputInv
  <2>3. CASE i = 1
    <3>1. outputFilter[1].delay = outputFilter[2].delay
      BY <2>2, <2>3 DEF FiltersAlike
    <3>2. /\ outputFilter'[2].delay = outputFilter[2].delay /\ outputFilter'[2].ratio = outputFilter[2].ratio
          /\ outputFilter'[1].delay = e
      BY <1>8, <1>11, <2>3 DEF Output!Side
    <3> DEFINE q == Output!ProcessSamples(outputFilter'[2].delay, outputFilter'[2].ratio, block'.nframes)
    <3>3. p = q
      <4>1. p = Output!ProcessSamples(outputFilter[1].delay, outputFilter[1].ratio, block.nframes)
        BY <1>7, <2>3
      <4> QED
        BY <1>9, <2>1, <3>1, <3>2, <4>1
    <3>4. block'.at = 2 /\ block'.frames[1] = o
      BY <1>3, <1>9, <1>10, <2>3
    <3>5. FiltersAlike' <=> (block'.frames[1] = q.outputs /\ outputFilter'[1].delay = q.delay)
      BY <3>4 DEF FiltersAlike
    <3> HIDE DEF q
    <3> QED
      BY <1>6, <3>2, <3>3, <3>4, <3>5
  <2>4. CASE i = 2
    <3>1. p = Output!ProcessSamples(outputFilter[2].delay, outputFilter[2].ratio, block.nframes)
      BY <1>7, <2>4
    <3>2. block.frames[1] = p.outputs /\ outputFilter[1].delay = p.delay
      BY <2>2, <2>4, <3>1 DEF FiltersAlike
    <3>3. outputFilter'[1].delay = outputFilter[1].delay /\ outputFilter'[2].delay = e
      BY <1>8, <1>11, <2>4 DEF Output!Side
    <3>4. block'.at = 3 /\ block'.frames[2] = o /\ block'.frames[1] = block.frames[1]
      BY <1>3, <1>9, <1>10, <2>4
    <3> QED
      BY <1>6, <3>2, <3>3, <3>4 DEF FiltersAlike
  <2> QED
    BY <1>3, <2>3, <2>4
<1> QED
  BY <1>12, <1>13, <1>14, <1>15 DEF OutputInv

\* The lesser of two numbers of a remote output.
LEMMA OutputMin ==
  ASSUME NEW a \in Int, NEW b \in Int
  PROVE  Output!Min({a, b}) = IF a <= b THEN a ELSE b
<1>1. Output!Min({a, b}) = Input!Min({a, b})
  BY DEF Output!Min, Input!Min
<1> QED
  BY <1>1, MinOfTwo

\* A packet is sent.
LEMMA SendPacketInv ==
  ASSUME Output!RemoteOutputAssumption, OutputInv, Output!SendPacket
  PROVE  OutputInv'
<1> DEFINE left == block.frames[1] - block.done
           n == Output!Min({MaxPacket, left})
           done == block.done + n
<1>1. /\ block.at = 3 /\ outputSocket = "open" /\ left > 0
      /\ packet' = [frames |-> n, rate |-> header]
      /\ block' = [block EXCEPT !.done = block.done + packet'.frames]
      /\ UNCHANGED <<outputSocket, outputFilter, outputRate, outputAdded, header, outputMain, outputUneven>>
  BY DEF Output!SendPacket, Output!Sending, Output!Left
<1>2. OutputTypes /\ AtRate /\ BlockSent
  BY DEF OutputInv
<1>3. left \in Nat /\ n \in Nat /\ n <= MaxPacket /\ n <= left /\ done \in Nat /\ done <= block.frames[1]
  <2>1. block.frames[1] \in Nat /\ block.done \in Nat /\ MaxPacket \in Nat
    BY <1>2, BlockFields, OutputFacts
  <2>2. left \in Nat
    BY <1>1, <2>1
  <2>3. n \in Nat /\ n <= MaxPacket /\ n <= left
    BY <2>1, <2>2, OutputMin
  <2> HIDE DEF n
  <2> QED
    BY <2>1, <2>2, <2>3
<1>4. packet'.frames = n /\ packet'.rate = header /\ header \in VbanRate \cup {0}
      /\ packet' \in [frames : Nat, rate : VbanRate \cup {0}]
  BY <1>1, <1>2, <1>3 DEF OutputTypes
<1>5. block' = [block EXCEPT !.done = done]
  BY <1>1, <1>4
<1> HIDE DEF left, n, done
<1>6. /\ block' \in BlockType /\ block'.done = done
      /\ block'.at = block.at /\ block'.frames = block.frames /\ block'.nframes = block.nframes
      /\ block'.changed = block.changed /\ block'.failed = block.failed /\ block'.target = block.target
  <2>1. block \in BlockType
    BY <1>2 DEF OutputTypes
  <2> QED
    BY <1>3, <1>5, <2>1 DEF BlockType
<1>7. OutputTypes'
  BY <1>1, <1>2, <1>4, <1>6 DEF OutputTypes
<1>8. AtRate'
  BY <1>1, <1>2 DEF AtRate
<1>9. BlockSent'
  <2>1. ~block.changed /\ block.target \in VbanRate => header = block.target
    BY <1>1, <1>2 DEF BlockSent, AtRate
  <2>2. packet'.frames <= MaxPacket /\ block'.done <= block'.frames[1] /\ block'.at = 3
    BY <1>1, <1>3, <1>4, <1>6
  <2>3. /\ block.at # 0 /\ ~block.changed => outputMain.set # "rate"
        /\ block.at \in {2, 3} /\ ~block.changed => block.target = outputRate
    BY <1>2 DEF BlockSent
  <2> QED
    BY <1>1, <1>4, <1>6, <2>1, <2>2, <2>3 DEF BlockSent
<1>10. FiltersAlike => FiltersAlike'
  BY <1>1, <1>6 DEF FiltersAlike
<1> QED
  BY <1>1, <1>7, <1>8, <1>9, <1>10 DEF OutputInv

\* A block ends.
LEMMA OutputEndInv ==
  ASSUME Output!RemoteOutputAssumption, OutputInv, NEW failed \in BOOLEAN, Output!End(failed)
  PROVE  OutputInv'
<1> DEFINE fails == block.frames[1] - block.done > 0
           a == 0
<1>1. /\ block.at = 3
      /\ block' = [block EXCEPT !.at = a, !.failed = fails]
      /\ UNCHANGED <<outputSocket, outputFilter, outputRate, outputAdded, header, outputMain, packet, outputUneven>>
  BY DEF Output!End, Output!Sending, Output!Left
<1>2. OutputTypes /\ AtRate /\ BlockSent
  BY DEF OutputInv
<1>3. /\ fails \in BOOLEAN /\ a \in 0..3 /\ a = 0
      /\ ~fails => block.done = block.frames[1]
  <2>1. block.frames[1] \in Nat /\ block.done \in Nat /\ block.done <= block.frames[1]
    BY <1>2, BlockFields DEF BlockSent
  <2> QED
    BY <2>1
<1> HIDE DEF fails, a
<1>4. /\ block' \in BlockType /\ block'.at = a /\ block'.failed = fails
      /\ block'.frames = block.frames /\ block'.nframes = block.nframes /\ block'.done = block.done
      /\ block'.changed = block.changed /\ block'.target = block.target
  <2>1. block \in BlockType
    BY <1>2 DEF OutputTypes
  <2> QED
    BY <1>1, <1>3, <2>1 DEF BlockType
<1>5. OutputTypes'
  BY <1>1, <1>2, <1>4 DEF OutputTypes
<1>6. AtRate'
  BY <1>1, <1>2 DEF AtRate
<1>7. BlockSent'
  <2>1. block'.at = 0
    BY <1>3, <1>4
  <2>2. /\ packet.frames <= MaxPacket /\ block.done <= block.frames[1]
        /\ packet # Output!NoPacket /\ ~block.changed /\ block.target \in VbanRate =>
               packet.rate = block.target
    BY <1>2 DEF BlockSent
  <2> QED
    BY <1>1, <1>3, <1>4, <2>1, <2>2 DEF BlockSent
<1>8. FiltersAlike => FiltersAlike'
  BY <1>1, <1>3, <1>4 DEF FiltersAlike
<1> QED
  BY <1>1, <1>5, <1>6, <1>7, <1>8 DEF OutputInv

\* Every step of a remote output keeps the invariant.
LEMMA OutputStepInv ==
  ASSUME Output!RemoteOutputAssumption, OutputInv, [Output!Next]_(Output!vars)
  PROVE  OutputInv'
<1>0. OutputTypes /\ AtRate
  BY DEF OutputInv
<1>1. ASSUME NEW opens \in BOOLEAN, Output!Start(opens) PROVE OutputInv'
  BY <1>1, OutputStartInv
<1>2. CASE Output!Stop
  <2>1. OutputTypes' /\ AtRate'
    BY <1>0, <1>2 DEF Output!Stop, OutputTypes, AtRate
  <2> QED
    BY <1>2, <2>1, OutputUnsent DEF Output!Stop
<1>3. ASSUME NEW d \in OutputDrift, Output!ClockDrift(d) PROVE OutputInv'
  <2>1. /\ outputMain = Output!AtRest /\ outputMain' = [at |-> 1, set |-> "drift"] /\ outputAdded' = d
        /\ UNCHANGED <<outputSocket, outputFilter, outputRate, header, block, packet, outputUneven>>
    BY <1>3 DEF Output!ClockDrift
  <2>2. outputMain' \in [at : 1..2, set : {"drift"}]
    BY <2>1
  <2>3. outputMain.set = "none" /\ outputMain'.set = "drift"
    BY <2>1 DEF Output!AtRest
  <2>4. OutputTypes'
    BY <1>0, <2>1, <2>2 DEF OutputTypes
  <2>5. AtRate'
    BY <1>0, <2>1, <2>3 DEF AtRate
  <2> QED
    BY <2>1, <2>3, <2>4, <2>5, OutputUnsent
<1>4. ASSUME NEW r \in RemoteRate, Output!SetDeviceRate(r) PROVE OutputInv'
  BY <1>4, OutputRateInv
<1>5. CASE Output!AdjustFilter
  BY <1>5, OutputAdjustInv
<1>6. CASE Output!SetHeader
  <2>1. /\ outputMain.at = 3 /\ outputMain' = Output!AtRest
        /\ header' = Output!SampleRateIndex(outputRate, header)
        /\ UNCHANGED <<outputSocket, outputFilter, outputRate, outputAdded, block, packet, outputUneven>>
    BY <1>6 DEF Output!SetHeader
  <2>2. outputMain.set = "rate" /\ outputMain'.set = "none"
    BY <1>0, <2>1, BlockFields DEF Output!AtRest
  <2>3. header' \in VbanRate \cup {0} /\ (outputRate \in VbanRate => header' = outputRate)
    BY <1>0, <2>1 DEF OutputTypes, Output!SampleRateIndex
  <2>4. OutputTypes'
    BY <1>0, <2>1, <2>3 DEF OutputTypes
  <2>5. AtRate'
    BY <1>0, <2>1, <2>2, <2>3 DEF AtRate
  <2> QED
    BY <2>1, <2>2, <2>4, <2>5, OutputUnsent
<1>7. ASSUME NEW n \in OutputFrames, Output!Begin(n) PROVE OutputInv'
  BY <1>7, BeginInv
<1>8. CASE Output!Resample
  BY <1>8, ResampleInv
<1>9. CASE Output!SendPacket
  BY <1>9, SendPacketInv
<1>10. ASSUME NEW failed \in BOOLEAN, Output!End(failed) PROVE OutputInv'
  BY <1>10, OutputEndInv
<1>11. CASE UNCHANGED Output!vars
  <2>1. OutputTypes' /\ AtRate'
    BY <1>0, <1>11 DEF Output!vars, OutputTypes, AtRate
  <2> QED
    BY <1>11, <2>1, OutputUnsent DEF Output!vars
<1> QED
  BY <1>1, <1>2, <1>3, <1>4, <1>5, <1>6, <1>7, <1>8, <1>9, <1>10, <1>11
     DEF Output!Next, Output!MainThread, Output!AudioThread

\* The variables keep their types, no packet is larger than one may be, the packets hold
\* the block, both sides of a block are as long, and the packets name the rate that it was
\* resampled at, for any block sizes, packet size, rates and drifts, however the main
\* thread's changes fall between the two filters' turns, which is what the exceptions
\* `uneven' and `changed' are about (RemoteUdpOutput::sendAudio, RemoteOutputInstance).
THEOREM SentAsResampled ==
  ASSUME Output!RemoteOutputAssumption
  PROVE  Output!Spec => []SentAtItsRate
<1>1. Output!Init => OutputInv
  BY OutputInitInv
<1>2. OutputInv /\ [Output!Next]_(Output!vars) => OutputInv'
  BY OutputStepInv
<1>3. OutputInv => SentAtItsRate
  <2> SUFFICES ASSUME OutputInv
               PROVE  SentAtItsRate
    OBVIOUS
  <2>1. OutputTypes /\ BlockSent
    BY DEF OutputInv
  <2>2. Output!TypeOK
    <3>1. outputFilter \in [Output!Side -> [target : RemoteRate, ratio : Nat \ {0}, delay : Int]]
      BY <2>1 DEF OutputTypes, OutputFilterType
    <3>2. block \in [at : 0..Output!Sending, nframes : Nat, frames : [Output!Side -> Nat], done : Nat,
                     target : RemoteRate \cup {0}, changed : BOOLEAN, failed : BOOLEAN]
      BY <2>1 DEF OutputTypes, BlockType, Output!Side, Output!Sending
    <3>3. outputMain \in [at : 0..3, set : {"none", "drift", "rate"}]
      BY <2>1 DEF OutputTypes, Output!AtRest
    <3> QED
      BY <2>1, <3>1, <3>2, <3>3 DEF OutputTypes, Output!TypeOK
  <2>3. Output!PacketsHoldBlock
    BY <2>1 DEF BlockSent, Output!PacketsHoldBlock
  <2>4. Output!SentAtItsRate
    <3>1. ~outputUneven /\ block.at \in {0, 3} => block.frames[1] = block.frames[2]
      BY DEF OutputInv, FiltersAlike
    <3> QED
      BY <2>1, <3>1 DEF BlockSent, Output!SentAtItsRate, Output!Sending
  <2> QED
    BY <2>2, <2>3, <2>4 DEF SentAtItsRate
<1> QED
  BY <1>1, <1>2, <1>3, PTL DEF Output!Spec
=============================================================================
