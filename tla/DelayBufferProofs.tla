------------------------- MODULE DelayBufferProofs -------------------------
(***************************************************************************)
(* The operator delay (DelayBuffer) for buffers of every size, every delay *)
(* and every number of steps: the ring buffer holds the last rows, the     *)
(* rows no delay reaches are taken out, and what delayImpl answers is what *)
(* it would answer if no row had ever been taken out.                      *)
(*                                                                         *)
(* The bisection of findTime is a recursive function; that it has a value, *)
(* and which, is shown with the least width for which it would not.        *)
(***************************************************************************)
EXTENDS DelayBuffer, SequenceTheorems, WellFoundedInduction, TLAPS

(* The remainder of a place that is at most once around the array. *)
LEMMA WrapOnce ==
  ASSUME NEW s \in Nat \ {0}, NEW x \in 0 .. 2 * s - 1
  PROVE  x % s = IF x < s THEN x ELSE x - s
<1> DEFINE q == x \div s
           r == x % s
<1>1. q \in Int /\ r \in 0 .. s - 1 /\ x = s * q + r
  OBVIOUS
<1> HIDE DEF q, r
<1>2. ~(q < 0)
  <2>1. SUFFICES ASSUME q <= -1 PROVE FALSE
    BY <1>1
  <2>2. s * q <= s * (-1)
    BY <2>1, <1>1
  <2> QED
    BY <2>2, <1>1
<1>3. ~(q > 1)
  <2>1. SUFFICES ASSUME q >= 2 PROVE FALSE
    BY <1>1
  <2>2. s * q >= s * 2
    BY <2>1, <1>1
  <2> QED
    BY <2>2, <1>1
<1>4. q = 0 \/ q = 1
  BY <1>1, <1>2, <1>3
<1>5. r = IF x < s THEN x ELSE x - s
  BY <1>1, <1>4
<1> QED
  BY <1>5 DEF r

(* A ring buffer of items. *)
Ring(rb, Item) == rb.bufferSize \in Nat \ {0} /\ rb \in RingOf(Item, rb.bufferSize)

(* A place once around the end of the array. *)
Wrapped(x, s) == IF x < s THEN x ELSE x - s

(* The fields of a ring buffer. *)
LEMMA RingFacts ==
  ASSUME NEW Item, NEW rb, Ring(rb, Item)
  PROVE  /\ rb.bufferSize \in Nat \ {0}
         /\ rb.firstElement \in 0 .. rb.bufferSize - 1
         /\ rb.nElements \in 0 .. rb.bufferSize
         /\ rb.buffer \in [0 .. rb.bufferSize - 1 -> Item \cup {Zero}]
  BY DEF Ring, RingOf

(* Where getRingData looks: the place of the k-th element, once around the end
   of the array at most. *)
LEMMA Places ==
  ASSUME NEW Item, NEW rb, Ring(rb, Item), NEW k \in 0 .. rb.bufferSize - 1
  PROVE  /\ (rb.firstElement + k) % rb.bufferSize = Wrapped(rb.firstElement + k, rb.bufferSize)
         /\ getRingData(rb, k) = rb.buffer[Wrapped(rb.firstElement + k, rb.bufferSize)]
<1> DEFINE s == rb.bufferSize
           x == rb.firstElement + k
<1>1. s \in Nat \ {0} /\ x \in 0 .. 2 * s - 1
  BY RingFacts
<1> HIDE DEF s, x
<1>2. x % s = Wrapped(x, s)
  BY <1>1, WrapOnce DEF Wrapped
<1> QED
  BY <1>2 DEF s, x, getRingData

(* expandRingBuffer moves the elements and keeps them and their order. *)
LEMMA Expanded ==
  ASSUME NEW Item, NEW rb, Ring(rb, Item)
  PROVE  LET e == expandRingBuffer(rb)
         IN  /\ Ring(e, Item)
             /\ e.nElements = rb.nElements
             /\ e.bufferSize = 2 * rb.bufferSize
             /\ \A k \in 0 .. rb.nElements - 1 : getRingData(e, k) = getRingData(rb, k)
<1> DEFINE e == expandRingBuffer(rb)
           s == rb.bufferSize
           n == rb.nElements
<1>1. s \in Nat \ {0} /\ n \in 0 .. s
  BY RingFacts
<1>2. \A k \in 0 .. n - 1 : getRingData(rb, k) \in Item \cup {Zero}
  <2> TAKE k \in 0 .. n - 1
  <2>1. k \in 0 .. s - 1
    BY <1>1
  <2>2. Wrapped(rb.firstElement + k, s) \in 0 .. s - 1
    BY <2>1, RingFacts DEF Wrapped
  <2>3. getRingData(rb, k) = rb.buffer[Wrapped(rb.firstElement + k, s)]
    BY <2>1, Places
  <2> QED
    BY <2>2, <2>3, RingFacts
<1>3. /\ e.buffer = [k \in 0 .. 2 * s - 1 |-> IF k < n THEN getRingData(rb, k) ELSE Zero]
      /\ e.firstElement = 0 /\ e.nElements = n /\ e.bufferSize = 2 * s
  BY DEF expandRingBuffer
<1>4. e.buffer \in [0 .. 2 * s - 1 -> Item \cup {Zero}]
  BY <1>1, <1>2, <1>3
<1>5. e = [buffer |-> e.buffer, firstElement |-> 0, nElements |-> n, bufferSize |-> 2 * s]
  BY <1>3 DEF expandRingBuffer
<1>6. Ring(e, Item)
  <2>1. 2 * s \in Nat \ {0} /\ 0 \in 0 .. 2 * s - 1 /\ n \in 0 .. 2 * s
    BY <1>1
  <2> HIDE DEF e, s, n
  <2>2. e \in RingOf(Item, 2 * s)
    BY <2>1, <1>4, <1>5 DEF RingOf
  <2> QED
    BY <2>1, <2>2, <1>3 DEF Ring
<1>7. \A k \in 0 .. n - 1 : getRingData(e, k) = getRingData(rb, k)
  <2> TAKE k \in 0 .. n - 1
  <2> HIDE DEF e, s, n
  <2>1. k \in 0 .. e.bufferSize - 1 /\ k < n
    BY <1>1, <1>3
  <2>2. getRingData(e, k) = e.buffer[Wrapped(e.firstElement + k, e.bufferSize)]
    BY <2>1, <1>6, Places
  <2>3. Wrapped(e.firstElement + k, e.bufferSize) = k
    BY <2>1, <1>1, <1>3 DEF Wrapped
  <2> QED
    BY <2>1, <2>2, <2>3, <1>3
<1> QED
  BY <1>3, <1>6, <1>7

(* appendRingData where the buffer is not full. *)
WithRoom(rb, v) ==
    [rb EXCEPT !.buffer[(rb.firstElement + rb.nElements) % rb.bufferSize] = v, !.nElements = @ + 1]

(* An element stored behind the last one, where there is room for it. *)
LEMMA Stored ==
  ASSUME NEW Item, NEW rb, Ring(rb, Item), rb.nElements < rb.bufferSize, NEW v
  PROVE  LET a == WithRoom(rb, v)
         IN  /\ Ring(a, Item \cup {v})
             /\ a.nElements = rb.nElements + 1
             /\ getRingData(a, rb.nElements) = v
             /\ \A k \in 0 .. rb.nElements - 1 : getRingData(a, k) = getRingData(rb, k)
<1> DEFINE s == rb.bufferSize
           n == rb.nElements
           f == rb.firstElement
           p == (f + n) % s
           a == [rb EXCEPT !.buffer[p] = v, !.nElements = @ + 1]
<1>1. /\ s \in Nat \ {0} /\ n \in 0 .. s - 1 /\ f \in 0 .. s - 1
      /\ rb.buffer \in [0 .. s - 1 -> Item \cup {Zero}]
  BY RingFacts
<1>2. p = Wrapped(f + n, s) /\ p \in 0 .. s - 1
  <2>1. \A k \in 0 .. s - 1 : (f + k) % s = Wrapped(f + k, s)
    BY Places
  <2>2. p = Wrapped(f + n, s)
    BY <2>1, <1>1
  <2>3. Wrapped(f + n, s) \in 0 .. s - 1
    BY <1>1 DEF Wrapped
  <2> QED
    BY <2>2, <2>3
<1> HIDE DEF p
<1>3. /\ a.buffer = [rb.buffer EXCEPT ![p] = v] /\ a.firstElement = f
      /\ a.nElements = n + 1 /\ a.bufferSize = s
  BY DEF Ring, RingOf
<1>4. a \in RingOf(Item \cup {v}, s)
  <2>1. [rb.buffer EXCEPT ![p] = v] \in [0 .. s - 1 -> (Item \cup {v}) \cup {Zero}]
    BY <1>1, <1>2
  <2>2. n + 1 \in 0 .. s
    BY <1>1
  <2> QED
    BY <2>1, <2>2 DEF Ring, RingOf
<1> HIDE DEF a
<1>5. Ring(a, Item \cup {v})
  BY <1>1, <1>3, <1>4 DEF Ring
<1> HIDE DEF s, n, f
<1>6. ASSUME NEW k \in 0 .. n
      PROVE  getRingData(a, k) = a.buffer[Wrapped(f + k, s)]
  <2>1. k \in 0 .. a.bufferSize - 1
    BY <1>1, <1>3
  <2> QED
    BY <2>1, <1>3, <1>5, Places
<1>7. getRingData(a, n) = v
  <2>1. getRingData(a, n) = a.buffer[p]
    BY <1>1, <1>2, <1>6
  <2> QED
    BY <2>1, <1>1, <1>2, <1>3
<1>8. ASSUME NEW k \in 0 .. n - 1
      PROVE  getRingData(a, k) = getRingData(rb, k)
  <2>1. k \in 0 .. s - 1 /\ k \in 0 .. n
    BY <1>1
  <2>2. Wrapped(f + k, s) # p /\ Wrapped(f + k, s) \in 0 .. s - 1
    BY <1>1, <1>2 DEF Wrapped
  <2>3. getRingData(rb, k) = rb.buffer[Wrapped(f + k, s)]
    BY <2>1, Places DEF s, f
  <2>4. getRingData(a, k) = a.buffer[Wrapped(f + k, s)]
    BY <2>1, <1>6
  <2> QED
    BY <2>2, <2>3, <2>4, <1>1, <1>3
<1> QED
  BY <1>3, <1>5, <1>7, <1>8 DEF a, s, n, f, p, WithRoom

(* appendRingData adds one element behind the others and keeps those. *)
LEMMA Appended ==
  ASSUME NEW Item, NEW rb, Ring(rb, Item), NEW v
  PROVE  LET a == appendRingData(rb, v)
         IN  /\ Ring(a, Item \cup {v})
             /\ a.nElements = rb.nElements + 1
             /\ getRingData(a, rb.nElements) = v
             /\ \A k \in 0 .. rb.nElements - 1 : getRingData(a, k) = getRingData(rb, k)
<1> DEFINE roomy == IF rb.bufferSize < rb.nElements + 1 THEN expandRingBuffer(rb) ELSE rb
           a == WithRoom(roomy, v)
<1>1. /\ rb.bufferSize \in Nat \ {0}
      /\ rb.nElements \in 0 .. rb.bufferSize
  BY RingFacts
<1>2. /\ Ring(roomy, Item)
      /\ roomy.nElements = rb.nElements
      /\ roomy.nElements < roomy.bufferSize
      /\ \A k \in 0 .. rb.nElements - 1 : getRingData(roomy, k) = getRingData(rb, k)
  <2>1. CASE rb.bufferSize < rb.nElements + 1
    <3> DEFINE e == expandRingBuffer(rb)
    <3>1. roomy = e
      BY <2>1
    <3>2. /\ Ring(e, Item) /\ e.nElements = rb.nElements /\ e.bufferSize = 2 * rb.bufferSize
          /\ \A k \in 0 .. rb.nElements - 1 : getRingData(e, k) = getRingData(rb, k)
      BY Expanded
    <3> HIDE DEF e, roomy
    <3> QED
      BY <3>1, <3>2, <1>1
  <2>2. CASE ~(rb.bufferSize < rb.nElements + 1)
    <3>1. roomy = rb
      BY <2>2
    <3> HIDE DEF roomy
    <3> QED
      BY <3>1, <2>2, <1>1
  <2> QED
    BY <2>1, <2>2
<1>3. appendRingData(rb, v) = a
  BY DEF appendRingData, WithRoom
<1> HIDE DEF roomy
<1>4. /\ Ring(a, Item \cup {v})
      /\ a.nElements = roomy.nElements + 1
      /\ getRingData(a, roomy.nElements) = v
      /\ \A k \in 0 .. roomy.nElements - 1 : getRingData(a, k) = getRingData(roomy, k)
  BY <1>2, Stored
<1> HIDE DEF a
<1> QED
  BY <1>2, <1>3, <1>4

(* dequeueNFirstRingDatas takes the first n elements out and keeps the others. *)
LEMMA Dequeued ==
  ASSUME NEW Item, NEW rb, Ring(rb, Item), NEW n \in 0 .. rb.nElements - 1
  PROVE  LET d == dequeueNFirstRingDatas(rb, n)
         IN  /\ Ring(d, Item)
             /\ d.nElements = rb.nElements - n
             /\ \A k \in 0 .. d.nElements - 1 : getRingData(d, k) = getRingData(rb, k + n)
<1> DEFINE s == rb.bufferSize
           f == rb.firstElement
           p == (f + n) % s
           d == dequeueNFirstRingDatas(rb, n)
<1>1. /\ s \in Nat \ {0} /\ rb.nElements \in 0 .. s /\ f \in 0 .. s - 1 /\ n \in 0 .. s - 1
      /\ rb.nElements - n \in 0 .. s
      /\ rb.buffer \in [0 .. s - 1 -> Item \cup {Zero}]
  BY RingFacts
<1>2. p = Wrapped(f + n, s) /\ p \in 0 .. s - 1
  BY <1>1, Places DEF Wrapped
<1> HIDE DEF p
<1>3. d = [rb EXCEPT !.firstElement = p, !.nElements = @ - n]
  BY DEF p, dequeueNFirstRingDatas
<1> HIDE DEF d
<1>4. /\ d.buffer = rb.buffer /\ d.firstElement = p
      /\ d.nElements = rb.nElements - n /\ d.bufferSize = s
  BY <1>3 DEF Ring, RingOf
<1>5. d \in RingOf(Item, s)
  BY <1>1, <1>2, <1>3 DEF Ring, RingOf
<1>6. Ring(d, Item)
  BY <1>1, <1>4, <1>5 DEF Ring
<1> HIDE DEF s, f
<1>7. ASSUME NEW k \in 0 .. d.nElements - 1
      PROVE  getRingData(d, k) = getRingData(rb, k + n)
  <2>1. k \in 0 .. s - 1 /\ k + n \in 0 .. s - 1 /\ k \in 0 .. d.bufferSize - 1
    BY <1>1, <1>4
  <2>2. Wrapped(p + k, s) = Wrapped(f + (k + n), s)
    BY <2>1, <1>1, <1>2 DEF Wrapped
  <2>3. getRingData(d, k) = d.buffer[Wrapped(d.firstElement + k, d.bufferSize)]
    BY <2>1, <1>6, Places
  <2>4. getRingData(rb, k + n) = rb.buffer[Wrapped(f + (k + n), s)]
    BY <2>1, Places DEF s, f
  <2> QED
    BY <2>2, <2>3, <2>4, <1>4
<1> QED
  BY <1>4, <1>6, <1>7 DEF d

(* Every set of natural numbers that is not empty has a least one: with it a
   property of all natural numbers is shown by its least counterexample. *)
LEMMA LeastNatural ==
  ASSUME NEW S, S \subseteq Nat, S # {}
  PROVE  \E n \in S : \A m \in S : n <= m
<1> DEFINE R == {ss \in Nat \X Nat : ss[1] < ss[2]}
<1>1. IsWellFoundedOn(R, Nat)
  BY NatLessThanWellFounded DEF OpToRel
<1> HIDE DEF R
<1>2. PICK n \in S : \A m \in S : ~(<<m, n>> \in R)
  BY <1>1, WFMin
<1>3. ASSUME NEW m \in S
      PROVE  n <= m
  <2>1. ~(<<m, n>> \in R)
    BY <1>2
  <2>2. m \in Nat /\ n \in Nat
    OBVIOUS
  <2>3. <<m, n>>[1] = m /\ <<m, n>>[2] = n
    OBVIOUS
  <2>4. ~(m < n)
    BY <2>1, <2>2 DEF R
  <2> QED
    BY <2>2, <2>4
<1> QED
  BY <1>3

(* The parts of a tail recursive definition: the next argument, whether it goes
   on, the value where it does not, and a rank that goes down. *)
TailRecursive(W, V, next, goes, out, rank, N) ==
    /\ next \in [W -> W] /\ goes \in [W -> BOOLEAN] /\ out \in [W -> V]
    /\ N \in Nat /\ rank \in [W -> 0 .. N]
    /\ \A w \in W : goes[w] => rank[next[w]] < rank[w]

Solution(f, W, V, next, goes, out) ==
    /\ f \in [W -> V]
    /\ \A w \in W : f[w] = IF goes[w] THEN f[next[w]] ELSE out[w]

(* A tail recursive definition whose rank goes down has a solution. *)
LEMMA TailRecursion ==
  ASSUME NEW W, NEW V, NEW next, NEW goes, NEW out, NEW rank, NEW N,
         TailRecursive(W, V, next, goes, out, rank, N)
  PROVE  \E f : Solution(f, W, V, next, goes, out)
<1> USE DEF TailRecursive
<1> DEFINE Solves(f, n) ==
               \A w \in W : rank[w] <= n => f[w] = IF goes[w] THEN f[next[w]] ELSE out[w]
           Unsolved == {n \in Nat : ~\E f \in [W -> V] : Solves(f, n)}
<1>1. ASSUME NEW n \in Nat, NEW f \in [W -> V], Solves(f, n)
      PROVE  n + 1 \notin Unsolved
  <2> DEFINE g == [w \in W |-> IF rank[w] <= n THEN f[w]
                               ELSE IF goes[w] THEN f[next[w]] ELSE out[w]]
  <2>1. g \in [W -> V]
    OBVIOUS
  <2>2. ASSUME NEW w \in W, rank[w] <= n + 1
        PROVE  g[w] = IF goes[w] THEN g[next[w]] ELSE out[w]
    <3>1. CASE goes[w]
      <4>1. next[w] \in W /\ rank[next[w]] < rank[w] /\ rank[w] \in 0 .. N /\ rank[next[w]] \in 0 .. N
        BY <3>1
      <4>2. rank[next[w]] <= n
        BY <4>1, <2>2
      <4>3. g[next[w]] = f[next[w]]
        BY <4>1, <4>2
      <4>4. g[w] = f[next[w]]
        BY <1>1, <3>1
      <4> QED
        BY <3>1, <4>3, <4>4
    <3>2. CASE ~goes[w]
      BY <1>1, <3>2
    <3> QED
      BY <3>1, <3>2
  <2> HIDE DEF g
  <2>3. Solves(g, n + 1)
    BY <2>2
  <2> QED
    BY <2>1, <2>3
<1>2. 0 \notin Unsolved
  <2>1. \A w \in W : rank[w] <= 0 => ~goes[w]
    OBVIOUS
  <2>2. Solves(out, 0)
    BY <2>1
  <2> QED
    BY <2>2
<1>3. Unsolved = {}
  <2>1. SUFFICES ASSUME Unsolved # {}
                 PROVE  FALSE
    OBVIOUS
  <2>2. PICK n \in Unsolved : \A m \in Unsolved : n <= m
    BY <2>1, LeastNatural
  <2>3. n \in Nat /\ n # 0
    BY <1>2
  <2>4. n - 1 \in Nat /\ n - 1 \notin Unsolved
    <3> HIDE DEF Unsolved
    <3> QED
      BY <2>2, <2>3
  <2>5. PICK f \in [W -> V] : Solves(f, n - 1)
    BY <2>4
  <2>6. (n - 1) + 1 \notin Unsolved
    BY <2>4, <2>5, <1>1
  <2> QED
    BY <2>3, <2>6
<1>4. PICK f \in [W -> V] : Solves(f, N)
  BY <1>3
<1>5. \A w \in W : rank[w] <= N
  OBVIOUS
<1> QED
  BY <1>4, <1>5 DEF Solution

(* The arguments of the search of findTime, and its local definitions. *)
Windows(rb) == (0 .. rb.nElements) \X (0 .. rb.nElements)
Middle(w) == (w[1] + w[2]) \div 2
Half(time, rb, w) ==
    IF getRingData(rb, Middle(w)).t > time THEN <<w[1], Middle(w)>> ELSE <<Middle(w), w[2]>>
Narrows(time, rb, w) ==
    /\ getRingData(rb, Middle(w)).t # time
    /\ Half(time, rb, w)[2] > Half(time, rb, w)[1] + 1
Width(w) == IF w[2] > w[1] THEN w[2] - w[1] ELSE 0

(* A window of the bisection is halved into a window, and where the search goes
   on into a narrower one. *)
LEMMA WindowFacts ==
  ASSUME NEW time, NEW rb, rb.nElements \in Nat, NEW w \in Windows(rb)
  PROVE  /\ w[1] \in 0 .. rb.nElements /\ w[2] \in 0 .. rb.nElements /\ w = <<w[1], w[2]>>
         /\ Middle(w) \in 0 .. rb.nElements
         /\ Half(time, rb, w) \in Windows(rb)
         /\ Width(w) \in 0 .. rb.nElements
         /\ Narrows(time, rb, w) => Width(Half(time, rb, w)) < Width(w)
<1>1. w[1] \in 0 .. rb.nElements /\ w[2] \in 0 .. rb.nElements /\ w = <<w[1], w[2]>>
  BY DEF Windows
<1>2. Middle(w) \in 0 .. rb.nElements
  BY <1>1 DEF Middle
<1>3. Half(time, rb, w) = <<w[1], Middle(w)>> \/ Half(time, rb, w) = <<Middle(w), w[2]>>
  BY DEF Half
<1>4. Half(time, rb, w) \in Windows(rb)
  BY <1>1, <1>2, <1>3 DEF Windows
<1>5. Width(w) \in 0 .. rb.nElements
  BY <1>1 DEF Width
<1>6. ASSUME Narrows(time, rb, w)
      PROVE  Width(Half(time, rb, w)) < Width(w)
  <2>1. Half(time, rb, w)[2] > Half(time, rb, w)[1] + 1
    BY <1>6 DEF Narrows
  <2>2. CASE Half(time, rb, w) = <<w[1], Middle(w)>>
    BY <1>1, <2>1, <2>2 DEF Middle, Width
  <2>3. CASE Half(time, rb, w) = <<Middle(w), w[2]>>
    BY <1>1, <2>1, <2>3 DEF Middle, Width
  <2> QED
    BY <1>3, <2>2, <2>3
<1> QED
  BY <1>1, <1>2, <1>4, <1>5, <1>6

(* The local function of findTime fulfils its own equation. *)
LEMMA SearchSolved ==
  ASSUME NEW time, NEW rb, rb.nElements \in Nat
  PROVE  \E f :
            /\ f[<<0, rb.nElements>>] = findTime(time, rb)
            /\ \A w \in Windows(rb) :
                  f[w] = IF Narrows(time, rb, w) THEN f[Half(time, rb, w)] ELSE Half(time, rb, w)[1]
<1> DEFINE W == Windows(rb)
           Search(f) == [w \in W |-> IF Narrows(time, rb, w) THEN f[Half(time, rb, w)]
                                     ELSE Half(time, rb, w)[1]]
           next == [w \in W |-> Half(time, rb, w)]
           goes == [w \in W |-> Narrows(time, rb, w)]
           out == [w \in W |-> Half(time, rb, w)[1]]
           rank == [w \in W |-> Width(w)]
<1>1. \A w \in W : Narrows(time, rb, w) \in BOOLEAN
  BY DEF Narrows
<1>2. \A w \in W : Half(time, rb, w)[1] \in Int
  BY WindowFacts DEF Windows
<1>3. /\ next \in [W -> W] /\ goes \in [W -> BOOLEAN] /\ out \in [W -> Int]
      /\ rank \in [W -> 0 .. rb.nElements]
      /\ \A w \in W : goes[w] => rank[next[w]] < rank[w]
  BY <1>1, <1>2, WindowFacts
<1>4. \A w \in W : /\ next[w] = Half(time, rb, w) /\ goes[w] = Narrows(time, rb, w)
                   /\ out[w] = Half(time, rb, w)[1]
  OBVIOUS
<1> HIDE DEF W, next, goes, out, rank
<1>5. PICK f : Solution(f, W, Int, next, goes, out)
  <2>1. TailRecursive(W, Int, next, goes, out, rank, rb.nElements)
    BY <1>3 DEF TailRecursive
  <2> QED
    BY <2>1, TailRecursion
<1>6. f = Search(f)
  BY <1>4, <1>5 DEF Solution
<1>7. PICK g : g = CHOOSE h : h = Search(h)
  OBVIOUS
<1>8. g = Search(g)
  BY <1>6, <1>7
<1>9. findTime(time, rb) = g[<<0, rb.nElements>>]
  BY <1>7 DEF findTime, ringBufferLength, Narrows, Half, Middle, W, Windows
<1> QED
  BY <1>8, <1>9 DEF W

(* Row i of the buffer is the last one that is not after the time, or the first. *)
Located(i, time, rb) ==
    /\ i \in 0 .. rb.nElements - 1
    /\ i = 0 \/ getRingData(rb, i).t <= time
    /\ \/ getRingData(rb, i).t = time
       \/ i + 1 = rb.nElements
       \/ getRingData(rb, i + 1).t > time

(* The window starts not after the time and ends after it. *)
Surrounds(w, time, rb) ==
    /\ w \in Windows(rb)
    /\ w[1] < w[2]
    /\ w[1] = 0 \/ getRingData(rb, w[1]).t <= time
    /\ w[2] = rb.nElements \/ getRingData(rb, w[2]).t > time

(* Half of a window that surrounds the time surrounds it too, and where the
   search ends the first row of the half is the one looked for. *)
LEMMA Halved ==
  ASSUME NEW time \in Int, NEW rb, rb.nElements \in Nat,
         \A k \in 0 .. rb.nElements - 1 : getRingData(rb, k).t \in Int,
         NEW w, Surrounds(w, time, rb)
  PROVE  IF Narrows(time, rb, w) THEN Surrounds(Half(time, rb, w), time, rb)
         ELSE Located(Half(time, rb, w)[1], time, rb)
<1> DEFINE n == rb.nElements
           m == Middle(w)
           t(k) == getRingData(rb, k).t
<1>1. /\ w[1] \in 0 .. n /\ w[2] \in 0 .. n /\ w[1] < w[2]
      /\ w[1] = 0 \/ t(w[1]) <= time
      /\ w[2] = n \/ t(w[2]) > time
  BY DEF Surrounds, Windows
<1>2. m \in w[1] .. w[2] - 1 /\ (m = w[1] => w[2] = w[1] + 1)
  BY <1>1 DEF Middle
<1>3. t(m) \in Int
  BY <1>1, <1>2
<1> HIDE DEF m
<1>4. CASE t(m) > time
  <2>1. Half(time, rb, w) = <<w[1], m>>
    BY <1>4 DEF Half, m
  <2>2. Narrows(time, rb, w) <=> m > w[1] + 1
    BY <1>3, <1>4, <2>1 DEF Narrows, m
  <2>3. CASE m > w[1] + 1
    <3>1. Surrounds(<<w[1], m>>, time, rb)
      BY <1>1, <1>2, <1>4, <2>3 DEF Surrounds, Windows
    <3> QED
      BY <2>1, <2>2, <2>3, <3>1
  <2>4. CASE ~(m > w[1] + 1)
    <3>1. m = w[1] \/ m = w[1] + 1
      BY <1>1, <1>2, <2>4
    <3>2. CASE m = w[1]
      <4>1. w[1] = 0 /\ w[2] = 1
        BY <1>1, <1>2, <1>3, <1>4, <3>2
      <4>2. Located(w[1], time, rb)
        BY <4>1, <1>1 DEF Located
      <4> QED
        BY <2>1, <2>2, <2>4, <4>2
    <3>3. CASE m = w[1] + 1
      <4>1. Located(w[1], time, rb)
        BY <3>3, <1>1, <1>2, <1>4 DEF Located
      <4> QED
        BY <2>1, <2>2, <2>4, <4>1
    <3> QED
      BY <3>1, <3>2, <3>3
  <2> QED
    BY <2>3, <2>4
<1>5. CASE ~(t(m) > time)
  <2>1. Half(time, rb, w) = <<m, w[2]>>
    BY <1>5 DEF Half, m
  <2>2. Narrows(time, rb, w) <=> t(m) # time /\ w[2] > m + 1
    BY <2>1 DEF Narrows, m
  <2>3. t(m) <= time
    BY <1>3, <1>5
  <2>4. CASE t(m) # time /\ w[2] > m + 1
    <3>1. Surrounds(<<m, w[2]>>, time, rb)
      BY <1>1, <1>2, <2>3, <2>4 DEF Surrounds, Windows
    <3> QED
      BY <2>1, <2>2, <2>4, <3>1
  <2>5. CASE ~(t(m) # time /\ w[2] > m + 1)
    <3>1. t(m) = time \/ w[2] = m + 1
      BY <1>1, <1>2, <2>5
    <3>2. Located(m, time, rb)
      BY <3>1, <1>1, <1>2, <2>3 DEF Located
    <3> QED
      BY <2>1, <2>2, <2>5, <3>2
  <2> QED
    BY <2>4, <2>5
<1> QED
  BY <1>4, <1>5

(* What findTime returns, whatever the rows are. *)
LEMMA FindTime ==
  ASSUME NEW time \in Int, NEW rb, rb.nElements \in Nat, rb.nElements > 0,
         \A k \in 0 .. rb.nElements - 1 : getRingData(rb, k).t \in Int
  PROVE  Located(findTime(time, rb), time, rb)
<1>1. PICK f : /\ f[<<0, rb.nElements>>] = findTime(time, rb)
               /\ \A w \in Windows(rb) :
                     f[w] = IF Narrows(time, rb, w) THEN f[Half(time, rb, w)]
                            ELSE Half(time, rb, w)[1]
  BY SearchSolved
<1> DEFINE Wrong(w) == Surrounds(w, time, rb) /\ ~Located(f[w], time, rb)
           Widths == {Width(w) : w \in {v \in Windows(rb) : Wrong(v)}}
<1>2. Widths = {}
  <2>1. SUFFICES ASSUME Widths # {}
                 PROVE  FALSE
    OBVIOUS
  <2>2. Widths \subseteq Nat
    BY WindowFacts
  <2>3. PICK k \in Widths : \A l \in Widths : k <= l
    BY <2>1, <2>2, LeastNatural
  <2>4. PICK w \in Windows(rb) : Wrong(w) /\ Width(w) = k
    BY <2>3
  <2> DEFINE h == Half(time, rb, w)
  <2>5. /\ h \in Windows(rb) /\ Width(h) \in Nat /\ Width(w) \in Nat
        /\ Narrows(time, rb, w) => Width(h) < Width(w)
    <3>1. /\ h \in Windows(rb) /\ Width(w) \in 0 .. rb.nElements
          /\ Narrows(time, rb, w) => Width(h) < Width(w)
      BY <2>4, WindowFacts
    <3> HIDE DEF h
    <3>2. Width(h) \in 0 .. rb.nElements
      BY <3>1, WindowFacts
    <3> QED
      BY <3>1, <3>2
  <2>6. f[w] = IF Narrows(time, rb, w) THEN f[h] ELSE h[1]
    BY <1>1, <2>4
  <2>7. IF Narrows(time, rb, w) THEN Surrounds(h, time, rb) ELSE Located(h[1], time, rb)
    BY <2>4, Halved
  <2> HIDE DEF h
  <2>8. CASE Narrows(time, rb, w)
    <3>1. Wrong(h)
      BY <2>4, <2>6, <2>7, <2>8
    <3>2. Width(h) \in Widths
      BY <2>5, <3>1
    <3>3. Width(w) <= Width(h)
      BY <2>3, <2>4, <3>2
    <3> QED
      BY <2>5, <2>8, <3>3
  <2>9. CASE ~Narrows(time, rb, w)
    BY <2>4, <2>6, <2>7, <2>9
  <2> QED
    BY <2>8, <2>9
<1>3. Surrounds(<<0, rb.nElements>>, time, rb) /\ <<0, rb.nElements>> \in Windows(rb)
  BY DEF Surrounds, Windows
<1> QED
  BY <1>1, <1>2, <1>3

(* The rows of TypeOK. *)
RowType == [t : Int, value : 1 .. MaxRows]

Sorted(rows) == \A j, k \in 1 .. Len(rows) : j <= k => rows[j].t <= rows[k].t

(* The buffer holds the last rows. *)
Mirrors(rb, rows) ==
    /\ rb.nElements \in 0 .. Len(rows)
    /\ \A k \in 0 .. rb.nElements - 1 :
          getRingData(rb, k) = rows[Len(rows) - rb.nElements + 1 + k]

(* The rows of a buffer that mirrors sorted rows have their type and are sorted. *)
LEMMA MirrorFacts ==
  ASSUME NEW rb, NEW rows \in Seq(RowType), Mirrors(rb, rows), Sorted(rows)
  PROVE  /\ \A k \in 0 .. rb.nElements - 1 : getRingData(rb, k) \in RowType
         /\ \A k \in 0 .. rb.nElements - 1 : getRingData(rb, k).t \in Int
         /\ \A j, k \in 0 .. rb.nElements - 1 :
               j <= k => getRingData(rb, j).t <= getRingData(rb, k).t
<1> DEFINE n == rb.nElements
<1>1. n \in 0 .. Len(rows) /\ Len(rows) \in Nat
  BY DEF Mirrors
<1>2. \A k \in 0 .. n - 1 :
         /\ Len(rows) - n + 1 + k \in 1 .. Len(rows)
         /\ getRingData(rb, k) = rows[Len(rows) - n + 1 + k]
  BY <1>1 DEF Mirrors
<1>3. \A k \in 1 .. Len(rows) : rows[k] \in RowType
  OBVIOUS
<1>4. \A k \in 0 .. n - 1 : getRingData(rb, k) \in RowType
  BY <1>2, <1>3
<1>5. \A k \in 0 .. n - 1 : getRingData(rb, k).t \in Int
  BY <1>4 DEF RowType
<1>6. ASSUME NEW j \in 0 .. n - 1, NEW k \in 0 .. n - 1, j <= k
      PROVE  getRingData(rb, j).t <= getRingData(rb, k).t
  <2> DEFINE p == Len(rows) - n + 1 + j
             q == Len(rows) - n + 1 + k
  <2>1. p \in 1 .. Len(rows) /\ q \in 1 .. Len(rows) /\ p <= q
    BY <1>1, <1>2, <1>6
  <2>2. rows[p].t <= rows[q].t
    BY <2>1 DEF Sorted
  <2> QED
    BY <1>2, <2>2
<1> QED
  BY <1>4, <1>5, <1>6

(* Trimmed keeps the last rows; of these at most two are before the bound, and
   the first is not after it where rows were taken out. *)
LEMMA Trim ==
  ASSUME NEW Item, NEW rb, Ring(rb, Item), rb.nElements > 0, NEW bound \in Int,
         NEW rows \in Seq(RowType), Mirrors(rb, rows), Sorted(rows)
  PROVE  LET d == Trimmed(rb, bound)
         IN  /\ Ring(d, Item)
             /\ Mirrors(d, rows)
             /\ d.nElements \in 1 .. rb.nElements
             /\ \A k \in 2 .. d.nElements - 1 : getRingData(d, k).t >= bound
             /\ d.nElements < rb.nElements => getRingData(d, 0).t <= bound
             /\ d.nElements = rb.nElements => getRingData(d, 0) = getRingData(rb, 0)
<1> DEFINE i == findTime(bound, rb)
           d == Trimmed(rb, bound)
           n == rb.nElements
           t(k) == getRingData(rb, k).t
<1>1. n \in Nat /\ n > 0
  BY RingFacts
<1>2. /\ \A k \in 0 .. n - 1 : t(k) \in Int
      /\ \A j, k \in 0 .. n - 1 : j <= k => t(j) <= t(k)
  BY MirrorFacts
<1>3. Located(i, bound, rb)
  BY <1>1, <1>2, FindTime
<1> HIDE DEF i
<1>4. /\ i \in 0 .. n - 1
      /\ i = 0 \/ t(i) <= bound
      /\ t(i) = bound \/ i + 1 = n \/ t(i + 1) > bound
  BY <1>3 DEF Located
<1>5. \A k \in i + 1 .. n - 1 : t(k) >= bound
  <2> TAKE k \in i + 1 .. n - 1
  <2>1. k \in 0 .. n - 1 /\ i <= k /\ i + 1 \in 0 .. n - 1 /\ i + 1 <= k /\ i + 1 # n
    BY <1>1, <1>4
  <2>2. CASE t(i) = bound
    BY <1>2, <1>4, <2>1, <2>2
  <2>3. CASE t(i + 1) > bound
    BY <1>2, <1>4, <2>1, <2>3
  <2> QED
    BY <1>4, <2>1, <2>2, <2>3
<1>6. CASE i > 0
  <2>1. d = dequeueNFirstRingDatas(rb, i - 1)
    BY <1>6 DEF Trimmed, i
  <2>2. i - 1 \in 0 .. rb.nElements - 1
    BY <1>1, <1>4, <1>6
  <2>3. /\ Ring(d, Item)
        /\ d.nElements = n - (i - 1)
        /\ \A k \in 0 .. d.nElements - 1 : getRingData(d, k) = getRingData(rb, k + (i - 1))
    BY <2>1, <2>2, Dequeued
  <2> HIDE DEF d
  <2>4. Mirrors(d, rows)
    <3>1. n \in 0 .. Len(rows) /\ Len(rows) \in Nat
      BY DEF Mirrors
    <3>2. d.nElements \in 0 .. Len(rows)
      BY <1>4, <1>6, <2>3, <3>1
    <3>3. ASSUME NEW k \in 0 .. d.nElements - 1
          PROVE  getRingData(d, k) = rows[Len(rows) - d.nElements + 1 + k]
      <4>1. k + (i - 1) \in 0 .. n - 1
        BY <1>1, <1>4, <1>6, <2>3
      <4>2. getRingData(rb, k + (i - 1)) = rows[Len(rows) - n + 1 + (k + (i - 1))]
        BY <4>1 DEF Mirrors
      <4>3. k \in Int /\ i \in Int /\ n \in Int /\ Len(rows) \in Int /\ d.nElements = n - (i - 1)
        BY <1>1, <1>4, <2>3, <3>1, <3>2
      <4> HIDE DEF n
      <4>4. Len(rows) - n + 1 + (k + (i - 1)) = Len(rows) - d.nElements + 1 + k
        BY <4>3
      <4> QED
        BY <2>3, <4>2, <4>4
    <3> QED
      BY <3>2, <3>3 DEF Mirrors
  <2>5. ASSUME NEW k \in 2 .. d.nElements - 1
        PROVE  getRingData(d, k).t >= bound
    <3>1. k \in 0 .. d.nElements - 1 /\ k + (i - 1) \in i + 1 .. n - 1
      BY <1>1, <1>4, <2>3
    <3> QED
      BY <2>3, <1>5, <3>1
  <2>6. getRingData(d, 0).t <= bound
    <3>1. getRingData(d, 0) = getRingData(rb, i - 1)
      BY <1>1, <1>4, <1>6, <2>3
    <3>2. t(i - 1) <= t(i) /\ t(i) <= bound /\ t(i - 1) \in Int /\ t(i) \in Int
      BY <1>1, <1>2, <1>4, <1>6
    <3> QED
      BY <3>1, <3>2
  <2>7. d.nElements = n => getRingData(d, 0) = getRingData(rb, 0)
    BY <1>1, <1>4, <1>6, <2>3
  <2>8. d.nElements \in 1 .. n
    BY <1>1, <1>4, <1>6, <2>3
  <2> QED
    BY <2>3, <2>4, <2>5, <2>6, <2>7, <2>8 DEF d
<1>7. CASE ~(i > 0)
  <2>1. d = rb
    BY <1>7 DEF Trimmed, i
  <2>2. \A k \in 2 .. n - 1 : k \in i + 1 .. n - 1
    BY <1>1, <1>4, <1>7
  <2>3. \A k \in 2 .. n - 1 : t(k) >= bound
    BY <1>5, <2>2
  <2> HIDE DEF d
  <2>4. n \in 1 .. n /\ ~(n < n)
    BY <1>1
  <2> QED
    BY <2>1, <2>3, <2>4 DEF d
<1> QED
  BY <1>4, <1>6, <1>7

(* The rows that were stored start at the start time, their times do not go back
   and are an even number of units apart. *)
HistoryInv ==
    /\ history # <<>> => history[1].t = tStart
    /\ Sorted(history)
    /\ \A k \in Rows : (history[k].t - tStart) % 2 = 0

(* The buffer holds the last of them; where one was taken out the first that is
   left is not after any time a delay can ask for; after the second there are
   only rows a delay reaches. *)
BufferInv ==
    /\ Mirrors(delayStruct, history)
    /\ history # <<>> => delayStruct.nElements > 0
    /\ delayStruct.nElements < Len(history)
          => getRingData(delayStruct, 0).t <= LastTime - delayMax
    /\ \A k \in 2 .. delayStruct.nElements - 1 :
          getRingData(delayStruct, k).t >= LastTime - delayMax

(* The inductive invariant. *)
DelayInv == TypeOK /\ HistoryInv /\ BufferInv

(* The rows as a set. *)
Items(rows) == {rows[k] : k \in 1 .. Len(rows)}

(* TypeOK in the terms of the lemmas on ring buffers. *)
LEMMA TypeFacts ==
  TypeOK <=> /\ tStart \in Int /\ delayMax \in Delays
             /\ Ring(delayStruct, Items(history))
             /\ history \in Seq(RowType)
  BY DEF TypeOK, Ring, Items, Rows, RowType

(* The invariant holds when the buffer has been allocated. *)
LEMMA InitInv ==
  Init => DelayInv
<1> SUFFICES ASSUME Init
             PROVE  DelayInv
  OBVIOUS
<1> USE DelayAssumption DEF Init
<1>1. /\ history = <<>> /\ history \in Seq(RowType) /\ Len(history) = 0
      /\ tStart \in Int /\ delayMax \in Delays
  OBVIOUS
<1> DEFINE size == IF BufferSize > 0 THEN BufferSize ELSE 1
<1>2. size \in Nat \ {0}
  OBVIOUS
<1>3. delayStruct = [buffer |-> [k \in 0 .. size - 1 |-> Zero], firstElement |-> 0,
                     nElements |-> 0, bufferSize |-> size]
  BY DEF allocRingBuffer
<1> HIDE DEF size
<1>4. delayStruct \in RingOf(Items(history), size) /\ delayStruct.bufferSize = size
      /\ delayStruct.nElements = 0
  BY <1>2, <1>3 DEF RingOf
<1>5. TypeOK
  BY <1>1, <1>2, <1>4, TypeFacts DEF Ring
<1>6. HistoryInv
  BY <1>1 DEF HistoryInv, Sorted, Rows
<1>7. BufferInv
  BY <1>1, <1>4 DEF BufferInv, Mirrors
<1> QED
  BY <1>5, <1>6, <1>7 DEF DelayInv

(* What the invariant says of the times. *)
LEMMA TimeFacts ==
  ASSUME DelayInv
  PROVE  /\ LastTime \in Int /\ tStart \in Int /\ tStart <= LastTime
         /\ (LastTime - tStart) % 2 = 0
         /\ delayMax \in Nat /\ delayMax % 2 = 0
         /\ \A k \in Rows : /\ history[k] \in RowType /\ history[k].t \in Int
                            /\ tStart <= history[k].t /\ history[k].t <= LastTime
         /\ Len(history) \in Nat /\ (history # <<>> <=> Len(history) > 0)
<1>1. tStart \in Int /\ delayMax \in Delays /\ history \in Seq(RowType) /\ HistoryInv
  BY TypeFacts DEF DelayInv
<1>2. delayMax \in Nat /\ delayMax % 2 = 0
  BY <1>1, DelayAssumption
<1>3. Len(history) \in Nat /\ (history # <<>> <=> Len(history) > 0)
  BY <1>1
<1>4. \A k \in Rows : history[k] \in RowType /\ history[k].t \in Int
  <2>1. \A k \in Rows : history[k] \in RowType
    BY <1>1 DEF Rows
  <2> QED
    BY <2>1 DEF RowType
<1>5. CASE history = <<>>
  BY <1>1, <1>2, <1>3, <1>4, <1>5 DEF LastTime, Rows
<1>6. CASE history # <<>>
  <2>1. LastTime = history[Len(history)].t /\ Len(history) \in Rows /\ 1 \in Rows
    BY <1>3, <1>6 DEF LastTime, Rows
  <2>2. LastTime \in Int /\ (LastTime - tStart) % 2 = 0
    BY <1>1, <1>4, <2>1 DEF HistoryInv
  <2>3. ASSUME NEW k \in Rows
        PROVE  tStart <= history[k].t /\ history[k].t <= LastTime
    <3>1. k \in 1 .. Len(history) /\ 1 <= k /\ k <= Len(history)
      BY <1>3 DEF Rows
    <3>2. history[1].t <= history[k].t /\ history[k].t <= history[Len(history)].t
      BY <1>1, <1>3, <2>1, <3>1 DEF HistoryInv, Sorted, Rows
    <3> QED
      BY <1>1, <1>6, <2>1, <3>2 DEF HistoryInv
  <2> QED
    BY <1>1, <1>2, <1>3, <1>4, <2>1, <2>2, <2>3
<1> QED
  BY <1>5, <1>6

(* storeDelayedExpression keeps the invariant, whichever bound rounding gives. *)
LEMMA StoreKeeps ==
  ASSUME DelayInv, NEW time \in Int, LastTime <= time, (time - tStart) % 2 = 0,
         history = <<>> => time = tStart, Len(history) < MaxRows,
         storeDelayedExpression(time), UNCHANGED <<tStart, delayMax>>
  PROVE  DelayInv'
<1> DEFINE row == Row(time, Len(history) + 1)
           rows == history'
           L == Len(history)
           a == appendRingData(delayStruct, row)
<1>1. /\ tStart \in Int /\ delayMax \in Nat /\ delayMax % 2 = 0 /\ delayMax \in Delays
      /\ L \in Nat /\ Ring(delayStruct, Items(history)) /\ history \in Seq(RowType)
      /\ HistoryInv /\ BufferInv /\ LastTime \in Int /\ Mirrors(delayStruct, history)
  BY TimeFacts, TypeFacts DEF DelayInv, BufferInv
<1>2. row \in RowType /\ row.t = time
  BY <1>1, DelayAssumption DEF Row, RowType
<1> HIDE DEF row
<1>3. /\ rows = Append(history, row) /\ rows \in Seq(RowType) /\ Len(rows) = L + 1
      /\ \A k \in 1 .. L : rows[k] = history[k]
      /\ rows[L + 1] = row /\ rows # <<>>
  BY <1>1, <1>2 DEF storeDelayedExpression, row
<1>4. PICK bound \in Bounds(time) : delayStruct' = Trimmed(a, bound)
  BY DEF storeDelayedExpression, row
<1>5. bound \in Int /\ time - delayMax <= bound /\ bound <= time - delayMax + 1
  BY <1>1 DEF Bounds
<1> HIDE DEF rows, a, L
<1>6. LastTime' = time
  BY <1>2, <1>3 DEF LastTime, rows
<1>7. \A k \in 1 .. L : history[k].t <= time /\ history[k].t \in Int
  BY <1>1, <1>2, TimeFacts DEF Rows, L
<1>8. HistoryInv'
  <2>1. rows[1].t = tStart
    BY <1>1, <1>2, <1>3, TimeFacts DEF HistoryInv, L
  <2>2. Sorted(rows)
    BY <1>1, <1>2, <1>3, <1>7 DEF HistoryInv, Sorted, L
  <2>3. \A k \in 1 .. L + 1 : (rows[k].t - tStart) % 2 = 0
    BY <1>1, <1>2, <1>3 DEF HistoryInv, Rows, L
  <2> QED
    BY <1>3, <2>1, <2>2, <2>3 DEF HistoryInv, Rows, rows
<1>9. /\ Ring(a, Items(history) \cup {row})
      /\ a.nElements = delayStruct.nElements + 1
      /\ getRingData(a, delayStruct.nElements) = row
      /\ \A k \in 0 .. delayStruct.nElements - 1 : getRingData(a, k) = getRingData(delayStruct, k)
  <2>1. Ring(delayStruct, Items(history))
    BY <1>1
  <2> QED
    <3> DEFINE rb == delayStruct
    <3>1. a = appendRingData(rb, row) /\ Ring(rb, Items(history))
      BY <2>1 DEF a
    <3> HIDE DEF rb
    <3> QED
      BY <3>1, Appended DEF rb
<1> DEFINE n == delayStruct.nElements
<1>10. n \in 0 .. L /\ n \in Nat /\ L \in Nat /\ a.nElements = n + 1
  BY <1>1, <1>9 DEF Mirrors, L
<1> HIDE DEF n
<1>11. Items(history) \cup {row} = Items(rows)
  BY <1>1, <1>3 DEF Items, L
<1>12. Mirrors(a, rows)
  <2>1. a.nElements = n + 1 /\ a.nElements \in 0 .. Len(rows) /\ Len(rows) - a.nElements = L - n
    BY <1>3, <1>10
  <2>2. ASSUME NEW k \in 0 .. n
        PROVE  getRingData(a, k) = rows[L - n + 1 + k]
    <3>1. CASE k = n
      <4>1. L - n + 1 + k = L + 1
        BY <1>10, <3>1
      <4> QED
        BY <1>3, <1>9, <3>1, <4>1 DEF n
    <3>2. CASE k # n
      <4>1. k \in 0 .. n - 1 /\ L - n + 1 + k \in 1 .. L
        BY <1>10, <3>2
      <4>2. getRingData(delayStruct, k) = history[L - n + 1 + k]
        BY <1>1, <4>1 DEF Mirrors, L, n
      <4> QED
        BY <1>3, <1>9, <4>1, <4>2 DEF n
    <3> QED
      BY <3>1, <3>2
  <2>3. ASSUME NEW k \in 0 .. a.nElements - 1
        PROVE  getRingData(a, k) = rows[Len(rows) - a.nElements + 1 + k]
    <3>1. k \in 0 .. n
      BY <1>10
    <3> QED
      BY <2>1, <2>2, <3>1
  <2> QED
    BY <2>1, <2>3 DEF Mirrors
<1> DEFINE d == delayStruct'
<1>13. /\ Ring(d, Items(rows))
       /\ Mirrors(d, rows)
       /\ d.nElements \in 1 .. a.nElements
       /\ \A k \in 2 .. d.nElements - 1 : getRingData(d, k).t >= bound
       /\ d.nElements < a.nElements => getRingData(d, 0).t <= bound
       /\ d.nElements = a.nElements => getRingData(d, 0) = getRingData(a, 0)
  <2>1. Ring(a, Items(rows)) /\ a.nElements > 0 /\ Sorted(rows)
    <3>1. Ring(a, Items(rows))
      BY <1>9, <1>11
    <3>2. a.nElements > 0
      BY <1>10
    <3>3. Sorted(rows)
      BY <1>8 DEF HistoryInv, rows
    <3> QED
      BY <3>1, <3>2, <3>3
  <2>2. rows \in Seq(RowType) /\ bound \in Int
    BY <1>3, <1>5
  <2> QED
    BY <2>1, <2>2, <1>4, <1>12, Trim
<1> HIDE DEF d
<1>14. TypeOK'
  <2>1. tStart' \in Int /\ delayMax' \in Delays
    BY <1>1
  <2> QED
    BY <2>1, <1>3, <1>13 DEF d, rows, TypeOK, Ring, Items, Rows, RowType
<1>15. BufferInv'
  <2>1. \A k \in 0 .. d.nElements - 1 : getRingData(d, k).t \in Int
    BY <1>3, <1>8, <1>13, MirrorFacts DEF HistoryInv, rows
  <2>2. \A k \in 2 .. d.nElements - 1 : getRingData(d, k).t >= time - delayMax
    BY <1>1, <1>5, <1>13, <2>1
  <2>3. ASSUME d.nElements < Len(rows)
        PROVE  getRingData(d, 0).t <= time - delayMax
    <3>1. CASE d.nElements < a.nElements
      <4> DEFINE t0 == getRingData(d, 0).t
      <4>1. t0 <= bound /\ t0 \in Int
        BY <1>9, <1>10, <1>13, <2>1, <3>1
      <4>2. (t0 - tStart) % 2 = 0
        <5>1. /\ getRingData(d, 0) = rows[Len(rows) - d.nElements + 1]
              /\ Len(rows) - d.nElements + 1 \in 1 .. Len(rows)
          <6>1. d.nElements \in 1 .. Len(rows) /\ Len(rows) \in Nat
            BY <1>3, <1>10, <1>13 DEF Mirrors
          <6>2. 0 \in 0 .. d.nElements - 1 /\ Len(rows) - d.nElements + 1 + 0 = Len(rows) - d.nElements + 1
                /\ Len(rows) - d.nElements + 1 \in 1 .. Len(rows)
            BY <6>1
          <6> QED
            BY <6>2, <1>13 DEF Mirrors
        <5> QED
          BY <5>1, <1>8 DEF HistoryInv, Rows, rows
      <4> HIDE DEF t0
      <4> QED
        BY <4>1, <4>2, <1>1, <1>5 DEF t0
    <3>2. CASE ~(d.nElements < a.nElements)
      <4>1. d.nElements = n + 1 /\ n < L /\ n \in Nat
        BY <1>1, <1>3, <1>9, <1>10, <1>13, <2>3, <3>2
      <4>2. getRingData(d, 0) = getRingData(a, 0)
        BY <4>1, <1>10, <1>13
      <4>3. n > 0
        <5>1. history # <<>>
          BY <4>1, TimeFacts DEF L
        <5> QED
          BY <5>1, <4>1, <1>1 DEF BufferInv, n
      <4>4. getRingData(a, 0) = getRingData(delayStruct, 0)
        BY <4>1, <4>3, <1>9 DEF n
      <4>5. getRingData(delayStruct, 0).t <= LastTime - delayMax
        BY <4>1, <1>1 DEF BufferInv, L, n
      <4>6. getRingData(d, 0).t \in Int
        BY <4>1, <2>1
      <4> QED
        BY <4>2, <4>4, <4>5, <4>6, <1>1
    <3> QED
      BY <3>1, <3>2
  <2> QED
    BY <1>1, <1>3, <1>6, <1>9, <1>10, <1>13, <2>2, <2>3 DEF BufferInv, d, rows
<1> QED
  BY <1>8, <1>14, <1>15 DEF DelayInv

(* An even step keeps the distance to the start even. *)
LEMMA EvenLater ==
  ASSUME NEW x \in Int, NEW y \in Int, NEW d \in Nat, (x - y) % 2 = 0, d % 2 = 0
  PROVE  x + d \in Int /\ x <= x + d /\ (x + d - y) % 2 = 0
  OBVIOUS

(* Every step keeps the invariant. *)
LEMMA StepKeeps ==
  DelayInv /\ [Next]_vars => DelayInv'
<1> SUFFICES ASSUME DelayInv, [Next]_vars
             PROVE  DelayInv'
  OBVIOUS
<1> USE TimeFacts
<1>1. CASE StoreInitial
  <2>1. /\ history = <<>> /\ LastTime = tStart /\ Len(history) = 0
        /\ storeDelayedExpression(tStart) /\ UNCHANGED <<tStart, delayMax>>
    BY <1>1 DEF StoreInitial, LastTime
  <2>2. LastTime <= tStart /\ (tStart - tStart) % 2 = 0 /\ Len(history) < MaxRows /\ tStart \in Int
    BY <2>1, DelayAssumption
  <2> QED
    BY <2>1, <2>2, StoreKeeps
<1>2. CASE StoreStep
  <2>1. PICK d \in StepSizes : storeDelayedExpression(history[Len(history)].t + d)
    BY <1>2 DEF StoreStep
  <2>2. /\ history # <<>> /\ LastTime = history[Len(history)].t /\ Len(history) < MaxRows
        /\ UNCHANGED <<tStart, delayMax>>
    BY <1>2 DEF StoreStep, LastTime
  <2>3. d \in Nat /\ d % 2 = 0
    BY DelayAssumption
  <2> DEFINE time == LastTime + d
  <2>4. time \in Int /\ LastTime <= time /\ (time - tStart) % 2 = 0
    BY <2>3, EvenLater
  <2>5. storeDelayedExpression(time)
    BY <2>1, <2>2
  <2> HIDE DEF time
  <2> QED
    BY <2>2, <2>4, <2>5, StoreKeeps
<1>3. CASE UNCHANGED vars
  BY <1>3 DEF vars, DelayInv, TypeOK, HistoryInv, BufferInv, LastTime, Rows
<1> QED
  BY <1>1, <1>2, <1>3 DEF Next

(* The inductive invariant is an invariant of the specification. *)
LEMMA Invariance ==
  Spec => []DelayInv
<1> QED
  BY InitInv, StepKeeps, PTL DEF Spec

(* The variables keep their types, for every size of buffer and number of rows. *)
THEOREM TypeCorrect ==
  Spec => []TypeOK
<1>1. DelayInv => TypeOK
  BY DEF DelayInv
<1> QED
  BY <1>1, Invariance, PTL

(* The buffer holds the last rows that storeDelayedExpression stored, in their
   order, however it was enlarged, wrapped around and trimmed. *)
THEOREM SuffixKept ==
  Spec => []RingIsSuffix
<1>1. DelayInv => RingIsSuffix
  <2> SUFFICES ASSUME DelayInv
               PROVE  RingIsSuffix
    OBVIOUS
  <2> DEFINE n == delayStruct.nElements
             L == Len(history)
  <2>1. /\ n \in 0 .. L /\ L \in Nat /\ history \in Seq(RowType)
        /\ history # <<>> => n > 0
        /\ \A k \in 0 .. n - 1 : getRingData(delayStruct, k) = history[L - n + 1 + k]
    BY TypeFacts DEF DelayInv, BufferInv, Mirrors
  <2>2. Contents(delayStruct) = [k \in 1 .. n |-> history[L - n + k]]
    <3>1. \A k \in 1 .. n : k - 1 \in 0 .. n - 1 /\ L - n + 1 + (k - 1) = L - n + k
      BY <2>1
    <3> QED
      BY <2>1, <3>1 DEF Contents
  <2> DEFINE c == Contents(delayStruct)
             u == SubSeq(history, L - n + 1, L)
  <2>3. L - n + 1 \in Int /\ L \in Int /\ \A i \in L - n + 1 .. L : history[i] \in RowType
    BY <2>1
  <2>4. /\ u \in Seq(RowType)
        /\ Len(u) = IF L - n + 1 <= L THEN L - (L - n + 1) + 1 ELSE 0
        /\ \A i \in 1 .. L - (L - n + 1) + 1 : u[i] = history[L - n + 1 + i - 1]
    BY <2>3, SubSeqProperties
  <2>5. L - (L - n + 1) + 1 = n /\ \A i \in 1 .. n : L - n + 1 + i - 1 = L - n + i
    BY <2>1
  <2> HIDE DEF u, c
  <2>6. Len(u) = n /\ \A i \in 1 .. n : u[i] = history[L - n + i]
    BY <2>1, <2>4, <2>5
  <2>7. \A i \in 1 .. n : history[L - n + i] \in RowType
    BY <2>1
  <2>8. c \in Seq(RowType) /\ Len(c) = n /\ \A i \in 1 .. n : c[i] = history[L - n + i]
    <3> HIDE DEF n, L
    <3>1. c = [k \in 1 .. n |-> history[L - n + k]]
      BY <2>2 DEF c
    <3>2. c \in [1 .. n -> RowType] /\ n \in Nat
      BY <2>1, <2>7, <3>1
    <3>3. c \in Seq(RowType)
      BY <3>2, SeqDef
    <3>4. DOMAIN c = 1 .. n
      BY <3>2
    <3>5. Len(c) = n
      BY <3>2, <3>3, <3>4, LenProperties
    <3> QED
      BY <3>1, <3>3, <3>5
  <2>9. c = u
    BY <2>4, <2>6, <2>8, SeqEqual
  <2> QED
    BY <2>1, <2>9 DEF c, u, RingIsSuffix, ringBufferLength
<1> QED
  BY <1>1, Invariance, PTL

(* Apart from two rows the buffer holds only what some delay still reaches. *)
THEOREM OldRowsTaken ==
  Spec => []OldRowsGo
<1>1. DelayInv => OldRowsGo
  <2> SUFFICES ASSUME DelayInv, NEW k \in DOMAIN Contents(delayStruct), k > 2
               PROVE  Contents(delayStruct)[k].t >= LastTime - delayMax
    BY DEF OldRowsGo
  <2>1. delayStruct.nElements \in Nat
    BY TimeFacts DEF DelayInv, BufferInv, Mirrors
  <2>2. k \in 1 .. delayStruct.nElements /\ Contents(delayStruct)[k] = getRingData(delayStruct, k - 1)
    BY DEF Contents
  <2>3. k - 1 \in 2 .. delayStruct.nElements - 1
    BY <2>1, <2>2
  <2> QED
    BY <2>2, <2>3 DEF DelayInv, BufferInv
<1> QED
  BY <1>1, Invariance, PTL

(* The time of the row Expected looks for. *)
Stamp(ts) == IF ts < tStart THEN tStart ELSE ts

(* A row at the time asked for is an expected answer. *)
LEMMA ExpectedAt ==
  ASSUME NEW time, NEW delayTime, history # <<>>, time # tStart,
         NEW k \in Rows, history[k].t = Stamp(time - delayTime)
  PROVE  Exactly(history[k].value) \in Expected(time, delayTime)
<1> DEFINE at == {j \in Rows : history[j].t = Stamp(time - delayTime)}
<1>1. k \in at
  OBVIOUS
<1> HIDE DEF at
<1>2. Expected(time, delayTime) = {Exactly(history[j].value) : j \in at}
  BY <1>1 DEF Expected, at, Stamp
<1> QED
  BY <1>1, <1>2

(* Without delay the value of now is expected where there is no row. *)
LEMMA ExpectedNow ==
  ASSUME NEW time, NEW delayTime, history # <<>>, time # tStart,
         \A j \in Rows : history[j].t # Stamp(time - delayTime), time - delayTime = time
  PROVE  Exactly(Current) \in Expected(time, delayTime)
<1> DEFINE at == {j \in Rows : history[j].t = Stamp(time - delayTime)}
<1>1. at = {}
  OBVIOUS
<1> HIDE DEF at
<1>2. Expected(time, delayTime) = {Exactly(Current)}
  BY <1>1 DEF Expected, at, Stamp
<1> QED
  BY <1>2

(* The last row before ts, and the first after it. *)
LastBefore(p, ts) ==
    /\ p \in Rows /\ history[p].t < ts
    /\ \A j \in Rows : history[j].t < ts => j <= p

FirstAfter(row1, time, ts) ==
    \/ /\ row1 = Row(time, Current)
       /\ \A j \in Rows : ~(history[j].t > ts)
    \/ \E q \in Rows : /\ row1 = history[q]
                       /\ history[q].t > ts
                       /\ \A j \in Rows : history[j].t > ts => q <= j

(* Between two rows next to each other the interpolation of these is expected. *)
LEMMA ExpectedBetween ==
  ASSUME NEW time, NEW delayTime, history # <<>>, time # tStart,
         NEW ts, ts = time - delayTime, ts # time,
         Len(history) \in Nat,
         \A j \in Rows : history[j].t # Stamp(ts),
         NEW p, LastBefore(p, ts), NEW row1, FirstAfter(row1, time, ts)
  PROVE  Between(history[p], row1, ts) \in Expected(time, delayTime)
<1> DEFINE at == {j \in Rows : history[j].t = Stamp(ts)}
           before == {j \in Rows : history[j].t < ts}
           after == {j \in Rows : history[j].t > ts}
           last == CHOOSE k \in before : \A j \in before : j <= k
           first == CHOOSE k \in after : \A j \in after : k <= j
           next == IF after = {} THEN Row(time, Current) ELSE history[first]
<1>1. at = {}
  OBVIOUS
<1>2. last = p
  <2>1. p \in before /\ \A j \in before : j <= p
    BY DEF LastBefore
  <2>2. before \subseteq Int
    BY DEF Rows
  <2> HIDE DEF before
  <2>3. last \in before /\ \A j \in before : j <= last
    BY <2>1
  <2> HIDE DEF last
  <2> QED
    BY <2>1, <2>2, <2>3
<1>3. next = row1
  <2>1. CASE row1 = Row(time, Current) /\ \A j \in Rows : ~(history[j].t > ts)
    BY <2>1
  <2>2. CASE \E q \in Rows : /\ row1 = history[q]
                             /\ history[q].t > ts
                             /\ \A j \in Rows : history[j].t > ts => q <= j
    <3>1. PICK q \in Rows : /\ row1 = history[q]
                            /\ history[q].t > ts
                            /\ \A j \in Rows : history[j].t > ts => q <= j
      BY <2>2
    <3>2. q \in after /\ \A j \in after : q <= j
      BY <3>1
    <3>3. after \subseteq Int
      BY DEF Rows
    <3> HIDE DEF after
    <3>4. first \in after /\ \A j \in after : first <= j
      BY <3>2
    <3> HIDE DEF first
    <3>5. first = q
      BY <3>2, <3>3, <3>4
    <3> QED
      BY <3>1, <3>2, <3>5
  <2> QED
    BY <2>1, <2>2 DEF FirstAfter
<1> HIDE DEF at, next, last
<1>4. Expected(time, delayTime) = {Between(history[last], next, ts)}
  BY <1>1 DEF Expected, at, Stamp, next, last
<1> QED
  BY <1>2, <1>3, <1>4

(* delayImpl answers as if no row had ever been taken out, for every time after
   the last step and every delay up to delayMax. *)
LEMMA Answer ==
  ASSUME DelayInv, NEW time \in Int, LastTime <= time, NEW delayTime \in 0 .. delayMax
  PROVE  delayImpl(time, delayTime) \in Expected(time, delayTime)
<1> DEFINE n == delayStruct.nElements
           L == Len(history)
           row(k) == getRingData(delayStruct, k)
           place(k) == L - n + 1 + k
           ts == time - delayTime
           i == findTime(ts, delayStruct)
<1>1. /\ LastTime \in Int /\ tStart \in Int /\ tStart <= LastTime /\ delayMax \in Nat
      /\ \A k \in Rows : /\ history[k] \in RowType /\ history[k].t \in Int
                         /\ tStart <= history[k].t /\ history[k].t <= LastTime
      /\ L \in Nat /\ (history # <<>> <=> L > 0)
      /\ history \in Seq(RowType) /\ Sorted(history) /\ Mirrors(delayStruct, history)
  BY TimeFacts, TypeFacts DEF DelayInv, HistoryInv, BufferInv
<1>2. ts \in Int /\ ts <= time /\ (ts = time <=> delayTime = 0) /\ LastTime - delayMax <= ts
  BY <1>1
<1>3. n \in 0 .. L /\ (history # <<>> => n > 0)
  BY <1>1 DEF Mirrors, DelayInv, BufferInv
<1>4. \A k \in 0 .. n - 1 : place(k) \in Rows /\ row(k) = history[place(k)] /\ row(k).t \in Int
  BY <1>1, <1>3 DEF Mirrors, Rows
<1>5. \A j, k \in Rows : j <= k => history[j].t <= history[k].t
  BY <1>1 DEF Sorted, Rows
<1>6. delayImpl(time, delayTime) =
        IF time <= tStart \/ n = 0 THEN Exactly(Current)
        ELSE IF time <= tStart + delayTime THEN Exactly(row(0).value)
        ELSE IF ts > row(n - 1).t THEN Interpolated(row(n - 1), Row(time, Current), ts)
        ELSE IF i + 1 = n THEN Exactly(row(i).value)
        ELSE Interpolated(row(i), row(i + 1), ts)
  BY DEF delayImpl, ringBufferLength
<1> DEFINE answer == delayImpl(time, delayTime)
<1>7. CASE time <= tStart \/ n = 0
  <2>1. history = <<>> \/ time = tStart
    BY <1>1, <1>3, <1>7
  <2>2. Expected(time, delayTime) = {Exactly(Current)}
    BY <2>1 DEF Expected
  <2> QED
    BY <1>6, <1>7, <2>2
<1>8. CASE ~(time <= tStart \/ n = 0)
  <2>1. /\ n \in Nat /\ n > 0 /\ n <= L /\ history # <<>> /\ time # tStart
        /\ LastTime = history[L].t /\ L \in Rows /\ place(n - 1) = L
        /\ row(n - 1) = history[L]
    <3>1. n \in Nat /\ n > 0 /\ n <= L /\ history # <<>> /\ time # tStart /\ L \in Rows
      BY <1>1, <1>3, <1>8 DEF Rows
    <3>2. n - 1 \in 0 .. n - 1 /\ place(n - 1) = L
      BY <1>1, <3>1
    <3> QED
      BY <1>4, <3>1, <3>2 DEF LastTime
  <2>2. row(0).t = tStart \/ row(0).t <= ts
    <3>1. CASE n = L
      <4>1. place(0) = 1 /\ row(0) = history[1]
        BY <1>1, <1>4, <2>1, <3>1
      <4> QED
        BY <2>1, <4>1 DEF DelayInv, HistoryInv
    <3>2. CASE n # L
      <4>1. row(0).t <= LastTime - delayMax /\ row(0).t \in Int
        BY <1>1, <1>4, <2>1, <3>2 DEF DelayInv, BufferInv
      <4> QED
        BY <1>1, <1>2, <4>1
    <3> QED
      BY <3>1, <3>2
  <2>3. place(0) \in Rows /\ row(0) = history[place(0)] /\ row(0).t \in Int /\ tStart <= row(0).t
    <3>1. 0 \in 0 .. n - 1
      BY <2>1
    <3>2. place(0) \in Rows /\ row(0) = history[place(0)] /\ row(0).t \in Int
      BY <1>4, <3>1
    <3> HIDE DEF place, row
    <3> QED
      BY <1>1, <3>2
  <2>4. CASE time <= tStart + delayTime
    <3>1. ts <= tStart
      BY <1>1, <2>4
    <3>2. row(0).t = tStart
      BY <1>1, <1>2, <2>2, <2>3, <3>1
    <3>3. history[place(0)].t = Stamp(time - delayTime)
      BY <1>1, <1>2, <2>3, <3>1, <3>2 DEF Stamp
    <3>4. Exactly(history[place(0)].value) \in Expected(time, delayTime)
      BY <2>1, <2>3, <3>3, ExpectedAt
    <3> QED
      BY <1>6, <1>8, <2>3, <2>4, <3>4
  <2>5. CASE ~(time <= tStart + delayTime)
    <3>1. ts > tStart /\ Stamp(ts) = ts /\ row(0).t <= ts
      BY <1>1, <1>2, <2>2, <2>3, <2>5 DEF Stamp
    <3> HIDE DEF row, place, i, n, L
    <3>2. CASE ts > row(n - 1).t
      <4>1. \A j \in Rows : history[j].t < ts /\ history[j].t # Stamp(ts) /\ ~(history[j].t > ts)
        BY <1>1, <1>2, <2>1, <3>1, <3>2
      <4>2. answer = Interpolated(history[L], Row(time, Current), ts)
        BY <1>6, <1>8, <2>1, <2>5, <3>2
      <4>3. history[L].t # ts
        BY <2>1, <3>1, <4>1
      <4>4. CASE ts = time
        <5>1. answer = Exactly(Current)
          BY <4>2, <4>3, <4>4 DEF Interpolated, Row
        <5> QED
          BY <2>1, <4>1, <4>4, <5>1, ExpectedNow
      <4>5. CASE ts # time
        <5>1. answer = Between(history[L], Row(time, Current), ts)
          BY <4>2, <4>3, <4>5 DEF Interpolated, Row
        <5>2. \A j \in Rows : j <= L
          BY <1>1 DEF Rows, L
        <5>3. Len(history) \in Nat /\ history[L].t < ts
          BY <1>1, <2>1, <4>1 DEF L
        <5>4. LastBefore(L, ts) /\ FirstAfter(Row(time, Current), time, ts)
          BY <2>1, <4>1, <5>2, <5>3 DEF LastBefore, FirstAfter
        <5>5. Between(history[L], Row(time, Current), ts) \in Expected(time, delayTime)
          BY <2>1, <4>1, <4>5, <5>3, <5>4, ExpectedBetween
        <5> QED
          BY <5>1, <5>5
      <4> QED
        BY <4>4, <4>5
    <3>3. CASE ~(ts > row(n - 1).t)
      <4>1. ts <= LastTime
        BY <1>1, <1>2, <2>1, <3>3
      <4>2. Located(i, ts, delayStruct)
        <5>1. /\ delayStruct.nElements \in Nat /\ delayStruct.nElements > 0
              /\ \A k \in 0 .. delayStruct.nElements - 1 : getRingData(delayStruct, k).t \in Int
          BY <1>4, <2>1 DEF n, row
        <5> QED
          BY <1>2, <5>1, FindTime DEF i
      <4>3. /\ i \in 0 .. n - 1
            /\ row(i).t <= ts
            /\ row(i).t = ts \/ i + 1 = n \/ row(i + 1).t > ts
        BY <3>1, <4>2 DEF Located, n, row
      <4>4. place(i) \in Rows /\ row(i) = history[place(i)] /\ row(i).t \in Int
        BY <1>4, <4>3
      <4>5. CASE row(i).t = ts \/ i + 1 = n
        <5>1. row(i).t = ts
          <6>1. CASE i + 1 = n
            <7>1. i = n - 1
              BY <2>1, <4>3, <6>1
            <7> QED
              BY <1>2, <2>1, <4>1, <4>3, <4>4, <7>1
          <6> QED
            BY <4>5, <6>1
        <5>2. answer = Exactly(row(i).value)
          BY <1>6, <1>8, <2>5, <3>3, <5>1 DEF Interpolated
        <5>3. history[place(i)].t = Stamp(time - delayTime)
          BY <3>1, <4>4, <5>1
        <5>4. Exactly(history[place(i)].value) \in Expected(time, delayTime)
          BY <2>1, <4>4, <5>3, ExpectedAt
        <5> QED
          BY <4>4, <5>2, <5>4
      <4>6. CASE ~(row(i).t = ts \/ i + 1 = n)
        <5>1. /\ i + 1 \in 0 .. n - 1 /\ row(i + 1).t > ts /\ row(i).t < ts
          BY <1>2, <2>1, <4>3, <4>4, <4>6
        <5>2. /\ place(i + 1) \in Rows /\ row(i + 1) = history[place(i + 1)] /\ row(i + 1).t \in Int
              /\ place(i + 1) = place(i) + 1
          BY <1>1, <1>3, <1>4, <4>3, <5>1 DEF place
        <5>3. \A j \in Rows : j <= place(i) \/ place(i + 1) <= j
          BY <4>4, <5>2 DEF Rows
        <5>4. \A j \in Rows : /\ j <= place(i) => history[j].t < ts
                              /\ place(i + 1) <= j => history[j].t > ts
                              /\ history[j].t \in Int
          BY <1>1, <1>2, <1>5, <4>4, <5>1, <5>2
        <5>5. /\ \A j \in Rows : history[j].t # Stamp(ts)
              /\ \A j \in Rows : history[j].t < ts => j <= place(i)
              /\ \A j \in Rows : history[j].t > ts => place(i + 1) <= j
          <6>1. ASSUME NEW j \in Rows
                PROVE  /\ history[j].t # ts
                       /\ history[j].t < ts => j <= place(i)
                       /\ history[j].t > ts => place(i + 1) <= j
            <7>1. history[j].t \in Int /\ ts \in Int
              BY <1>1, <1>2
            <7>2. CASE j <= place(i)
              BY <5>4, <7>1, <7>2
            <7>3. CASE place(i + 1) <= j
              BY <5>4, <7>1, <7>3
            <7> QED
              BY <5>3, <7>2, <7>3
          <6> QED
            BY <3>1, <6>1
        <5>6. answer = Between(history[place(i)], history[place(i + 1)], ts)
          BY <1>2, <1>6, <1>8, <2>5, <3>3, <4>4, <4>6, <5>1, <5>2 DEF Interpolated
        <5>7. ts # time
          BY <1>1, <1>2, <5>1, <5>2
        <5>8. Len(history) \in Nat /\ history[place(i)].t < ts /\ history[place(i + 1)].t > ts
          BY <1>1, <4>4, <5>1, <5>2 DEF L
        <5>9. LastBefore(place(i), ts) /\ FirstAfter(history[place(i + 1)], time, ts)
          BY <4>4, <5>2, <5>5, <5>8 DEF LastBefore, FirstAfter
        <5>10. Between(history[place(i)], history[place(i + 1)], ts) \in Expected(time, delayTime)
          BY <2>1, <5>5, <5>7, <5>8, <5>9, ExpectedBetween
        <5> QED
          BY <5>6, <5>10
      <4> QED
        BY <4>5, <4>6
    <3> QED
      BY <3>2, <3>3
  <2> QED
    BY <2>4, <2>5
<1> QED
  BY <1>7, <1>8

(* The documented value of delay: delayImpl never answers with the wrong rows. *)
THEOREM AnswersRight ==
  Spec => []AnswersAreRight
<1>1. DelayInv => AnswersAreRight
  <2> SUFFICES ASSUME DelayInv,
                      NEW ahead \in 0 .. (delayMax \div 2) + 2, NEW half \in 0 .. (delayMax \div 2) + 2,
                      2 * half <= delayMax
               PROVE  delayImpl(LastTime + 2 * ahead, 2 * half)
                         \in Expected(LastTime + 2 * ahead, 2 * half)
    BY DEF AnswersAreRight
  <2>1. delayMax \in Nat /\ LastTime \in Int
    BY TimeFacts
  <2>2. LastTime + 2 * ahead \in Int /\ LastTime <= LastTime + 2 * ahead /\ 2 * half \in 0 .. delayMax
    BY <2>1
  <2> QED
    BY <2>2, Answer
<1> QED
  BY <1>1, Invariance, PTL
=============================================================================
