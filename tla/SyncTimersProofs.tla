-------------------------- MODULE SyncTimersProofs --------------------------
(***************************************************************************)
(* The timers of the clocks (SyncTimers) for every model, every horizon    *)
(* and every number of events: no timer is passed by, and what             *)
(* handleTimers returns tells whether a tick held events.                  *)
(*                                                                         *)
(* The rational arithmetic of the sub clocks is shown to be defined: a     *)
(* denominator that is not 0 does not become 0 when a fraction is          *)
(* simplified, although gcd may be negative.                               *)
(***************************************************************************)
EXTENDS SyncTimers, SequenceTheorems, FiniteSetTheorems, WellFoundedInduction, TLAPS

(* Every set of natural numbers that is not empty has a least one. *)
LEMMA LeastNatural ==
  ASSUME NEW S, S \subseteq Nat, S # {}
  PROVE  \E n \in S : \A m \in S : n <= m
<1> DEFINE R == {ss \in Nat \X Nat : ss[1] < ss[2]}
<1>1. IsWellFoundedOn(R, Nat)
  BY NatLessThanWellFounded DEF OpToRel
<1> HIDE DEF R
<1>2. PICK n \in S : \A m \in S : ~(<<m, n>> \in R)
  BY <1>1, WFMin
<1>3. ASSUME NEW m \in S
      PROVE  n <= m
  <2>1. ~(<<m, n>> \in R)
    BY <1>2
  <2>2. m \in Nat /\ n \in Nat
    OBVIOUS
  <2>3. <<m, n>>[1] = m /\ <<m, n>>[2] = n
    OBVIOUS
  <2>4. ~(m < n)
    BY <2>1, <2>2 DEF R
  <2> QED
    BY <2>2, <2>4
<1> QED
  BY <1>3

-----------------------------------------------------------------------------
(* Lists of timers in the order of their activation times. *)

Sorted(list) ==
    \A i, j \in DOMAIN list : i <= j => list[i].activationTime <= list[j].activationTime

(* A set of numbers up to n has at most n elements. *)
LEMMA CountUpTo ==
  ASSUME NEW n \in Nat, NEW S, S \subseteq 1 .. n
  PROVE  Cardinality(S) \in 0 .. n /\ (S # {} => Cardinality(S) > 0)
<1>1. IsFiniteSet(1 .. n) /\ Cardinality(1 .. n) = n
  BY FS_Interval
<1>2. IsFiniteSet(S) /\ Cardinality(S) <= n
  BY <1>1, FS_Subset
<1>3. Cardinality(S) \in Nat
  BY <1>2, FS_CardinalityType
<1>4. Cardinality(S) = 0 <=> S = {}
  BY <1>2, FS_EmptySet
<1>5. Cardinality(S) <= n
  BY <1>1, <1>2
<1> DEFINE c == Cardinality(S)
<1> HIDE DEF c
<1>6. c \in Nat /\ c <= n
  BY <1>3, <1>5 DEF c
<1>7. S # {} => c # 0
  BY <1>4 DEF c
<1>8. c \in 0 .. n
  BY <1>6
<1>9. c # 0 => c > 0
  BY <1>6
<1> QED
  BY <1>7, <1>8, <1>9 DEF c

(* A list cut in two. *)
LEMMA Parts ==
  ASSUME NEW A, NEW list \in Seq(A), NEW n \in 0 .. Len(list)
  PROVE  /\ SubSeq(list, 1, n) \in Seq(A) /\ Len(SubSeq(list, 1, n)) = n
         /\ \A i \in 1 .. n : SubSeq(list, 1, n)[i] = list[i]
         /\ SubSeq(list, n + 1, Len(list)) \in Seq(A)
         /\ Len(SubSeq(list, n + 1, Len(list))) = Len(list) - n
         /\ \A i \in 1 .. Len(list) - n : SubSeq(list, n + 1, Len(list))[i] = list[i + n]
<1> DEFINE l == Len(list)
           front == SubSeq(list, 1, n)
           back == SubSeq(list, n + 1, l)
<1>1. l \in Nat /\ n \in 0 .. l /\ \A i \in 1 .. l : list[i] \in A
  OBVIOUS
<1> HIDE DEF l
<1>2. /\ \A i \in 1 .. n : list[i] \in A
      /\ \A i \in n + 1 .. l : list[i] \in A
      /\ n + 1 \in 1 .. l + 1 /\ l \in n .. l
  BY <1>1
<1>3. /\ front \in Seq(A) /\ Len(front) = (IF 1 <= n THEN n - 1 + 1 ELSE 0)
      /\ \A i \in 1 .. n - 1 + 1 : front[i] = list[1 + i - 1]
  BY <1>1, <1>2, SubSeqProperties DEF l
<1>4. /\ back \in Seq(A) /\ Len(back) = (IF n + 1 <= l THEN l - (n + 1) + 1 ELSE 0)
      /\ \A i \in 1 .. l - (n + 1) + 1 : back[i] = list[n + 1 + i - 1]
  BY <1>1, <1>2, SubSeqProperties DEF l
<1> HIDE DEF front, back
<1>5. /\ n - 1 + 1 = n
      /\ (IF 1 <= n THEN n - 1 + 1 ELSE 0) = n
      /\ l - (n + 1) + 1 = l - n
      /\ (IF n + 1 <= l THEN l - (n + 1) + 1 ELSE 0) = l - n
      /\ \A i \in Int : 1 + i - 1 = i /\ n + 1 + i - 1 = i + n
  BY <1>1
<1>6. \A i \in 1 .. n : front[i] = list[i]
  BY <1>3, <1>5
<1>7. \A i \in 1 .. l - n : back[i] = list[i + n]
  BY <1>4, <1>5
<1>8. Len(front) = n /\ Len(back) = l - n
  BY <1>3, <1>4, <1>5
<1> QED
  BY <1>3, <1>4, <1>6, <1>7, <1>8 DEF front, back, l

(* A set of positions with no gaps below is counted by its last one. *)
LEMMA PrefixCounted ==
  ASSUME NEW n \in Nat, NEW S, S \subseteq 1 .. n,
         \A i \in S : \A j \in 1 .. i : j \in S
  PROVE  S = 1 .. Cardinality(S)
<1> DEFINE T == (1 .. n + 1) \ S
<1>1. T \subseteq Nat /\ n + 1 \in T
  OBVIOUS
<1>2. PICK t \in T : \A m \in T : t <= m
  BY <1>1, LeastNatural
<1>3. t \in 1 .. n + 1 /\ t \notin S
  OBVIOUS
<1>4. \A j \in 1 .. n : j < t => j \in S
  <2>1. ASSUME NEW j \in 1 .. n, j < t, j \notin S
        PROVE  FALSE
    <3>1. j \in T
      BY <2>1
    <3>2. t <= j
      BY <1>2, <3>1
    <3> QED
      BY <1>3, <2>1, <3>2
  <2> QED
    BY <2>1
<1>5. \A j \in S : j < t
  <2>1. ASSUME NEW j \in S, ~(j < t)
        PROVE  FALSE
    <3>1. t \in 1 .. j
      BY <1>3, <2>1
    <3> QED
      BY <1>3, <3>1
  <2> QED
    BY <2>1
<1> HIDE DEF T
<1>6. S = 1 .. t - 1
  <2>1. \A j \in S : j \in 1 .. t - 1
    BY <1>3, <1>5
  <2>2. \A j \in 1 .. t - 1 : j \in 1 .. n /\ j < t
    BY <1>3
  <2> QED
    BY <1>4, <2>1, <2>2
<1>7. t - 1 \in Nat
  BY <1>3
<1>8. Cardinality(1 .. t - 1) = t - 1
  BY <1>7, FS_Interval
<1> QED
  BY <1>6, <1>8

(* In an ordered list the timers up to a time are the first ones. *)
LEMMA FirstOnes ==
  ASSUME NEW A, NEW list \in Seq(A), \A a \in A : a.activationTime \in Int, Sorted(list), NEW t \in Int
  PROVE  LET early == {i \in DOMAIN list : list[i].activationTime <= t}
         IN  early = 1 .. Cardinality(early) /\ Cardinality(early) \in 0 .. Len(list)
<1> DEFINE early == {i \in DOMAIN list : list[i].activationTime <= t}
<1>1. Len(list) \in Nat /\ DOMAIN list = 1 .. Len(list)
  OBVIOUS
<1>2. early \subseteq 1 .. Len(list)
  BY <1>1
<1>3. \A i \in DOMAIN list : list[i].activationTime \in Int
  OBVIOUS
<1>4. ASSUME NEW i \in early, NEW j \in 1 .. i
      PROVE  j \in early
  <2>1. i \in DOMAIN list /\ j \in DOMAIN list /\ j <= i
    BY <1>1
  <2>2. list[j].activationTime <= list[i].activationTime /\ list[i].activationTime <= t
    BY <2>1 DEF Sorted
  <2> QED
    BY <1>3, <2>1, <2>2
<1> HIDE DEF early
<1>5. early = 1 .. Cardinality(early)
  BY <1>1, <1>2, <1>4, PrefixCounted
<1>6. Cardinality(early) \in 0 .. Len(list)
  BY <1>1, <1>2, CountUpTo
<1> QED
  BY <1>5, <1>6 DEF early

(* insertTimer: the new timer comes to its place. *)
LEMMA InOrder ==
  ASSUME NEW A, NEW list \in Seq(A), \A a \in A : a.activationTime \in Int, Sorted(list), NEW timer \in A
  PROVE  LET new == insertTimer(list, timer)
         IN  /\ Sorted(new)
             /\ \A i \in DOMAIN new : new[i] = timer \/ \E j \in DOMAIN list : new[i] = list[j]
<1> DEFINE early == {i \in DOMAIN list : list[i].activationTime <= timer.activationTime}
           n == Cardinality(early)
           new == insertTimer(list, timer)
<1>1. Len(list) \in Nat /\ DOMAIN list = 1 .. Len(list) /\ timer.activationTime \in Int
  OBVIOUS
<1>2. early = 1 .. n /\ n \in 0 .. Len(list)
  BY <1>1, FirstOnes
<1>3. \A i \in DOMAIN list : list[i].activationTime \in Int
  OBVIOUS
<1>4. \A i \in DOMAIN list : list[i].activationTime <= timer.activationTime <=> i \in 1 .. n
  BY <1>2
<1>5. new = SubSeq(list, 1, n) \o <<timer>> \o SubSeq(list, n + 1, Len(list))
  BY DEF insertTimer
<1> HIDE DEF n, early, new
<1> DEFINE front == SubSeq(list, 1, n)
           back == SubSeq(list, n + 1, Len(list))
<1>6. /\ front \in Seq(A) /\ Len(front) = n
      /\ \A i \in 1 .. n : front[i] = list[i]
  BY <1>2, Parts
<1>7. /\ back \in Seq(A) /\ Len(back) = Len(list) - n
      /\ \A i \in 1 .. Len(list) - n : back[i] = list[i + n]
  BY <1>2, Parts
<1>8. <<timer>> \in Seq(A) /\ Len(<<timer>>) = 1 /\ <<timer>>[1] = timer
  OBVIOUS
<1>9. new = front \o <<timer>> \o back
  BY <1>5
<1> HIDE DEF front, back
<1>10. /\ DOMAIN new = 1 .. Len(list) + 1
       /\ \A i \in 1 .. n : new[i] = list[i]
       /\ new[n + 1] = timer
       /\ \A i \in n + 2 .. Len(list) + 1 : new[i] = list[i - 1]
  <2> DEFINE mid == front \o <<timer>>
             l == Len(list)
  <2>1. /\ mid \in Seq(A) /\ Len(mid) = n + 1
        /\ \A i \in 1 .. n + 1 : mid[i] = IF i <= n THEN front[i] ELSE <<timer>>[i - n]
    BY <1>6, <1>8, ConcatProperties
  <2>2. /\ mid[n + 1] = timer
        /\ \A i \in 1 .. n : mid[i] = front[i]
    <3>1. n + 1 \in 1 .. n + 1 /\ ~(n + 1 <= n) /\ n + 1 - n = 1
      BY <1>2
    <3>2. \A i \in 1 .. n : i \in 1 .. n + 1 /\ i <= n
      BY <1>2
    <3> QED
      BY <1>8, <2>1, <3>1, <3>2
  <2> HIDE DEF mid
  <2>3. /\ new \in Seq(A) /\ Len(new) = n + 1 + (l - n)
        /\ \A i \in 1 .. n + 1 + (l - n) :
              new[i] = IF i <= n + 1 THEN mid[i] ELSE back[i - (n + 1)]
    <3>1. new = mid \o back
      BY <1>9 DEF mid
    <3>2. /\ new \in Seq(A) /\ Len(new) = Len(mid) + Len(back)
          /\ \A i \in 1 .. Len(mid) + Len(back) :
                new[i] = IF i <= Len(mid) THEN mid[i] ELSE back[i - Len(mid)]
      BY <1>7, <2>1, <3>1, ConcatProperties
    <3>3. Len(mid) = n + 1 /\ Len(back) = l - n
      BY <1>7, <2>1
    <3> HIDE DEF l
    <3> QED
      BY <3>2, <3>3
  <2>4. /\ DOMAIN new = 1 .. l + 1
        /\ \A i \in 1 .. n + 1 : new[i] = mid[i]
        /\ \A i \in n + 2 .. l + 1 : new[i] = back[i - (n + 1)]
    <3>1. l \in Nat /\ n \in 0 .. l
      BY <1>1, <1>2
    <3> HIDE DEF l
    <3>2. n + 1 + (l - n) = l + 1
      BY <3>1
    <3>3. \A i \in 1 .. n + 1 : i \in 1 .. n + 1 + (l - n) /\ i <= n + 1
      BY <3>1
    <3>4. \A i \in n + 2 .. l + 1 : i \in 1 .. n + 1 + (l - n) /\ ~(i <= n + 1)
      BY <3>1
    <3> QED
      BY <2>3, <3>2, <3>3, <3>4
  <2>5. \A i \in n + 2 .. Len(list) + 1 : /\ i - (n + 1) \in 1 .. Len(list) - n
                                          /\ i - (n + 1) + n = i - 1
    BY <1>1, <1>2
  <2>6. n + 1 \in 1 .. n + 1 /\ \A i \in 1 .. n : i \in 1 .. n + 1
    BY <1>2
  <2> QED
    BY <1>6, <1>7, <2>2, <2>4, <2>5, <2>6
<1>11. \A i \in DOMAIN new : \/ i \in 1 .. n /\ i \in DOMAIN list /\ new[i] = list[i]
                             \/ i = n + 1 /\ new[i] = timer
                             \/ /\ i \in n + 2 .. Len(list) + 1 /\ new[i] = list[i - 1]
                                /\ i - 1 \in DOMAIN list /\ i - 1 \notin 1 .. n
  <2>1. ASSUME NEW i \in 1 .. Len(list) + 1
        PROVE  \/ i \in 1 .. n /\ i \in 1 .. Len(list)
               \/ i = n + 1
               \/ /\ i \in n + 2 .. Len(list) + 1
                  /\ i - 1 \in 1 .. Len(list) /\ i - 1 \notin 1 .. n
    BY <1>1, <1>2
  <2> QED
    BY <1>1, <1>10, <2>1
<1>12. Sorted(new)
  <2>1. ASSUME NEW i \in DOMAIN new, NEW j \in DOMAIN new, i <= j
        PROVE  new[i].activationTime <= new[j].activationTime
    <3>1. i \in Int /\ j \in Int /\ n \in Int
      BY <1>1, <1>2, <1>10
    <3>2. CASE i \in 1 .. n /\ i \in DOMAIN list /\ new[i] = list[i]
      <4>1. list[i].activationTime <= timer.activationTime
        BY <1>4, <3>2
      <4>2. CASE j \in 1 .. n /\ j \in DOMAIN list /\ new[j] = list[j]
        BY <2>1, <3>2, <4>2 DEF Sorted
      <4>3. CASE j = n + 1 /\ new[j] = timer
        BY <3>2, <4>1, <4>3
      <4>4. CASE /\ j \in n + 2 .. Len(list) + 1 /\ new[j] = list[j - 1]
                 /\ j - 1 \in DOMAIN list /\ j - 1 \notin 1 .. n
        <5>1. i <= j - 1
          BY <3>1, <3>2, <4>4
        <5> QED
          BY <3>2, <4>4, <5>1 DEF Sorted
      <4> QED
        BY <1>11, <4>2, <4>3, <4>4
    <3>3. CASE i = n + 1 /\ new[i] = timer
      <4>1. CASE j = n + 1
        BY <1>1, <3>3, <4>1
      <4>2. CASE /\ j \in n + 2 .. Len(list) + 1 /\ new[j] = list[j - 1]
                 /\ j - 1 \in DOMAIN list /\ j - 1 \notin 1 .. n
        <5>1. ~(list[j - 1].activationTime <= timer.activationTime) /\ list[j - 1].activationTime \in Int
          BY <1>3, <1>4, <4>2
        <5> QED
          BY <1>1, <3>3, <4>2, <5>1
      <4>3. j \notin 1 .. n
        BY <2>1, <3>1, <3>3
      <4> QED
        BY <1>11, <4>1, <4>2, <4>3
    <3>4. CASE /\ i \in n + 2 .. Len(list) + 1 /\ new[i] = list[i - 1]
               /\ i - 1 \in DOMAIN list /\ i - 1 \notin 1 .. n
      <4>1. j \notin 1 .. n /\ j # n + 1
        BY <2>1, <3>1, <3>4
      <4>2. new[j] = list[j - 1] /\ j - 1 \in DOMAIN list
        BY <1>11, <4>1
      <4>3. i - 1 <= j - 1
        BY <2>1, <3>1
      <4> QED
        BY <3>4, <4>2, <4>3 DEF Sorted
    <3> QED
      BY <1>11, <3>2, <3>3, <3>4
  <2> QED
    BY <2>1 DEF Sorted
<1> QED
  BY <1>11, <1>12 DEF new

(* insertTimer makes a list of timers. *)
LEMMA Inserted ==
  ASSUME NEW A, NEW list \in Seq(A), NEW timer \in A
  PROVE  insertTimer(list, timer) \in Seq(A)
<1> DEFINE n == Cardinality({i \in DOMAIN list : list[i].activationTime <= timer.activationTime})
<1>1. n \in 0 .. Len(list)
  <2>1. /\ {i \in DOMAIN list : list[i].activationTime <= timer.activationTime} \subseteq 1 .. Len(list)
        /\ Len(list) \in Nat
    OBVIOUS
  <2> QED
    BY <2>1, CountUpTo
<1> HIDE DEF n
<1>2. SubSeq(list, 1, n) \in Seq(A) /\ SubSeq(list, n + 1, Len(list)) \in Seq(A)
  BY <1>1, Parts
<1>3. <<timer>> \in Seq(A)
  OBVIOUS
<1>4. (SubSeq(list, 1, n) \o <<timer>>) \o SubSeq(list, n + 1, Len(list)) \in Seq(A)
  BY <1>2, <1>3
<1> QED
  BY <1>4 DEF insertTimer, n

(* What is left of a list without its first timer. *)
LEMMA TailOfList ==
  ASSUME NEW A, NEW list \in Seq(A), list # <<>>
  PROVE  /\ Tail(list) \in Seq(A) /\ Head(list) \in A
         /\ 1 \in DOMAIN list /\ Head(list) = list[1]
         /\ \A i \in DOMAIN Tail(list) : i + 1 \in DOMAIN list /\ Tail(list)[i] = list[i + 1]
         /\ Sorted(list) => Sorted(Tail(list))
<1> DEFINE l == Len(list)
           rest == Tail(list)
<1>1. l \in Nat \ {0} /\ DOMAIN list = 1 .. l
  BY HeadTailProperties
<1>2. /\ rest \in Seq(A) /\ Len(rest) = l - 1
      /\ \A i \in 1 .. l - 1 : rest[i] = list[i + 1]
  BY HeadTailProperties
<1>3. Head(list) \in A /\ Head(list) = list[1]
  BY HeadTailProperties
<1> HIDE DEF rest, l
<1>4. DOMAIN rest = 1 .. l - 1
  BY <1>1, <1>2
<1>5. \A i \in 1 .. l - 1 : i + 1 \in 1 .. l
  BY <1>1
<1>6. \A i \in DOMAIN rest : i + 1 \in DOMAIN list /\ rest[i] = list[i + 1]
  BY <1>1, <1>2, <1>4, <1>5
<1>7. Sorted(list) => Sorted(rest)
  <2>1. ASSUME Sorted(list), NEW i \in DOMAIN rest, NEW j \in DOMAIN rest, i <= j
        PROVE  rest[i].activationTime <= rest[j].activationTime
    <3>1. i + 1 <= j + 1
      BY <1>1, <1>4, <2>1
    <3> QED
      BY <1>6, <2>1, <3>1 DEF Sorted
  <2> QED
    BY <2>1 DEF Sorted
<1>8. 1 \in DOMAIN list
  BY <1>1
<1> QED
  BY <1>2, <1>3, <1>6, <1>7, <1>8 DEF rest

(* The lists of a list of lists, one behind the other, are a list. *)
LEMMA Flattened ==
  ASSUME NEW A, NEW seqs \in Seq(Seq(A))
  PROVE  FlattenSeq(seqs) \in Seq(A)
<1> DEFINE n == Len(seqs)
           Flat(f) == [i \in 1 .. n |-> IF i = 1 THEN seqs[i] ELSE f[i - 1] \o seqs[i]]
           Solves(f, m) == \A i \in 1 .. n : i <= m =>
                              f[i] = IF i = 1 THEN seqs[i] ELSE f[i - 1] \o seqs[i]
           Unsolved == {m \in Nat : ~\E f \in [1 .. n -> Seq(A)] : Solves(f, m)}
<1>1. n \in Nat /\ \A i \in 1 .. n : seqs[i] \in Seq(A)
  OBVIOUS
<1> HIDE DEF n
<1>2. 0 \notin Unsolved
  <2>1. [i \in 1 .. n |-> <<>>] \in [1 .. n -> Seq(A)]
    OBVIOUS
  <2>2. \A i \in 1 .. n : ~(i <= 0)
    BY <1>1
  <2> QED
    BY <2>1, <2>2
<1>3. ASSUME NEW m \in Nat, NEW f \in [1 .. n -> Seq(A)], Solves(f, m)
      PROVE  m + 1 \notin Unsolved
  <2> DEFINE g == [i \in 1 .. n |-> IF i <= m THEN f[i]
                                    ELSE IF i = 1 THEN seqs[i] ELSE f[i - 1] \o seqs[i]]
  <2>1. \A i \in 1 .. n : i # 1 => i - 1 \in 1 .. n
    BY <1>1
  <2>2. \A i \in 1 .. n : i # 1 => f[i - 1] \o seqs[i] \in Seq(A)
    BY <1>1, <2>1
  <2>3. g \in [1 .. n -> Seq(A)]
    BY <1>1, <2>2
  <2>4. ASSUME NEW i \in 1 .. n, i <= m + 1
        PROVE  g[i] = IF i = 1 THEN seqs[i] ELSE g[i - 1] \o seqs[i]
    <3>1. i # 1 => i - 1 \in 1 .. n /\ i - 1 <= m
      BY <1>1, <2>4
    <3>2. i # 1 => g[i - 1] = f[i - 1]
      BY <3>1
    <3>3. g[i] = IF i = 1 THEN seqs[i] ELSE f[i - 1] \o seqs[i]
      BY <1>3
    <3> HIDE DEF g
    <3> QED
      BY <3>2, <3>3
  <2> HIDE DEF g
  <2>5. Solves(g, m + 1)
    BY <2>4
  <2> QED
    BY <2>3, <2>5
<1>4. Unsolved = {}
  <2>1. SUFFICES ASSUME Unsolved # {}
                 PROVE  FALSE
    OBVIOUS
  <2>2. PICK m \in Unsolved : \A k \in Unsolved : m <= k
    BY <2>1, LeastNatural
  <2>3. m \in Nat /\ m # 0
    BY <1>2
  <2>4. m - 1 \in Nat /\ m - 1 \notin Unsolved
    <3> HIDE DEF Unsolved
    <3> QED
      BY <2>2, <2>3
  <2>5. PICK f \in [1 .. n -> Seq(A)] : Solves(f, m - 1)
    BY <2>4
  <2>6. (m - 1) + 1 \notin Unsolved
    BY <2>4, <2>5, <1>3
  <2> QED
    BY <2>3, <2>6
<1>5. PICK f \in [1 .. n -> Seq(A)] : Solves(f, n)
  BY <1>1, <1>4
<1>6. f = Flat(f)
  <2>1. \A i \in 1 .. n : f[i] = IF i = 1 THEN seqs[i] ELSE f[i - 1] \o seqs[i]
    <3>1. \A i \in 1 .. n : i <= n
      BY <1>1
    <3> QED
      BY <1>5, <3>1, Zenon
  <2>2. f = [i \in 1 .. n |-> f[i]]
    OBVIOUS
  <2> QED
    BY <2>1, <2>2, Zenon
<1>7. PICK g : g = CHOOSE h : h = Flat(h)
  OBVIOUS
<1>8. g = Flat(g)
  <2> HIDE DEF Flat
  <2> QED
    BY <1>6, <1>7
<1>9. n # 0 => FlattenSeq(seqs) = g[n]
  BY <1>7 DEF FlattenSeq, n
<1>10. ASSUME n # 0 PROVE g[n] \in Seq(A)
  <2> DEFINE Wrong == {i \in 1 .. n : g[i] \notin Seq(A)}
  <2>1. SUFFICES ASSUME Wrong # {} PROVE FALSE
    <3>1. n \in 1 .. n
      BY <1>1, <1>10
    <3> QED
      BY <3>1
  <2>2. Wrong \subseteq Nat
    BY <1>1
  <2>3. PICK i \in Wrong : \A k \in Wrong : i <= k
    BY <2>1, <2>2, LeastNatural
  <2>4. i \in 1 .. n /\ g[i] \notin Seq(A)
    OBVIOUS
  <2>5. g[i] = IF i = 1 THEN seqs[i] ELSE g[i - 1] \o seqs[i]
    BY <1>8, <2>4
  <2>6. i # 1 /\ i - 1 \in 1 .. n
    BY <1>1, <2>4, <2>5
  <2>7. i - 1 \notin Wrong
    <3> HIDE DEF Wrong
    <3> QED
      BY <2>2, <2>3, <2>4
  <2>8. g[i - 1] \in Seq(A) /\ seqs[i] \in Seq(A)
    BY <1>1, <2>4, <2>6, <2>7
  <2> QED
    BY <2>4, <2>5, <2>6, <2>8
<1>11. n = 0 => FlattenSeq(seqs) = seqs /\ seqs = <<>>
  BY DEF FlattenSeq, n
<1> QED
  BY <1>9, <1>10, <1>11

-----------------------------------------------------------------------------
(* The rational numbers. *)

(* The equation of a tail recursive definition, for arguments of rank n at most. *)
SolvesTo(f, n, W, next, goes, out, rank) ==
    \A w \in W : rank[w] <= n => f[w] = IF goes[w] THEN f[next[w]] ELSE out[w]

TailRecursive(W, V, next, goes, out, rank) ==
    /\ next \in [W -> W] /\ goes \in [W -> BOOLEAN] /\ out \in [W -> V]
    /\ rank \in [W -> Nat]
    /\ \A w \in W : goes[w] => rank[next[w]] < rank[w]

(* A tail recursive definition has at most one solution for each rank. *)
LEMMA SolutionsAgree ==
  ASSUME NEW W, NEW V, NEW next, NEW goes, NEW out, NEW rank,
         TailRecursive(W, V, next, goes, out, rank),
         NEW f, NEW g, NEW n \in Nat,
         SolvesTo(f, n, W, next, goes, out, rank), SolvesTo(g, n, W, next, goes, out, rank)
  PROVE  \A w \in W : rank[w] <= n => f[w] = g[w]
<1> USE DEF TailRecursive
<1> DEFINE Differ == {w \in W : rank[w] <= n /\ f[w] # g[w]}
           Ranks == {rank[w] : w \in Differ}
<1>1. SUFFICES ASSUME Differ # {} PROVE FALSE
  OBVIOUS
<1>2. Ranks \subseteq Nat /\ Ranks # {}
  BY <1>1
<1>3. PICK r \in Ranks : \A k \in Ranks : r <= k
  BY <1>2, LeastNatural
<1>4. PICK w \in Differ : r = rank[w]
  OBVIOUS
<1>5. w \in W /\ rank[w] <= n /\ f[w] # g[w] /\ rank[w] \in Nat
  OBVIOUS
<1>6. goes[w]
  BY <1>5 DEF SolvesTo
<1>7. next[w] \in W /\ rank[next[w]] < rank[w] /\ rank[next[w]] \in Nat
  BY <1>5, <1>6
<1>8. rank[next[w]] <= n
  BY <1>5, <1>7
<1>9. f[next[w]] # g[next[w]]
  BY <1>5, <1>6 DEF SolvesTo
<1>10. next[w] \in Differ
  BY <1>7, <1>8, <1>9
<1>11. rank[w] <= rank[next[w]]
  BY <1>3, <1>4, <1>10
<1> QED
  BY <1>5, <1>7, <1>11

(* A tail recursive definition whose rank goes down has a solution. *)
LEMMA TailRecursion ==
  ASSUME NEW W, NEW V, NEW next, NEW goes, NEW out, NEW rank,
         TailRecursive(W, V, next, goes, out, rank)
  PROVE  \E f \in [W -> V] : \A w \in W : f[w] = IF goes[w] THEN f[next[w]] ELSE out[w]
<1> DEFINE Solves(f, n) == SolvesTo(f, n, W, next, goes, out, rank)
           Unsolved == {n \in Nat : ~\E f \in [W -> V] : Solves(f, n)}
<1>1. /\ next \in [W -> W] /\ goes \in [W -> BOOLEAN] /\ out \in [W -> V] /\ rank \in [W -> Nat]
      /\ \A w \in W : goes[w] => rank[next[w]] < rank[w]
  BY DEF TailRecursive
<1>2. ASSUME NEW n \in Nat, NEW f \in [W -> V], Solves(f, n)
      PROVE  n + 1 \notin Unsolved
  <2> DEFINE g == [w \in W |-> IF rank[w] <= n THEN f[w]
                               ELSE IF goes[w] THEN f[next[w]] ELSE out[w]]
  <2>1. g \in [W -> V]
    BY <1>1
  <2>2. ASSUME NEW w \in W, rank[w] <= n + 1
        PROVE  g[w] = IF goes[w] THEN g[next[w]] ELSE out[w]
    <3>1. CASE goes[w]
      <4>1. next[w] \in W /\ rank[next[w]] < rank[w] /\ rank[w] \in Nat /\ rank[next[w]] \in Nat
        BY <1>1, <3>1
      <4>2. rank[next[w]] <= n
        BY <4>1, <2>2
      <4>3. g[next[w]] = f[next[w]]
        BY <4>1, <4>2
      <4>4. g[w] = f[next[w]]
        BY <1>2, <3>1 DEF SolvesTo
      <4> QED
        BY <3>1, <4>3, <4>4
    <3>2. CASE ~goes[w]
      BY <1>2, <3>2 DEF SolvesTo
    <3> QED
      BY <3>1, <3>2
  <2> HIDE DEF g
  <2>3. Solves(g, n + 1)
    BY <2>2 DEF SolvesTo
  <2> QED
    BY <2>1, <2>3
<1>3. 0 \notin Unsolved
  <2>1. \A w \in W : rank[w] <= 0 => ~goes[w]
    <3>1. ASSUME NEW w \in W, rank[w] <= 0, goes[w]
          PROVE  FALSE
      <4>1. rank[next[w]] < rank[w] /\ rank[next[w]] \in Nat /\ rank[w] \in Nat
        BY <1>1, <3>1
      <4> QED
        BY <3>1, <4>1
    <3> QED
      BY <3>1
  <2>2. Solves(out, 0)
    BY <2>1 DEF SolvesTo
  <2> QED
    BY <1>1, <2>2
<1>4. Unsolved = {}
  <2>1. SUFFICES ASSUME Unsolved # {}
                 PROVE  FALSE
    OBVIOUS
  <2>2. PICK n \in Unsolved : \A m \in Unsolved : n <= m
    BY <2>1, LeastNatural
  <2>3. n \in Nat /\ n # 0
    BY <1>3
  <2>4. n - 1 \in Nat /\ n - 1 \notin Unsolved
    <3> HIDE DEF Unsolved
    <3> QED
      BY <2>2, <2>3
  <2>5. PICK f \in [W -> V] : Solves(f, n - 1)
    BY <2>4
  <2>6. (n - 1) + 1 \notin Unsolved
    BY <2>4, <2>5, <1>2
  <2> QED
    BY <2>3, <2>6
<1> DEFINE sol(n) == CHOOSE f \in [W -> V] : Solves(f, n)
           h == [w \in W |-> sol(rank[w])[w]]
<1>5. ASSUME NEW n \in Nat
      PROVE  sol(n) \in [W -> V] /\ Solves(sol(n), n)
  <2>1. \E f \in [W -> V] : Solves(f, n)
    BY <1>4
  <2> HIDE DEF Solves
  <2> QED
    BY <2>1
<1>6. h \in [W -> V]
  <2>1. \A w \in W : rank[w] \in Nat
    BY <1>1
  <2> HIDE DEF sol
  <2>2. \A w \in W : sol(rank[w])[w] \in V
    BY <1>5, <2>1
  <2> QED
    BY <2>2
<1>7. ASSUME NEW w \in W
      PROVE  h[w] = IF goes[w] THEN h[next[w]] ELSE out[w]
  <2> DEFINE f == sol(rank[w])
  <2>1. rank[w] \in Nat /\ rank[w] <= rank[w]
    BY <1>1
  <2>2. f \in [W -> V] /\ SolvesTo(f, rank[w], W, next, goes, out, rank)
    BY <1>5, <2>1
  <2>3. h[w] = f[w]
    BY <1>7
  <2>4. f[w] = IF goes[w] THEN f[next[w]] ELSE out[w]
    <3> HIDE DEF f
    <3> QED
      BY <2>1, <2>2 DEF SolvesTo
  <2>5. ASSUME goes[w]
        PROVE  f[next[w]] = h[next[w]]
    <3> DEFINE v == next[w]
               g == sol(rank[v])
    <3>1. v \in W /\ rank[v] < rank[w] /\ rank[v] \in Nat
      BY <1>1, <2>5
    <3>2. SolvesTo(g, rank[v], W, next, goes, out, rank)
      BY <1>5, <3>1
    <3>3. h[v] = g[v]
      BY <3>1
    <3> HIDE DEF v, g, f, h
    <3>4. SolvesTo(f, rank[v], W, next, goes, out, rank)
      <4>1. ASSUME NEW u \in W, rank[u] <= rank[v]
            PROVE  rank[u] <= rank[w]
        <5>1. rank[u] \in Nat
          BY <1>1
        <5> QED
          BY <2>1, <3>1, <4>1, <5>1
      <4> QED
        BY <2>2, <4>1 DEF SolvesTo
    <3>5. f[v] = g[v]
      <4>1. \A u \in W : rank[u] <= rank[v] => f[u] = g[u]
        BY <3>1, <3>2, <3>4, SolutionsAgree
      <4> QED
        BY <3>1, <4>1
    <3> QED
      BY <3>3, <3>5 DEF v
  <2> HIDE DEF f, h
  <2> QED
    BY <2>3, <2>4, <2>5
<1> HIDE DEF h
<1> QED
  BY <1>6, <1>7

(* The quotient and the remainder of C: the remainder is smaller than the
   divisor and not larger than the dividend. *)
LEMMA Division ==
  ASSUME NEW a \in Int, NEW b \in Int, b # 0
  PROVE  /\ Quot(a, b) \in Int /\ Rem(a, b) \in Int
         /\ Size(Rem(a, b)) < Size(b) /\ Size(Rem(a, b)) <= Size(a)
         /\ Size(b) <= Size(a) => Quot(a, b) # 0
         /\ Rem(a, b) = 0 /\ a # 0 => Size(b) <= Size(a)
<1> DEFINE x == Size(a)
           y == Size(b)
           q == x \div y
           r == x % y
<1>0. x \in Nat /\ y \in Nat \ {0}
  BY DEF Size
<1>1. /\ x \in Nat /\ y \in Nat \ {0}
      /\ x = IF a < 0 THEN -a ELSE a
      /\ y = IF b < 0 THEN -b ELSE b
  BY DEF Size
<1>2. Quot(a, b) = IF (a < 0) = (b < 0) THEN q ELSE -q
  BY DEF Quot
<1>3. Rem(a, b) = a - b * Quot(a, b)
  BY DEF Rem
<1> HIDE DEF x, y
<1>4. q \in Int /\ r \in 0 .. y - 1 /\ x = y * q + r
  BY <1>0
<1> HIDE DEF q, r
<1>5. q >= 0
  <2>1. SUFFICES ASSUME q <= -1 PROVE FALSE
    BY <1>4
  <2>2. y * q <= y * (-1)
    BY <1>1, <1>4, <2>1
  <2> QED
    BY <1>1, <1>4, <2>2
<1>6. Rem(a, b) = IF a < 0 THEN -r ELSE r
  <2>1. CASE a < 0 /\ b < 0
    <3>1. b * q = -(y * q)
      BY <1>1, <1>4, <2>1
    <3> QED
      BY <1>1, <1>2, <1>3, <1>4, <2>1, <3>1
  <2>2. CASE a < 0 /\ ~(b < 0)
    <3>1. b * (-q) = -(y * q)
      BY <1>1, <1>4, <2>2
    <3> QED
      BY <1>1, <1>2, <1>3, <1>4, <2>2, <3>1
  <2>3. CASE ~(a < 0) /\ b < 0
    <3>1. b * (-q) = y * q
      BY <1>1, <1>4, <2>3
    <3> QED
      BY <1>1, <1>2, <1>3, <1>4, <2>3, <3>1
  <2>4. CASE ~(a < 0) /\ ~(b < 0)
    <3>1. b * q = y * q
      BY <1>1, <1>4, <2>4
    <3> QED
      BY <1>1, <1>2, <1>3, <1>4, <2>4, <3>1
  <2> QED
    BY <2>1, <2>2, <2>3, <2>4
<1>7. Size(Rem(a, b)) = r
  BY <1>1, <1>4, <1>6 DEF Size
<1>8. r <= x
  <2>1. y * q >= 0
    BY <1>1, <1>4, <1>5
  <2> QED
    BY <1>1, <1>4, <2>1
<1>9. y <= x => q # 0
  <2>1. SUFFICES ASSUME y <= x, q = 0 PROVE FALSE
    OBVIOUS
  <2>2. y * q = 0
    BY <1>1, <2>1
  <2> QED
    BY <1>1, <1>4, <2>1, <2>2
<1>10. r = 0 /\ x # 0 => y <= x
  <2>1. SUFFICES ASSUME r = 0, x # 0 PROVE y <= x
    OBVIOUS
  <2>2. q >= 1
    <3>1. q = 0 => y * q = 0
      BY <1>1
    <3> QED
      BY <1>1, <1>4, <1>5, <2>1, <3>1
  <2>3. y * q >= y * 1
    BY <1>1, <1>4, <2>2
  <2> QED
    BY <1>1, <1>4, <2>1, <2>3
<1>11. Quot(a, b) \in Int /\ (q # 0 => Quot(a, b) # 0)
  BY <1>2, <1>4
<1>12. Rem(a, b) \in Int /\ (Rem(a, b) = 0 => r = 0)
  BY <1>4, <1>6
<1>13. a # 0 => x # 0
  BY <1>1
<1>14. r < y
  BY <1>1, <1>4
<1> QED
  BY <1>7, <1>8, <1>9, <1>10, <1>11, <1>12, <1>13, <1>14 DEF x, y

(* gcd has a value, and it fulfils its equation. *)
LEMMA GcdSolved ==
  /\ gcd \in [Int \X Int -> Int]
  /\ \A a, b \in Int : gcd[<<a, b>>] = IF a = 0 THEN b ELSE gcd[<<Rem(b, a), a>>]
<1> DEFINE W == Int \X Int
           Next1(w) == <<Rem(w[2], w[1]), w[1]>>
           next == [w \in W |-> IF w[1] = 0 THEN w ELSE Next1(w)]
           goes == [w \in W |-> w[1] # 0]
           out == [w \in W |-> w[2]]
           rank == [w \in W |-> Size(w[1])]
           G(f) == [w \in W |-> IF w[1] = 0 THEN w[2] ELSE f[Next1(w)]]
<1>1. \A w \in W : w[1] \in Int /\ w[2] \in Int
  OBVIOUS
<1>2. \A a \in Int : Size(a) \in Nat
  BY DEF Size
<1>3. ASSUME NEW w \in W, w[1] # 0
      PROVE  Next1(w) \in W /\ Size(Next1(w)[1]) < Size(w[1])
  BY <1>1, <1>3, Division
<1> HIDE DEF W, Next1
<1>4. next \in [W -> W]
  BY <1>3
<1>5. goes \in [W -> BOOLEAN] /\ out \in [W -> Int] /\ rank \in [W -> Nat]
  BY <1>1, <1>2
<1>6. ASSUME NEW w \in W, goes[w]
      PROVE  rank[next[w]] < rank[w]
  BY <1>3, <1>6
<1>7. PICK f \in [W -> Int] : \A w \in W : f[w] = IF goes[w] THEN f[next[w]] ELSE out[w]
  <2> HIDE DEF next, goes, out, rank
  <2>1. TailRecursive(W, Int, next, goes, out, rank)
    BY <1>4, <1>5, <1>6 DEF TailRecursive
  <2> QED
    BY <2>1, TailRecursion
<1>8. f = G(f)
  <2>1. \A w \in W : f[w] = IF w[1] = 0 THEN w[2] ELSE f[Next1(w)]
    BY <1>7
  <2>2. f = [w \in W |-> f[w]]
    OBVIOUS
  <2> QED
    BY <2>1, <2>2, Zenon
<1>9. PICK g : g = CHOOSE h : h = G(h)
  OBVIOUS
<1>10. g = G(g)
  <2> HIDE DEF G
  <2> QED
    BY <1>8, <1>9
<1>11. gcd = g
  BY <1>9 DEF gcd, W, Next1
<1>12. \A w \in W : gcd[w] = IF w[1] = 0 THEN w[2] ELSE gcd[Next1(w)]
  <2> HIDE DEF Next1
  <2> QED
    BY <1>10, <1>11, Zenon
<1>13. gcd \in [W -> Int]
  <2> DEFINE Wrong == {w \in W : gcd[w] \notin Int}
             Ranks == {Size(w[1]) : w \in Wrong}
  <2>1. Wrong = {}
    <3>1. SUFFICES ASSUME Wrong # {} PROVE FALSE
      OBVIOUS
    <3>2. Ranks # {} /\ Ranks \subseteq Nat
      BY <1>1, <1>2, <3>1
    <3>3. PICK r \in Ranks : \A k \in Ranks : r <= k
      BY <3>2, LeastNatural
    <3>4. PICK w \in Wrong : r = Size(w[1])
      OBVIOUS
    <3>5. w \in W /\ gcd[w] \notin Int
      OBVIOUS
    <3>6. w[1] # 0 /\ gcd[Next1(w)] \notin Int
      BY <1>1, <1>12, <3>5
    <3>7. Next1(w) \in Wrong /\ Size(Next1(w)[1]) < Size(w[1])
      BY <1>3, <3>5, <3>6
    <3>8. Size(w[1]) <= Size(Next1(w)[1])
      BY <3>3, <3>4, <3>7
    <3> QED
      BY <1>1, <1>2, <3>5, <3>7, <3>8
  <2>2. gcd = [w \in W |-> gcd[w]]
    BY <1>10, <1>11
  <2> QED
    BY <2>1, <2>2
<1>14. ASSUME NEW a \in Int, NEW b \in Int
       PROVE  gcd[<<a, b>>] = IF a = 0 THEN b ELSE gcd[<<Rem(b, a), a>>]
  <2>1. <<a, b>> \in W /\ <<a, b>>[1] = a /\ <<a, b>>[2] = b
    BY DEF W
  <2>2. Next1(<<a, b>>) = <<Rem(b, a), a>>
    BY DEF Next1
  <2> QED
    BY <1>12, <2>1, <2>2
<1> QED
  BY <1>13, <1>14 DEF W

(* The gcd of two numbers is not 0 and not larger than the second of them,
   unless that is 0. *)
LEMMA GcdBounds ==
  ASSUME NEW a \in Int, NEW b \in Int, b # 0
  PROVE  LET g == gcd[<<a, b>>]
         IN  g \in Int /\ g # 0 /\ Size(g) <= Size(b)
<1> DEFINE W == Int \X Int
           Good(w) == gcd[w] # 0 /\ Size(gcd[w]) <= Size(w[2])
           Wrong == {w \in W : w[2] # 0 /\ ~Good(w)}
           Ranks == {Size(w[1]) : w \in Wrong}
<1>1. \A x \in Int : Size(x) \in Nat
  BY DEF Size
<1>2. Wrong = {}
  <2>1. SUFFICES ASSUME Wrong # {} PROVE FALSE
    OBVIOUS
  <2>2. Ranks # {} /\ Ranks \subseteq Nat
    BY <1>1, <2>1
  <2>3. PICK k \in Ranks : \A l \in Ranks : k <= l
    BY <2>2, LeastNatural
  <2>4. PICK w \in Wrong : k = Size(w[1])
    OBVIOUS
  <2>5. PICK x \in Int, y \in Int : w = <<x, y>>
    OBVIOUS
  <2>6. y # 0 /\ ~Good(<<x, y>>)
    BY <2>4, <2>5
  <2>7. ASSUME NEW u \in Int, NEW v \in Int, v # 0, Size(u) < Size(x)
        PROVE  gcd[<<u, v>>] # 0 /\ Size(gcd[<<u, v>>]) <= Size(v)
    <3>1. CASE <<u, v>> \in Wrong
      <4>1. Size(u) \in Ranks
        BY <3>1
      <4>2. Size(x) <= Size(u)
        BY <2>3, <2>4, <2>5, <4>1
      <4> QED
        BY <1>1, <2>7, <4>2
    <3>2. CASE <<u, v>> \notin Wrong
      BY <2>7, <3>2
    <3> QED
      BY <3>1, <3>2
  <2> HIDE DEF Wrong, Ranks
  <2>8. x # 0
    <3>1. SUFFICES ASSUME x = 0 PROVE FALSE
      OBVIOUS
    <3>2. gcd[<<x, y>>] = y
      BY <3>1, GcdSolved
    <3>3. Size(y) <= Size(y)
      BY <1>1
    <3> QED
      BY <2>6, <3>2, <3>3
  <2> DEFINE r == Rem(y, x)
  <2>9. /\ r \in Int /\ Size(r) < Size(x) /\ Size(r) <= Size(y)
        /\ r = 0 => Size(x) <= Size(y)
    BY <2>6, <2>8, Division
  <2>10. gcd[<<x, y>>] = gcd[<<r, x>>]
    BY <2>8, GcdSolved
  <2> HIDE DEF r
  <2>11. gcd[<<r, x>>] # 0
    BY <2>7, <2>8, <2>9
  <2>12. Size(gcd[<<r, x>>]) <= Size(y)
    <3>1. CASE r = 0
      <4>1. gcd[<<r, x>>] = x
        BY <2>9, <3>1, GcdSolved
      <4> QED
        BY <2>9, <3>1, <4>1
    <3>2. CASE r # 0
      <4> DEFINE q == Rem(x, r)
      <4>1. q \in Int /\ Size(q) < Size(r)
        BY <2>9, <3>2, Division
      <4>2. gcd[<<r, x>>] = gcd[<<q, r>>]
        BY <2>9, <3>2, GcdSolved
      <4> HIDE DEF q
      <4>3. Size(q) < Size(x)
        BY <1>1, <2>9, <4>1
      <4>4. Size(gcd[<<q, r>>]) <= Size(r)
        BY <2>7, <2>9, <3>2, <4>1, <4>3
      <4>5. gcd[<<q, r>>] \in Int
        BY <2>9, <4>1, GcdSolved
      <4> QED
        BY <1>1, <2>9, <4>2, <4>4, <4>5
    <3> QED
      BY <3>1, <3>2
  <2> QED
    BY <2>6, <2>10, <2>11, <2>12
<1>3. <<a, b>> \in W /\ <<a, b>>[2] = b
  OBVIOUS
<1>4. gcd[<<a, b>>] \in Int
  BY GcdSolved
<1> QED
  BY <1>2, <1>3, <1>4

(* A fraction whose denominator is not 0. *)
Fraction(r) == r \in RATIONAL /\ r.n # 0

(* A fraction is simplified to one. *)
LEMMA Simplified ==
  ASSUME NEW r, Fraction(r)
  PROVE  Fraction(simplifyRat[r])
<1> DEFINE tmp == gcd[<<r.m, r.n>>]
<1>1. r \in RATIONAL /\ r.m \in Int /\ r.n \in Int /\ r.n # 0
  BY DEF Fraction, RATIONAL
<1>2. tmp \in Int /\ tmp # 0 /\ Size(tmp) <= Size(r.n)
  BY <1>1, GcdBounds
<1>3. simplifyRat[r] = Rat(Quot(r.m, tmp), Quot(r.n, tmp))
  BY <1>1, <1>2 DEF simplifyRat
<1> HIDE DEF tmp
<1>4. Quot(r.m, tmp) \in Int /\ Quot(r.n, tmp) \in Int /\ Quot(r.n, tmp) # 0
  BY <1>1, <1>2, Division
<1> QED
  BY <1>3, <1>4 DEF Rat, RATIONAL, Fraction

(* A number minus a fraction, and a fraction divided by another one, are
   fractions. *)
LEMMA Calculated ==
  ASSUME NEW r, Fraction(r)
  PROVE  /\ \A a \in Int : Fraction(subInt2Rat(a, r))
         /\ \A s \in RATIONAL : Fraction(divRat2Rat(r, s))
         /\ ceilRat[r] \in Int /\ floorRatStrict[r] \in Int
<1>1. r \in RATIONAL /\ r.m \in Int /\ r.n \in Int /\ r.n # 0
  BY DEF Fraction, RATIONAL
<1>2. ASSUME NEW a \in Int
      PROVE  Fraction(subInt2Rat(a, r))
  <2>1. Fraction(Rat(a * r.n - r.m, r.n))
    BY <1>1 DEF Rat, RATIONAL, Fraction
  <2> QED
    BY <2>1, Simplified DEF subInt2Rat
<1>3. ASSUME NEW s \in RATIONAL
      PROVE  Fraction(divRat2Rat(r, s))
  <2>1. s.m \in Int /\ s.n \in Int
    BY DEF RATIONAL
  <2>2. r.m * s.n \in Int /\ r.n * s.m \in Int
    BY <1>1, <2>1
  <2>3. Fraction(Rat(r.m * s.n, IF r.n * s.m = 0 THEN 1 ELSE r.n * s.m))
    BY <2>2 DEF Rat, RATIONAL, Fraction
  <2> QED
    BY <2>3, Simplified DEF divRat2Rat
<1>4. Quot(r.m, r.n) \in Int
  BY <1>1, Division
<1>5. ceilRat[r] \in Int /\ floorRatStrict[r] \in Int
  BY <1>1, <1>4 DEF ceilRat, floorRatStrict
<1> QED
  BY <1>2, <1>3, <1>5

-----------------------------------------------------------------------------
(* Models and timers. *)

(* The constants that bound a run are numbers. *)
LEMMA Parameters ==
  Eps \in Nat /\ Horizon \in Nat /\ MaxEvents \in Nat
  BY TimersAssumption

(* What a base clock is made of; one that is not Boolean has intervals longer
   than the tolerance. *)
LEMMA ClockFacts ==
  ASSUME NEW md \in Models, NEW c \in DOMAIN md.clocks
  PROVE  /\ md.clocks[c].isBoolClock \in BOOLEAN
         /\ md.clocks[c].intervals \subseteq Nat
         /\ md.clocks[c].subs \in Seq(SubClock)
         /\ md.clocks[c].isBoolClock \/ \A d \in md.clocks[c].intervals : d > 2 * Eps
<1> DEFINE C == [isBoolClock : BOOLEAN, intervals : SUBSET Nat, subs : Seq(SubClock)]
<1>1. md \in Model
  BY TimersAssumption
<1>2. md.clocks \in Seq(C)
  BY <1>1 DEF Model
<1>3. md.clocks[c] \in C
  <2> HIDE DEF C
  <2> QED
    BY <1>2
<1>4. md.clocks[c].isBoolClock \/ \A d \in md.clocks[c].intervals : d > 2 * Eps
  BY TimersAssumption
<1> QED
  BY <1>3, <1>4

(* When a model starts. *)
LEMMA StartFacts ==
  ASSUME NEW md \in Models
  PROVE  md.start \in Int /\ md.start <= Horizon /\ Len(md.clocks) \in Nat
         /\ DOMAIN md.clocks = 1 .. Len(md.clocks)
<1>1. md \in Model /\ md.start <= Horizon
  BY TimersAssumption
<1> DEFINE C == [isBoolClock : BOOLEAN, intervals : SUBSET Nat, subs : Seq(SubClock)]
<1>2. md.start \in Int /\ md.clocks \in Seq(C)
  BY <1>1 DEF Model
<1> HIDE DEF C
<1> QED
  BY <1>1, <1>2

(* What a sub clock is made of. *)
LEMMA SubFacts ==
  ASSUME NEW sub \in SubClock
  PROVE  /\ Fraction(sub.shift) /\ sub.shift.m \in Int /\ sub.shift.n \in Nat \ {0}
         /\ sub.factor \in RATIONAL /\ sub.factor.m \in Nat \ {0} /\ sub.factor.n \in Nat \ {0}
         /\ sub.holdEvents \in BOOLEAN
  BY DEF SubClock, Fraction, RATIONAL

(* The number of a sub clock is that of its base clock and its own. *)
LEMMA SubNumber ==
  ASSUME NEW md \in Models, NEW s \in SubsOf(md)
  PROVE  /\ s[1] \in DOMAIN md.clocks
         /\ md.clocks[s[1]].subs[s[2]] \in SubClock
<1>1. PICK c \in DOMAIN md.clocks : s \in {<<c, i>> : i \in DOMAIN md.clocks[c].subs}
  BY DEF SubsOf
<1>2. PICK i \in DOMAIN md.clocks[c].subs : s = <<c, i>>
  BY <1>1
<1>3. s[1] = c /\ s[2] = i
  BY <1>2
<1>4. md.clocks[c].subs \in Seq(SubClock)
  BY ClockFacts
<1>5. md.clocks[c].subs[i] \in SubClock
  BY <1>4
<1> QED
  BY <1>3, <1>5

(* The timers that are not before a time; those of base clocks belong to clocks
   that are not Boolean. *)
TimerOf(md) ==
    [type : {"SYNC_BASE_CLOCK"}, idx : {<<c>> : c \in DOMAIN md.clocks}, activationTime : Int]
         \cup [type : {"SYNC_SUB_CLOCK"}, idx : SubsOf(md), activationTime : Int]
Since(md, t) ==
    {x \in TimerOf(md) : /\ x.activationTime >= t
                         /\ x.type = "SYNC_BASE_CLOCK" => ~md.clocks[x.idx[1]].isBoolClock}

(* The timers of TypeOK are those of the model. *)
LEMMA TimersOfModel == Timer = TimerOf(model)
  BY DEF Timer, TimerOf, Clocks

(* What a timer of a base clock and one of a sub clock are made of. *)
LEMMA TimerFacts ==
  ASSUME NEW md, NEW t \in Int, NEW x \in Since(md, t)
  PROVE  /\ x.activationTime \in Int /\ x.activationTime >= t
         /\ x \in TimerOf(md)
         /\ x.type = "SYNC_BASE_CLOCK" => /\ x.idx[1] \in DOMAIN md.clocks
                                          /\ ~md.clocks[x.idx[1]].isBoolClock
         /\ x.type = "SYNC_SUB_CLOCK" => x.idx \in SubsOf(md)
<1> DEFINE B == [type : {"SYNC_BASE_CLOCK"}, idx : {<<c>> : c \in DOMAIN md.clocks},
                 activationTime : Int]
           S == [type : {"SYNC_SUB_CLOCK"}, idx : SubsOf(md), activationTime : Int]
<1>1. /\ x \in B \/ x \in S
      /\ x.activationTime >= t
      /\ x \in TimerOf(md)
      /\ x.type = "SYNC_BASE_CLOCK" => ~md.clocks[x.idx[1]].isBoolClock
  BY DEF Since, TimerOf
<1>2. CASE x \in B
  <2>1. x.type = "SYNC_BASE_CLOCK" /\ x.activationTime \in Int
        /\ x.idx \in {<<c>> : c \in DOMAIN md.clocks}
    BY <1>2
  <2>2. PICK c \in DOMAIN md.clocks : x.idx = <<c>>
    BY <2>1
  <2>3. x.idx[1] = c
    BY <2>2
  <2> QED
    BY <1>1, <2>1, <2>3
<1>3. CASE x \in S
  <2>1. x.type = "SYNC_SUB_CLOCK" /\ x.activationTime \in Int /\ x.idx \in SubsOf(md)
    BY <1>3
  <2> QED
    BY <1>1, <2>1
<1> QED
  BY <1>1, <1>2, <1>3

(* The timer of a base clock that is not Boolean. *)
LEMMA BaseTimer ==
  ASSUME NEW md, NEW c \in DOMAIN md.clocks, ~md.clocks[c].isBoolClock,
         NEW t \in Int, NEW u \in Int, t <= u
  PROVE  Base(c, u) \in Since(md, t) /\ Base(c, u).activationTime = u
<1>1. Base(c, u).type = "SYNC_BASE_CLOCK" /\ Base(c, u).idx = <<c>> /\ Base(c, u).activationTime = u
  BY DEF Base
<1>2. <<c>>[1] = c
  OBVIOUS
<1>3. Base(c, u) \in TimerOf(md)
  BY DEF Base, TimerOf
<1> QED
  BY <1>1, <1>2, <1>3 DEF Since

(* The timer of a sub clock. *)
LEMMA SubTimer ==
  ASSUME NEW md, NEW s \in SubsOf(md), NEW t \in Int, NEW u \in Int, t <= u
  PROVE  Sub(s, u) \in Since(md, t)
<1>1. Sub(s, u).type = "SYNC_SUB_CLOCK" /\ Sub(s, u).activationTime = u
  BY DEF Sub
<1>2. Sub(s, u) \in TimerOf(md)
  BY DEF Sub, TimerOf
<1> QED
  BY <1>1, <1>2 DEF Since

(* A list whose elements are all of a kind. *)
LEMMA Elements ==
  ASSUME NEW A, NEW B, NEW list \in Seq(A), \A i \in DOMAIN list : list[i] \in B
  PROVE  list \in Seq(B)
<1>1. Len(list) \in Nat /\ DOMAIN list = 1 .. Len(list) /\ list = [i \in 1 .. Len(list) |-> list[i]]
  OBVIOUS
<1> QED
  BY <1>1, IsASeq

(* A tick of a sub clock is not before the tick of its base clock, by more than
   the tolerance if the interval is shorter. *)
LEMMA NextTimes ==
  ASSUME NEW sub \in SubClock, NEW k \in Int, NEW d \in Nat, NEW curTime \in Int
  PROVE  /\ NextTime(sub, k, d, curTime) \in Int
         /\ NextTime(sub, k, d, curTime) >= curTime - Eps
         /\ d >= Eps => NextTime(sub, k, d, curTime) >= curTime
<1> DEFINE sm == sub.shift.m
           sn == sub.shift.n
           fm == sub.factor.m
           fn == sub.factor.n
           num == d * (sm * fn + k * fm * sn)
           den == sn * fn
           next == num \div den
<1>1. sm \in Int /\ sn \in Nat \ {0} /\ fm \in Nat \ {0} /\ fn \in Nat \ {0}
  BY SubFacts
<1>2. NextTime(sub, k, d, curTime) = IF next >= curTime + d THEN (curTime + d) - Eps
                                     ELSE IF next < curTime THEN curTime ELSE next
  BY Zenon DEF NextTime
<1> HIDE DEF sm, sn, fm, fn
<1>3. num \in Int
  BY <1>1
<1>4. den \in Nat \ {0}
  <2>1. sn >= 1 /\ fn >= 1 /\ sn \in Int /\ fn \in Int
    BY <1>1
  <2>2. sn * fn >= 1 * 1
    BY <2>1
  <2> QED
    BY <2>1, <2>2
<1> HIDE DEF num, den
<1>5. next \in Int
  BY <1>3, <1>4
<1> HIDE DEF next
<1> QED
  BY <1>2, <1>5, Parameters

(* The timers for the sub clocks of a clock are not before its tick, by more
   than the tolerance if the interval is shorter. *)
LEMMA FireFacts ==
  ASSUME model \in Models, NEW c \in Clocks, clocksData[c].cnt \in Int,
         NEW d \in Nat, NEW curTime \in Int, NEW t \in Int,
         t <= curTime - Eps \/ (d >= Eps /\ t <= curTime)
  PROVE  fireClock(c, d, curTime) \in Seq(Since(model, t))
<1> DEFINE A == Since(model, t)
           subs == model.clocks[c].subs
           lists == [i \in DOMAIN subs |-> SubTimers(c, i, d, curTime)]
<1>1. subs \in Seq(SubClock) /\ Len(subs) \in Nat /\ DOMAIN subs = 1 .. Len(subs)
  <2>1. subs \in Seq(SubClock)
    BY ClockFacts DEF Clocks
  <2> HIDE DEF subs
  <2> QED
    BY <2>1
<1>2. ASSUME NEW i \in DOMAIN subs
      PROVE  SubTimers(c, i, d, curTime) \in Seq(A)
  <2> DEFINE sub == subs[i]
             cnt == clocksData[c].cnt
             i0 == ceilRat[divRat2Rat(subInt2Rat(cnt, sub.shift), sub.factor)]
             i1 == floorRatStrict[divRat2Rat(subInt2Rat(cnt + 1, sub.shift), sub.factor)]
             n == i1 - i0 + 1
             list == [k \in 1 .. n |-> Sub(<<c, i>>, NextTime(sub, i0 + k - 1, d, curTime))]
  <2>1. sub \in SubClock
    BY <1>1
  <2>2. cnt \in Int /\ cnt + 1 \in Int
    OBVIOUS
  <2>3. SubTimers(c, i, d, curTime) = list
    BY Zenon DEF SubTimers
  <2> HIDE DEF sub, cnt
  <2>4. i0 \in Int /\ i1 \in Int
    <3>1. Fraction(sub.shift) /\ sub.factor \in RATIONAL
      BY <2>1, SubFacts
    <3>2. Fraction(subInt2Rat(cnt, sub.shift)) /\ Fraction(subInt2Rat(cnt + 1, sub.shift))
      BY <2>2, <3>1, Calculated
    <3>3. /\ Fraction(divRat2Rat(subInt2Rat(cnt, sub.shift), sub.factor))
          /\ Fraction(divRat2Rat(subInt2Rat(cnt + 1, sub.shift), sub.factor))
      BY <3>1, <3>2, Calculated
    <3> QED
      BY <3>3, Calculated
  <2> HIDE DEF i0, i1
  <2>5. n \in Int
    BY <2>4
  <2> HIDE DEF n
  <2>6. ASSUME NEW k \in 1 .. n
        PROVE  Sub(<<c, i>>, NextTime(sub, i0 + k - 1, d, curTime)) \in A
    <3> DEFINE j == i0 + k - 1
               u == NextTime(sub, j, d, curTime)
    <3>1. j \in Int
      BY <2>4, <2>5
    <3> HIDE DEF j
    <3>2. u \in Int /\ u >= curTime - Eps /\ (d >= Eps => u >= curTime)
      BY <2>1, <3>1, NextTimes
    <3> HIDE DEF u
    <3>3. t <= u
      BY <3>2, Parameters
    <3>4. <<c, i>> \in SubsOf(model)
      BY DEF SubsOf, Clocks
    <3>5. Sub(<<c, i>>, u) \in A
      BY <3>2, <3>3, <3>4, SubTimer
    <3> QED
      BY <3>5 DEF u, j
  <2> HIDE DEF A
  <2>7. list \in Seq(A)
    <3>1. CASE n >= 0
      <4>1. n \in Nat
        BY <2>5, <3>1
      <4> QED
        BY <2>6, <4>1, IsASeq
    <3>2. CASE n < 0
      <4>1. 1 .. n = 1 .. 0
        BY <2>5, <3>2
      <4>2. list = <<>>
        BY <4>1
      <4> HIDE DEF list
      <4> QED
        BY <4>2
    <3> QED
      BY <2>5, <3>1, <3>2
  <2> QED
    BY <2>3, <2>7
<1> HIDE DEF A
<1>3. lists \in Seq(Seq(A))
  <2> DEFINE n == Len(subs)
  <2>1. lists = [i \in 1 .. n |-> SubTimers(c, i, d, curTime)]
    BY <1>1
  <2>2. \A i \in 1 .. n : SubTimers(c, i, d, curTime) \in Seq(A)
    BY <1>1, <1>2
  <2> HIDE DEF n, lists
  <2>3. n \in Nat
    BY <1>1 DEF n
  <2> QED
    BY <2>1, <2>2, <2>3, IsASeq
<1>4. fireClock(c, d, curTime) = FlattenSeq(lists)
  BY DEF fireClock
<1> HIDE DEF lists
<1> QED
  BY <1>3, <1>4, Flattened DEF A

(* The first timers are all at the start. *)
LEMMA FirstFacts ==
  ASSUME NEW md \in Models
  PROVE  /\ FirstTimers(md) \in Seq(Since(md, md.start))
         /\ Sorted(FirstTimers(md))
<1> DEFINE A == {x \in Since(md, md.start) : x.activationTime = md.start}
           n == Len(md.clocks)
           one(c) == IF md.clocks[c].isBoolClock THEN <<>> ELSE <<Base(c, md.start)>>
           lists == [c \in DOMAIN md.clocks |-> one(c)]
<1>1. md.start \in Int /\ n \in Nat /\ DOMAIN md.clocks = 1 .. n
  BY StartFacts
<1>2. ASSUME NEW c \in 1 .. n
      PROVE  one(c) \in Seq(A)
  <2>1. CASE md.clocks[c].isBoolClock
    BY <2>1
  <2>2. CASE ~md.clocks[c].isBoolClock
    <3>1. c \in DOMAIN md.clocks /\ md.start <= md.start
      BY <1>1
    <3>2. Base(c, md.start) \in Since(md, md.start) /\ Base(c, md.start).activationTime = md.start
      BY <1>1, <2>2, <3>1, BaseTimer
    <3>3. Base(c, md.start) \in A
      BY <3>2
    <3> HIDE DEF A
    <3> QED
      BY <2>2, <3>3
  <2> QED
    BY <2>1, <2>2
<1> HIDE DEF A, one, n
<1>3. /\ Len(lists) = n
      /\ \A c \in 1 .. n : lists[c] \in Seq(A)
  BY <1>1, <1>2
<1>4. Reverse(lists) \in Seq(Seq(A))
  <2>1. Reverse(lists) = [i \in 1 .. n |-> lists[(n - i) + 1]]
    BY <1>3 DEF Reverse
  <2>2. \A i \in 1 .. n : (n - i) + 1 \in 1 .. n
    BY <1>1
  <2> HIDE DEF lists
  <2>3. \A i \in 1 .. n : lists[(n - i) + 1] \in Seq(A)
    BY <1>3, <2>2
  <2> QED
    BY <1>1, <2>1, <2>3, IsASeq
<1>5. FirstTimers(md) = FlattenSeq(Reverse(lists))
  BY DEF FirstTimers, one
<1>6. FirstTimers(md) \in Seq(A)
  <2> HIDE DEF lists
  <2> QED
    BY <1>4, <1>5, Flattened
<1> DEFINE first == FirstTimers(md)
<1> HIDE DEF first
<1>7. \A i \in DOMAIN first : first[i] \in A
  BY <1>6 DEF first
<1>8. \A i \in DOMAIN first : first[i] \in Since(md, md.start) /\ first[i].activationTime = md.start
  BY <1>7 DEF A
<1>9. first \in Seq(Since(md, md.start))
  BY <1>6, <1>8, Elements DEF first
<1>10. Sorted(first)
  BY <1>1, <1>8 DEF Sorted
<1> QED
  BY <1>9, <1>10 DEF first

-----------------------------------------------------------------------------
(* The invariant. *)

(* The timers, those still to be inserted too, are not further back than the
   tolerance, and the list is in order. *)
ListInv ==
    /\ intvlTimers \in Seq(Since(model, currentTime - Eps)) /\ Sorted(intvlTimers)
    /\ inserting \in Seq(Since(model, currentTime - Eps))
    /\ pc = "loop" => inserting = <<>>

(* The clocks; only those with a timer count their ticks. *)
ClockData == [interval : Nat, timepoint : Int, cnt : Nat]

DataInv ==
    /\ clocksData \in [Clocks -> ClockData]
    /\ \A c \in Clocks : model.clocks[c].isBoolClock => clocksData[c].cnt = 0

(* The counters. *)
CountInv ==
    /\ events \in 0 .. MaxEvents
    /\ fired \in [Clocks -> Nat]
    /\ ran \in [SubsOf(model) -> Nat]

(* What handleTimers is about to return. *)
HoldInv ==
    /\ ret \in 0 .. 2 /\ held \in BOOLEAN
    /\ ret = 2 <=> held

(* All of it. *)
TimersInv ==
    /\ pc \in {"loop", "handle"}
    /\ model \in Models
    /\ currentTime \in model.start .. Horizon
    /\ ListInv /\ DataInv /\ CountInv /\ HoldInv

(* The invariant is stronger than the properties. *)
LEMMA InvImplies == TimersInv => TypeOK /\ NoTimerPassed /\ HoldEventsAreSeen
<1> SUFFICES ASSUME TimersInv PROVE TypeOK /\ NoTimerPassed /\ HoldEventsAreSeen
  OBVIOUS
<1> DEFINE t == currentTime - Eps
<1>1. t \in Int /\ currentTime \in Int /\ model \in Models
  BY StartFacts, Parameters DEF TimersInv
<1>2. /\ intvlTimers \in Seq(Since(model, t))
      /\ inserting \in Seq(Since(model, t))
  BY DEF TimersInv, ListInv
<1> HIDE DEF t
<1>3. intvlTimers \in Seq(Timer) /\ inserting \in Seq(Timer)
  <2>1. \A x \in Since(model, t) : x \in Timer
    BY <1>1, TimerFacts, TimersOfModel
  <2>2. \A list \in Seq(Since(model, t)) : \A i \in DOMAIN list : list[i] \in Since(model, t)
    OBVIOUS
  <2> QED
    BY <1>2, <2>1, <2>2, Elements
<1>4. \A i \in DOMAIN intvlTimers : intvlTimers[i].activationTime >= t
  <2>1. \A i \in DOMAIN intvlTimers : intvlTimers[i] \in Since(model, t)
    BY <1>2
  <2> QED
    BY <1>1, <2>1, TimerFacts
<1>5. TypeOK
  BY <1>3 DEF TypeOK, TimersInv, DataInv, ClockData, CountInv, HoldInv
<1>6. NoTimerPassed
  BY <1>4 DEF NoTimerPassed, t
<1>7. HoldEventsAreSeen
  BY DEF HoldEventsAreSeen, TimersInv, HoldInv
<1> QED
  BY <1>5, <1>6, <1>7

(* initSynchronous establishes it. *)
LEMMA InitInv == Init => TimersInv
<1> SUFFICES ASSUME Init PROVE TimersInv
  OBVIOUS
<1>1. model \in Models /\ pc = "loop" /\ currentTime = model.start
  BY DEF Init
<1>2. model.start \in Int /\ model.start <= Horizon
  BY <1>1, StartFacts
<1>3. currentTime \in model.start .. Horizon
  BY <1>1, <1>2, Parameters
<1>4. ListInv
  <2> DEFINE first == FirstTimers(model)
             t == currentTime - Eps
             s == model.start
  <2>1. first \in Seq(Since(model, s)) /\ Sorted(first)
    BY <1>1, FirstFacts
  <2>2. t \in Int /\ s \in Int /\ t <= s
    BY <1>1, <1>2, Parameters
  <2>3. intvlTimers = first /\ inserting = <<>>
    BY DEF Init
  <2> HIDE DEF first, t, s
  <2>4. \A x \in Since(model, s) : x \in Since(model, t)
    <3>1. ASSUME NEW x \in Since(model, s)
          PROVE  x \in Since(model, t)
      <4>1. x.activationTime \in Int /\ x.activationTime >= s
        BY <2>2, TimerFacts
      <4>2. x.activationTime >= t
        BY <2>2, <4>1
      <4> QED
        BY <4>2 DEF Since
    <3> QED
      BY <3>1
  <2>5. first \in Seq(Since(model, t))
    <3>1. \A i \in DOMAIN first : first[i] \in Since(model, s)
      BY <2>1
    <3> QED
      BY <2>1, <2>4, <3>1, Elements
  <2>6. <<>> \in Seq(Since(model, t))
    OBVIOUS
  <2> QED
    BY <2>1, <2>3, <2>5, <2>6 DEF ListInv, t
<1>5. DataInv
  BY DEF Init, DataInv, Clocks, ClockData
<1>6. CountInv
  <2>1. 0 \in 0 .. MaxEvents
    BY Parameters
  <2> QED
    BY <2>1 DEF Init, CountInv, Clocks
<1>7. HoldInv
  <2>1. ret = 0 /\ held = FALSE
    BY DEF Init
  <2>2. ret \in 0 .. 2 /\ ret # 2
    BY <2>1
  <2> QED
    BY <2>1, <2>2, Zenon DEF HoldInv
<1> QED
  BY <1>1, <1>3, <1>4, <1>5, <1>6, <1>7 DEF TimersInv

(* The timers after a handler that leaves the model alone. *)
LEMMA ListKept ==
  ASSUME model' = model,
         intvlTimers' \in Seq(Since(model, currentTime' - Eps)), Sorted(intvlTimers'),
         inserting' \in Seq(Since(model, currentTime' - Eps)),
         pc' = "loop" => inserting' = <<>>
  PROVE  ListInv'
  BY DEF ListInv, Sorted, Since, TimerOf, SubsOf

(* What handleTimers has ready when it calls a clock. *)
LEMMA StateFacts ==
  ASSUME TimersInv
  PROVE  /\ currentTime \in Int /\ model.start \in Int /\ currentTime - Eps \in Int
         /\ currentTime <= Horizon
         /\ \A i \in DOMAIN intvlTimers : /\ intvlTimers[i] \in Since(model, currentTime - Eps)
                                          /\ intvlTimers[i].activationTime \in Int
                                          /\ intvlTimers[i].activationTime >= currentTime - Eps
<1> DEFINE t == currentTime - Eps
<1>1. currentTime \in Int /\ model.start \in Int /\ currentTime <= Horizon
  BY StartFacts, Parameters DEF TimersInv
<1>2. t \in Int
  BY <1>1, Parameters
<1>3. intvlTimers \in Seq(Since(model, t))
  BY DEF TimersInv, ListInv
<1> HIDE DEF t
<1>4. \A i \in DOMAIN intvlTimers : intvlTimers[i] \in Since(model, t)
  BY <1>3
<1>5. \A i \in DOMAIN intvlTimers : /\ intvlTimers[i].activationTime \in Int
                                    /\ intvlTimers[i].activationTime >= t
  BY <1>2, <1>4, TimerFacts
<1> QED
  BY <1>1, <1>2, <1>4, <1>5 DEF t

(* The first timer, and the list without it. *)
LEMMA FirstTimer ==
  ASSUME TimersInv, intvlTimers # <<>>
  PROVE  /\ Head(intvlTimers) \in Since(model, currentTime - Eps)
         /\ Head(intvlTimers).activationTime \in Int
         /\ Head(intvlTimers).activationTime >= currentTime - Eps
         /\ Tail(intvlTimers) \in Seq(Since(model, currentTime - Eps))
         /\ Sorted(Tail(intvlTimers))
         /\ \A i \in DOMAIN intvlTimers :
               Head(intvlTimers).activationTime <= intvlTimers[i].activationTime
<1> DEFINE A == Since(model, currentTime - Eps)
<1>1. intvlTimers \in Seq(A) /\ Sorted(intvlTimers)
  BY DEF TimersInv, ListInv
<1>2. currentTime - Eps \in Int
  BY StateFacts
<1>3. /\ Tail(intvlTimers) \in Seq(A) /\ Head(intvlTimers) \in A
      /\ 1 \in DOMAIN intvlTimers /\ Head(intvlTimers) = intvlTimers[1]
      /\ Sorted(Tail(intvlTimers))
  <2> HIDE DEF A
  <2> QED
    BY <1>1, TailOfList
<1>4. /\ Head(intvlTimers).activationTime \in Int
      /\ Head(intvlTimers).activationTime >= currentTime - Eps
  BY <1>2, <1>3, TimerFacts
<1>5. \A i \in DOMAIN intvlTimers : 1 <= i
  <2> HIDE DEF A
  <2> QED
    BY <1>1
<1>6. \A i \in DOMAIN intvlTimers : intvlTimers[1].activationTime <= intvlTimers[i].activationTime
  BY <1>1, <1>3, <1>5 DEF Sorted
<1> QED
  BY <1>3, <1>4, <1>6

(* insertTimer puts one more timer into the list. *)
LEMMA InsertKeeps == TimersInv /\ InsertTimer => TimersInv'
<1> SUFFICES ASSUME TimersInv, InsertTimer PROVE TimersInv'
  OBVIOUS
<1>1. /\ inserting # <<>>
      /\ intvlTimers' = insertTimer(intvlTimers, Head(inserting))
      /\ inserting' = Tail(inserting)
      /\ UNCHANGED <<pc, model, currentTime, clocksData, ret, events, fired, ran, held>>
  BY DEF InsertTimer
<1>2. ListInv'
  <2> DEFINE t == currentTime - Eps
             A == Since(model, t)
             new == insertTimer(intvlTimers, Head(inserting))
  <2>1. /\ intvlTimers \in Seq(A) /\ Sorted(intvlTimers) /\ inserting \in Seq(A)
        /\ pc = "loop" => inserting = <<>>
    BY DEF TimersInv, ListInv
  <2>2. t \in Int
    BY StateFacts
  <2>3. \A a \in A : a.activationTime \in Int
    <3> HIDE DEF t
    <3> QED
      BY <2>2, TimerFacts
  <2> HIDE DEF A, t
  <2>4. Head(inserting) \in A /\ Tail(inserting) \in Seq(A)
    BY <1>1, <2>1, TailOfList
  <2>5. new \in Seq(A)
    BY <2>1, <2>4, Inserted
  <2>6. Sorted(new)
    BY <2>1, <2>3, <2>4, InOrder
  <2>7. pc # "loop"
    BY <1>1, <2>1
  <2> HIDE DEF new
  <2>8. intvlTimers' = new
    BY <1>1 DEF new
  <2>9. Sorted(intvlTimers')
    BY <2>6, <2>8
  <2>10. currentTime' - Eps = t
    BY <1>1 DEF t
  <2>11. intvlTimers' \in Seq(Since(model, currentTime' - Eps))
    BY <2>5, <2>8, <2>10 DEF A
  <2>12. inserting' \in Seq(Since(model, currentTime' - Eps))
    BY <1>1, <2>4, <2>10 DEF A
  <2> QED
    BY <1>1, <2>7, <2>9, <2>11, <2>12, ListKept
<1>3. DataInv' /\ CountInv' /\ HoldInv'
  BY <1>1 DEF TimersInv, DataInv, CountInv, HoldInv, Clocks, SubsOf
<1> QED
  BY <1>1, <1>2, <1>3 DEF TimersInv

(* A call of a clock keeps its data: the interval is a number, and only a clock
   with a timer counts its ticks. *)
LEMMA DataFacts ==
  ASSUME TimersInv, NEW c \in Clocks
  PROVE  /\ clocksData[c] \in ClockData /\ clocksData[c].cnt \in Nat
         /\ Intervals(c) \subseteq Nat
         /\ ~model.clocks[c].isBoolClock => \A d \in Intervals(c) : d > 2 * Eps
<1>1. /\ clocksData \in [Clocks -> ClockData] /\ model \in Models
      /\ model.clocks[c].isBoolClock => clocksData[c].cnt = 0
  BY DEF TimersInv, DataInv
<1>2. clocksData[c] \in ClockData
  BY <1>1
<1>3. clocksData[c].cnt \in Nat
  BY <1>2 DEF ClockData
<1>4. Intervals(c) = model.clocks[c].intervals
  BY <1>1, <1>3 DEF Intervals
<1>5. /\ model.clocks[c].intervals \subseteq Nat
      /\ model.clocks[c].isBoolClock \/ \A d \in model.clocks[c].intervals : d > 2 * Eps
  BY <1>1, ClockFacts DEF Clocks
<1> QED
  BY <1>2, <1>3, <1>4, <1>5

(* A tick of a base clock. *)
LEMMA BaseKeeps == TimersInv /\ handleBaseClock => TimersInv'
<1> SUFFICES ASSUME TimersInv, handleBaseClock PROVE TimersInv'
  OBVIOUS
<1> DEFINE head == Head(intvlTimers)
           c == head.idx[1]
           curTime == head.activationTime
           t == currentTime - Eps
<1>1. PICK d \in Intervals(c) :
         /\ inserting' = fireClock(c, d, curTime) \o <<Base(c, curTime + d)>>
         /\ clocksData' = [clocksData EXCEPT
                              ![c] = [interval |-> d, timepoint |-> curTime, cnt |-> @.cnt + 1]]
         /\ fired' = [fired EXCEPT ![c] = @ + 1]
  BY DEF handleBaseClock
<1>2. /\ pc = "handle" /\ head.type = "SYNC_BASE_CLOCK" /\ intvlTimers # <<>>
      /\ intvlTimers' = Tail(intvlTimers)
      /\ UNCHANGED <<pc, model, currentTime, ret, events, ran, held>>
  BY DEF handleBaseClock, Due
<1>3. model \in Models /\ currentTime \in Int /\ t \in Int
  BY StateFacts DEF TimersInv
<1>4. /\ head \in Since(model, t) /\ curTime \in Int /\ curTime >= t
      /\ Tail(intvlTimers) \in Seq(Since(model, t)) /\ Sorted(Tail(intvlTimers))
  BY <1>2, FirstTimer
<1>5. c \in Clocks /\ ~model.clocks[c].isBoolClock
  <2> HIDE DEF head, t
  <2> QED
    BY <1>2, <1>3, <1>4, TimerFacts DEF Clocks
<1>6. /\ d \in Nat /\ d > 2 * Eps
      /\ clocksData[c] \in ClockData /\ clocksData[c].cnt \in Nat
  BY <1>1, <1>5, DataFacts
<1> HIDE DEF c, curTime, head
<1>7. d >= Eps /\ t <= curTime /\ t <= curTime + d /\ curTime + d \in Int
  BY <1>3, <1>4, <1>6, Parameters
<1>8. ListInv'
  <2>1. fireClock(c, d, curTime) \in Seq(Since(model, t))
    <3> HIDE DEF t
    <3> QED
      BY <1>3, <1>4, <1>5, <1>6, <1>7, FireFacts
  <2>2. Base(c, curTime + d) \in Since(model, t)
    <3> HIDE DEF t
    <3> QED
      BY <1>3, <1>5, <1>7, BaseTimer DEF Clocks
  <2> DEFINE A == Since(model, t)
             l == fireClock(c, d, curTime)
             b == Base(c, curTime + d)
  <2>3. l \o <<b>> \in Seq(A)
    <3> HIDE DEF A, l, b
    <3>1. l \in Seq(A) /\ b \in A
      BY <2>1, <2>2 DEF A, l, b
    <3> QED
      BY <3>1
  <2>4. inserting' \in Seq(Since(model, t))
    BY <1>1, <2>3
  <2>5. intvlTimers' \in Seq(Since(model, t)) /\ Sorted(intvlTimers')
    <3>1. Sorted(intvlTimers')
      BY <1>2, <1>4
    <3> QED
      BY <1>2, <1>4, <3>1
  <2>6. currentTime' - Eps = t
    BY <1>2
  <2>7. pc' # "loop"
    BY <1>2
  <2> HIDE DEF t
  <2> QED
    BY <1>2, <2>4, <2>5, <2>6, <2>7, ListKept
<1>9. DataInv'
  <2> DEFINE new == [interval |-> d, timepoint |-> curTime, cnt |-> clocksData[c].cnt + 1]
  <2>1. clocksData' = [clocksData EXCEPT ![c] = new]
    BY <1>1
  <2>2. new \in ClockData
    BY <1>4, <1>6 DEF ClockData, curTime
  <2> HIDE DEF new
  <2>3. /\ clocksData \in [Clocks -> ClockData]
        /\ \A k \in Clocks : model.clocks[k].isBoolClock => clocksData[k].cnt = 0
    BY DEF TimersInv, DataInv
  <2>4. clocksData' \in [Clocks -> ClockData]
    BY <2>1, <2>2, <2>3
  <2>5. \A k \in Clocks : k # c => clocksData'[k] = clocksData[k]
    BY <2>1, <2>3
  <2>6. \A k \in Clocks : model.clocks[k].isBoolClock => clocksData'[k].cnt = 0
    BY <1>5, <2>3, <2>5
  <2>7. Clocks' = Clocks /\ model' = model
    BY <1>2 DEF Clocks
  <2> QED
    BY <2>4, <2>6, <2>7 DEF DataInv
<1>10. CountInv'
  <2>1. fired \in [Clocks -> Nat] /\ events \in 0 .. MaxEvents /\ ran \in [SubsOf(model) -> Nat]
    BY DEF TimersInv, CountInv
  <2>2. fired' \in [Clocks -> Nat]
    BY <1>1, <1>5, <2>1
  <2> QED
    BY <1>2, <2>1, <2>2 DEF CountInv, Clocks
<1>11. HoldInv'
  BY <1>2 DEF TimersInv, HoldInv
<1> QED
  BY <1>2, <1>8, <1>9, <1>10, <1>11 DEF TimersInv

(* A tick of a sub clock. *)
LEMMA SubKeeps == TimersInv /\ HandleSubClock => TimersInv'
<1> SUFFICES ASSUME TimersInv, HandleSubClock PROVE TimersInv'
  OBVIOUS
<1> DEFINE head == Head(intvlTimers)
           s == head.idx
           t == currentTime - Eps
<1>1. /\ pc = "handle" /\ inserting = <<>> /\ intvlTimers # <<>>
      /\ head.type = "SYNC_SUB_CLOCK"
      /\ ret' = Handled(s)
      /\ ran' = [ran EXCEPT ![s] = @ + 1]
      /\ held' = (held \/ Holds(s))
      /\ intvlTimers' = Tail(intvlTimers)
      /\ UNCHANGED <<pc, model, currentTime, inserting, clocksData, events, fired>>
  BY DEF HandleSubClock, Due
<1>2. model \in Models /\ currentTime \in Int /\ t \in Int
  BY StateFacts DEF TimersInv
<1>3. /\ head \in Since(model, t)
      /\ Tail(intvlTimers) \in Seq(Since(model, t)) /\ Sorted(Tail(intvlTimers))
  BY <1>1, FirstTimer
<1>4. s \in SubsOf(model)
  <2> HIDE DEF head, t
  <2> QED
    BY <1>1, <1>2, <1>3, TimerFacts
<1> HIDE DEF s, head
<1>5. Holds(s) \in BOOLEAN
  <2>1. model.clocks[s[1]].subs[s[2]] \in SubClock
    BY <1>2, <1>4, SubNumber
  <2> QED
    BY <2>1, SubFacts DEF Holds
<1>6. ListInv'
  <2>1. intvlTimers' \in Seq(Since(model, t)) /\ Sorted(intvlTimers')
    <3>1. Sorted(intvlTimers')
      BY <1>1, <1>3
    <3> QED
      BY <1>1, <1>3, <3>1
  <2>2. inserting' \in Seq(Since(model, t))
    BY <1>1 DEF TimersInv, ListInv
  <2>3. currentTime' - Eps = t /\ pc' # "loop"
    BY <1>1
  <2> HIDE DEF t
  <2> QED
    BY <1>1, <2>1, <2>2, <2>3, ListKept
<1>7. CountInv'
  <2>1. fired \in [Clocks -> Nat] /\ events \in 0 .. MaxEvents /\ ran \in [SubsOf(model) -> Nat]
    BY DEF TimersInv, CountInv
  <2>2. ran' \in [SubsOf(model) -> Nat]
    BY <1>1, <1>4, <2>1
  <2>3. SubsOf(model') = SubsOf(model)
    BY <1>1
  <2> QED
    BY <1>1, <2>1, <2>2, <2>3 DEF CountInv, Clocks
<1>8. HoldInv'
  <2>1. ret \in 0 .. 2 /\ held \in BOOLEAN /\ (ret = 2 <=> held)
    BY DEF TimersInv, HoldInv
  <2>2. CASE Holds(s)
    <3>1. ret' = 2
      BY <1>1, <2>2 DEF Handled
    <3>2. ret' \in 0 .. 2
      BY <3>1
    <3>3. held' = TRUE
      BY <1>1, <2>2
    <3> QED
      BY <3>1, <3>2, <3>3, Zenon DEF HoldInv
  <2>3. CASE ~Holds(s) /\ ret = 2
    <3>1. ret' = 2 /\ held
      BY <1>1, <2>1, <2>3 DEF Handled
    <3>2. ret' \in 0 .. 2
      BY <3>1
    <3>3. held' = TRUE
      BY <1>1, <3>1
    <3> QED
      BY <3>1, <3>2, <3>3, Zenon DEF HoldInv
  <2>4. CASE ~Holds(s) /\ ret # 2
    <3>1. ret' = 1 /\ ~held
      BY <1>1, <2>1, <2>4 DEF Handled
    <3>2. ret' \in 0 .. 2 /\ ret' # 2
      BY <3>1
    <3>3. held' = FALSE
      BY <1>1, <2>4, <3>1
    <3> QED
      BY <3>2, <3>3, Zenon DEF HoldInv
  <2> QED
    BY <2>2, <2>3, <2>4
<1>9. DataInv'
  BY <1>1 DEF TimersInv, DataInv, Clocks
<1> QED
  BY <1>1, <1>6, <1>7, <1>8, <1>9 DEF TimersInv

(* handleTimers returns when no timer is due, and none is to be inserted. *)
LEMMA ReturnKeeps == TimersInv /\ TimersHandled => TimersInv'
<1> SUFFICES ASSUME TimersInv, TimersHandled PROVE TimersInv'
  OBVIOUS
<1>1. /\ inserting = <<>> /\ pc' = "loop"
      /\ UNCHANGED <<model, currentTime, intvlTimers, inserting, clocksData, ret, events,
                     fired, ran, held>>
  BY DEF TimersHandled
<1>2. ListInv'
  <2>1. /\ intvlTimers' \in Seq(Since(model, currentTime' - Eps))
        /\ inserting' \in Seq(Since(model, currentTime' - Eps))
    BY <1>1 DEF TimersInv, ListInv
  <2>2. Sorted(intvlTimers')
    BY <1>1 DEF TimersInv, ListInv
  <2> QED
    BY <1>1, <2>1, <2>2, ListKept
<1>3. DataInv' /\ CountInv' /\ HoldInv'
  BY <1>1 DEF TimersInv, DataInv, CountInv, HoldInv, Clocks, SubsOf
<1> QED
  BY <1>1, <1>2, <1>3 DEF TimersInv

(* handleTimers starts without a tick. *)
LEMMA CallStarts == ASSUME CallHandleTimers PROVE HoldInv' /\ pc' = "handle"
<1>1. pc' = "handle" /\ ret' = 0 /\ held' = FALSE
  BY DEF CallHandleTimers
<1>2. ret' \in 0 .. 2 /\ ret' # 2
  BY <1>1
<1> QED
  BY <1>1, <1>2, Zenon DEF HoldInv

(* A step of the solver: it does not end further behind the first timer than
   the tolerance, and so behind no other. *)
LEMMA StepKeeps == TimersInv /\ SolverStep => TimersInv'
<1> SUFFICES ASSUME TimersInv, SolverStep PROVE TimersInv'
  OBVIOUS
<1>1. /\ pc = "loop" /\ currentTime' \in StepEnds /\ CallHandleTimers
      /\ UNCHANGED <<model, intvlTimers, inserting, clocksData, events, fired, ran>>
  BY DEF SolverStep
<1>2. /\ inserting = <<>> /\ model \in Models /\ currentTime \in model.start .. Horizon
      /\ intvlTimers \in Seq(Since(model, currentTime - Eps)) /\ Sorted(intvlTimers)
  BY <1>1 DEF TimersInv, ListInv
<1>3. HoldInv' /\ pc' = "handle"
  BY <1>1, CallStarts
<1>4. currentTime \in Int /\ model.start \in Int /\ currentTime - Eps \in Int
      /\ model.start <= currentTime /\ currentTime <= Horizon
  BY <1>2, StateFacts
<1> DEFINE first == IF intvlTimers = <<>> THEN Horizon ELSE Head(intvlTimers).activationTime
<1>5. first \in Int
  <2>1. intvlTimers # <<>> => Head(intvlTimers).activationTime \in Int
    BY FirstTimer
  <2> QED
    BY <2>1, Parameters
<1>6. \/ currentTime' = currentTime
      \/ currentTime' \in currentTime + 1 .. first + Eps /\ currentTime' <= Horizon
  BY <1>1 DEF StepEnds
<1>7. /\ currentTime' \in Int /\ currentTime <= currentTime' /\ currentTime' <= Horizon
      /\ currentTime' = currentTime \/ currentTime' - Eps <= first
  <2> HIDE DEF first
  <2> QED
    BY <1>4, <1>5, <1>6, Parameters
<1>8. \A i \in DOMAIN intvlTimers : intvlTimers[i].activationTime >= currentTime' - Eps
  <2>1. ASSUME NEW i \in DOMAIN intvlTimers
        PROVE  intvlTimers[i].activationTime >= currentTime' - Eps
    <3>1. intvlTimers[i].activationTime \in Int
          /\ intvlTimers[i].activationTime >= currentTime - Eps
      BY <2>1, StateFacts
    <3>2. intvlTimers # <<>>
      BY <2>1
    <3>3. first <= intvlTimers[i].activationTime
      BY <2>1, <3>2, FirstTimer
    <3> HIDE DEF first
    <3>4. CASE currentTime' = currentTime
      BY <3>1, <3>4
    <3>5. CASE currentTime' - Eps <= first
      <4> DEFINE u == currentTime' - Eps
                 a == intvlTimers[i].activationTime
      <4>1. u \in Int /\ u <= first
        BY <1>7, <3>5, Parameters
      <4>2. a \in Int /\ first <= a
        BY <3>1, <3>3
      <4> HIDE DEF u, a
      <4>3. a >= u
        BY <1>5, <4>1, <4>2
      <4> QED
        BY <4>3 DEF u, a
    <3> QED
      BY <1>7, <3>4, <3>5
  <2> QED
    BY <2>1
<1>9. ListInv'
  <2> DEFINE u == currentTime' - Eps
  <2>1. \A i \in DOMAIN intvlTimers : intvlTimers[i] \in Since(model, u)
    <3>1. ASSUME NEW i \in DOMAIN intvlTimers
          PROVE  intvlTimers[i] \in Since(model, u)
      <4>1. intvlTimers[i] \in Since(model, currentTime - Eps)
        BY <3>1, StateFacts
      <4>2. intvlTimers[i].activationTime >= u
        BY <1>8, <3>1
      <4> HIDE DEF u
      <4> QED
        BY <4>1, <4>2 DEF Since
    <3> QED
      BY <3>1
  <2> HIDE DEF u
  <2>2. intvlTimers \in Seq(Since(model, u))
    BY <1>2, <2>1, Elements
  <2>3. intvlTimers' \in Seq(Since(model, u)) /\ inserting' \in Seq(Since(model, u))
    <3>1. <<>> \in Seq(Since(model, u))
      OBVIOUS
    <3> QED
      BY <1>1, <1>2, <2>2, <3>1
  <2>4. Sorted(intvlTimers')
    BY <1>1, <1>2
  <2>5. pc' # "loop"
    BY <1>3
  <2> QED
    BY <1>1, <2>3, <2>4, <2>5, ListKept DEF u
<1>10. DataInv' /\ CountInv'
  BY <1>1 DEF TimersInv, DataInv, CountInv, Clocks, SubsOf
<1>11. currentTime' \in model'.start .. Horizon
  <2>1. currentTime' \in model.start .. Horizon
    BY <1>4, <1>7, Parameters
  <2> QED
    BY <1>1, <2>1
<1>12. model' \in Models /\ pc' \in {"loop", "handle"}
  BY <1>1, <1>2, <1>3
<1> QED
  BY <1>3, <1>9, <1>10, <1>11, <1>12 DEF TimersInv

(* A Boolean clock fires. *)
LEMMA FireKeeps ==
  ASSUME TimersInv, NEW c \in Clocks, FireBooleanClock(c)
  PROVE  TimersInv'
<1> DEFINE t == currentTime - Eps
<1>1. PICK d \in Intervals(c) :
         /\ inserting' = fireClock(c, d, currentTime)
         /\ clocksData' = [clocksData EXCEPT ![c].interval = d]
  BY DEF FireBooleanClock
<1>2. /\ pc = "loop" /\ model.clocks[c].isBoolClock /\ events < MaxEvents /\ events' = events + 1
      /\ fired' = [fired EXCEPT ![c] = @ + 1]
      /\ CallHandleTimers
      /\ UNCHANGED <<model, currentTime, intvlTimers, ran>>
  BY DEF FireBooleanClock
<1>3. model \in Models /\ currentTime \in Int /\ t \in Int
  BY StateFacts DEF TimersInv
<1>4. HoldInv' /\ pc' = "handle"
  BY <1>2, CallStarts
<1>5. d \in Nat /\ clocksData[c].cnt \in Nat /\ clocksData[c] \in ClockData
  BY <1>1, DataFacts
<1>6. ListInv'
  <2>1. fireClock(c, d, currentTime) \in Seq(Since(model, t))
    <3>1. clocksData[c].cnt \in Int /\ t <= currentTime - Eps
      BY <1>3, <1>5
    <3> HIDE DEF t
    <3> QED
      BY <1>3, <1>5, <3>1, FireFacts
  <2>2. intvlTimers \in Seq(Since(model, t)) /\ Sorted(intvlTimers)
    BY DEF TimersInv, ListInv
  <2>3. intvlTimers' \in Seq(Since(model, t)) /\ inserting' \in Seq(Since(model, t))
    BY <1>1, <1>2, <2>1, <2>2
  <2>4. Sorted(intvlTimers')
    BY <1>2, <2>2
  <2>5. currentTime' - Eps = t /\ pc' # "loop"
    BY <1>2, <1>4
  <2> HIDE DEF t
  <2> QED
    BY <1>2, <2>3, <2>4, <2>5, ListKept
<1>7. DataInv'
  <2>1. /\ clocksData \in [Clocks -> ClockData]
        /\ \A k \in Clocks : model.clocks[k].isBoolClock => clocksData[k].cnt = 0
    BY DEF TimersInv, DataInv
  <2> DEFINE new == [clocksData[c] EXCEPT !.interval = d]
  <2>2. clocksData' = [clocksData EXCEPT ![c] = new]
    BY <1>1
  <2>3. new \in ClockData /\ new.cnt = clocksData[c].cnt
    BY <1>5 DEF ClockData
  <2> HIDE DEF new
  <2>4. clocksData' \in [Clocks -> ClockData]
    BY <2>1, <2>2, <2>3
  <2>5. \A k \in Clocks : clocksData'[k].cnt = clocksData[k].cnt
    BY <2>1, <2>2, <2>3
  <2>6. \A k \in Clocks : model.clocks[k].isBoolClock => clocksData'[k].cnt = 0
    BY <2>1, <2>5
  <2>7. Clocks' = Clocks /\ model' = model
    BY <1>2 DEF Clocks
  <2> QED
    BY <2>4, <2>6, <2>7 DEF DataInv
<1>8. CountInv'
  <2>1. fired \in [Clocks -> Nat] /\ events \in 0 .. MaxEvents /\ ran \in [SubsOf(model) -> Nat]
    BY DEF TimersInv, CountInv
  <2>2. fired' \in [Clocks -> Nat]
    BY <1>2, <2>1
  <2>3. events' \in 0 .. MaxEvents
    BY <1>2, <2>1, Parameters
  <2>4. SubsOf(model') = SubsOf(model)
    BY <1>2
  <2> QED
    BY <1>2, <2>1, <2>2, <2>3, <2>4 DEF CountInv, Clocks
<1>9. pc' \in {"loop", "handle"}
  BY <1>4
<1> QED
  BY <1>2, <1>4, <1>6, <1>7, <1>8, <1>9 DEF TimersInv

(* No step leaves the invariant. *)
LEMMA NextKeeps == TimersInv /\ [Next]_vars => TimersInv'
<1> SUFFICES ASSUME TimersInv, [Next]_vars PROVE TimersInv'
  OBVIOUS
<1>1. CASE SolverStep
  BY <1>1, StepKeeps
<1>2. CASE HandleTimers
  BY <1>2, InsertKeeps, BaseKeeps, SubKeeps, ReturnKeeps DEF HandleTimers
<1>3. CASE \E c \in Clocks : FireBooleanClock(c)
  BY <1>3, FireKeeps
<1>4. CASE UNCHANGED vars
  BY <1>4 DEF vars, TimersInv, ListInv, Sorted, Since, TimerOf, DataInv, CountInv, HoldInv,
              Clocks, SubsOf
<1> QED
  BY <1>1, <1>2, <1>3, <1>4 DEF Next

(* The invariant holds in every state. *)
LEMMA Invariance == Spec => []TimersInv
<1>1. TimersInv /\ [Next]_vars => TimersInv'
  BY NextKeeps
<1> QED
  BY <1>1, InitInv, PTL DEF Spec

-----------------------------------------------------------------------------
(* Type correctness, for every model and every horizon: the arithmetic of the
   sub clocks stays defined. *)
THEOREM TypeCorrect == Spec => []TypeOK
<1>1. TimersInv => TypeOK
  BY InvImplies
<1> QED
  BY <1>1, Invariance, PTL

(* No timer is left behind when time goes on: insertTimer keeps the list in
   order, a tick inserts no timer before itself, and a step ends at the first. *)
THEOREM NoneIsPassed == Spec => []NoTimerPassed
<1>1. TimersInv => NoTimerPassed
  BY InvImplies
<1> QED
  BY <1>1, Invariance, PTL

(* handleTimers reports held events exactly if one of its ticks held events. *)
THEOREM HoldsAreSeen == Spec => []HoldEventsAreSeen
<1>1. TimersInv => HoldEventsAreSeen
  BY InvImplies
<1> QED
  BY <1>1, Invariance, PTL

=============================================================================
