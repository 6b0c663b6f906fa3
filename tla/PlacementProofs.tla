-------------------------- MODULE PlacementProofs ---------------------------
(* A settled Service has the load balancer its annotations ask for, for    *)
(* every set of requests, subnets, configurations and security groups and  *)
(* every bound, and for every way append grows a slice.  The loops over    *)
(* annotations and ports are proved by induction on their passes, stated   *)
(* with sets.                                                              *)
EXTENDS Placement, WellFoundedInduction, FiniteSetTheorems, TLAPS

-----------------------------------------------------------------------------
(* Loops and lists                                                         *)

(* The naturals are what has zero and each successor: the smallest one     *)
(* missing from T would have a predecessor in T.                           *)
LEMMA SetInduction ==
    ASSUME NEW T, 0 \in T, \A n \in Nat : n \in T => n + 1 \in T
    PROVE  Nat \subseteq T
<1> SUFFICES ASSUME Nat \ T # {} PROVE FALSE
  OBVIOUS
<1> DEFINE R == {ss \in Nat \X Nat : ss[1] < ss[2]}
<1>1. IsWellFoundedOn(R, Nat)
  BY NatLessThanWellFounded DEF OpToRel
<1>2. PICK x \in Nat \ T : \A y \in Nat \ T : ~(<<y, x>> \in R)
  <2> HIDE DEF R
  <2> QED BY <1>1, WFMin
<1>3. \A y \in Nat \ T : ~(y < x)
  BY <1>2
<1>4. x # 0 /\ x - 1 \in Nat /\ x - 1 < x /\ x - 1 + 1 = x
  OBVIOUS
<1>5. x - 1 \in T
  BY <1>3, <1>4
<1> QED BY <1>4, <1>5

(* f[n] is the value of T after n of the N passes of a loop.               *)
IsLoop(f, N, T, start, step) ==
    /\ f \in [0..N -> T] /\ f[0] = start
    /\ \A n \in 1..N : f[n] = step[<<n, f[n - 1]>>]

(* A loop of N passes over a value of T has a function that gives the      *)
(* value after each pass.                                                  *)
LEMMA LoopExists ==
    ASSUME NEW N \in Nat, NEW T, NEW start \in T, NEW step \in [(1..N) \X T -> T]
    PROVE  \E f : IsLoop(f, N, T, start, step)
<1> DEFINE Done(m) == \E f \in [0..m -> T] :
                        f[0] = start /\ \A n \in 1..m : f[n] = step[<<n, f[n - 1]>>]
           D == {m \in Nat : m =< N => Done(m)}
<1>1. 0 \in D
  <2> DEFINE g == [n \in 0..0 |-> start]
  <2>1. g \in [0..0 -> T] /\ g[0] = start /\ \A n \in 1..0 : g[n] = step[<<n, g[n - 1]>>]
    OBVIOUS
  <2> QED BY <2>1
<1>2. ASSUME NEW m \in Nat, m \in D PROVE m + 1 \in D
  <2> SUFFICES ASSUME m + 1 =< N PROVE Done(m + 1)
    OBVIOUS
  <2>1. PICK f \in [0..m -> T] : f[0] = start /\ \A n \in 1..m : f[n] = step[<<n, f[n - 1]>>]
    BY <1>2
  <2> DEFINE v == step[<<m + 1, f[m]>>]
             g == [n \in 0..(m + 1) |-> IF n = m + 1 THEN v ELSE f[n]]
  <2>2. m + 1 \in 1..N /\ m \in 0..m /\ f[m] \in T
    OBVIOUS
  <2>3. v \in T
    BY <2>2
  <2> HIDE DEF v
  <2>4. g \in [0..(m + 1) -> T] /\ g[0] = start
    <3>1. \A n \in 0..(m + 1) : n # m + 1 => n \in 0..m
      OBVIOUS
    <3>2. \A n \in 0..(m + 1) : (IF n = m + 1 THEN v ELSE f[n]) \in T
      BY <2>1, <2>3, <3>1
    <3>3. 0 \in 0..(m + 1) /\ 0 # m + 1
      OBVIOUS
    <3> QED BY <2>1, <3>2, <3>3
  <2>5. ASSUME NEW n \in 1..(m + 1) PROVE g[n] = step[<<n, g[n - 1]>>]
    <3>1. n - 1 \in 0..m /\ g[n - 1] = f[n - 1]
      OBVIOUS
    <3>2. CASE n = m + 1
      <4>1. g[n] = v /\ n - 1 = m /\ g[n - 1] = f[m] /\ n = m + 1
        BY <3>1, <3>2
      <4> HIDE DEF g
      <4> QED BY <4>1 DEF v
    <3>3. CASE n # m + 1
      <4>1. n \in 1..m /\ g[n] = f[n]
        BY <3>3
      <4> QED BY <2>1, <3>1, <4>1
    <3> QED BY <3>2, <3>3
  <2> HIDE DEF g
  <2> QED BY <2>4, <2>5
<1> HIDE DEF Done
<1>3. N \in D
  <2>1. \A n \in Nat : n \in D => n + 1 \in D
    BY <1>2
  <2> HIDE DEF D
  <2> QED BY <1>1, <2>1, SetInduction
<1> QED BY <1>3 DEF Done, IsLoop

(* The list AtPositions builds, pass by pass.                              *)
LEMMA AtPositionsLoop ==
    ASSUME NEW S, NEW s \in Seq(S), NEW I
    PROVE  \E f : /\ f[0] = <<>>
                  /\ \A n \in 1..Len(s) : f[n] = IF n \in I THEN Append(f[n - 1], s[n]) ELSE f[n - 1]
                  /\ AtPositions(s, I) = f[Len(s)]
<1> DEFINE N == Len(s)
           step == [p \in (1..N) \X Seq(S) |-> IF p[1] \in I THEN Append(p[2], s[p[1]]) ELSE p[2]]
           loop == CHOOSE f : f = [n \in 0..N |->
                     IF n = 0 THEN <<>> ELSE IF n \in I THEN Append(f[n - 1], s[n]) ELSE f[n - 1]]
<1>1. N \in Nat /\ <<>> \in Seq(S) /\ \A n \in 1..N : s[n] \in S
  OBVIOUS
<1>2. step \in [(1..N) \X Seq(S) -> Seq(S)]
  <2> SUFFICES ASSUME NEW p \in (1..N) \X Seq(S)
               PROVE  (IF p[1] \in I THEN Append(p[2], s[p[1]]) ELSE p[2]) \in Seq(S)
    OBVIOUS
  <2>1. PICK n \in 1..N, q \in Seq(S) : p = <<n, q>>
    OBVIOUS
  <2>2. s[n] \in S
    BY <1>1
  <2>3. Append(q, s[n]) \in Seq(S)
    BY <2>2
  <2>4. p[1] = n /\ p[2] = q
    BY <2>1
  <2> QED BY <2>3, <2>4
<1>3. PICK f \in [0..N -> Seq(S)] : f[0] = <<>> /\ \A n \in 1..N : f[n] = step[<<n, f[n - 1]>>]
  <2> HIDE DEF N, step
  <2>1. PICK f : IsLoop(f, N, Seq(S), <<>>, step)
    BY <1>1, <1>2, LoopExists
  <2> QED BY <2>1 DEF IsLoop
<1>4. f = [n \in 0..N |-> IF n = 0 THEN <<>> ELSE IF n \in I THEN Append(f[n - 1], s[n]) ELSE f[n - 1]]
  <2>1. ASSUME NEW n \in 0..N, n # 0
        PROVE  f[n] = IF n \in I THEN Append(f[n - 1], s[n]) ELSE f[n - 1]
    <3>1. n \in 1..N /\ n - 1 \in 0..N
      BY <1>1, <2>1
    <3>2. f[n - 1] \in Seq(S)
      BY <1>3, <3>1
    <3> QED BY <1>3, <3>1, <3>2
  <2>2. \A n \in 0..N : f[n] = IF n = 0 THEN <<>> ELSE IF n \in I THEN Append(f[n - 1], s[n]) ELSE f[n - 1]
    <3> HIDE DEF step
    <3> QED BY <1>3, <2>1
  <2> HIDE DEF step, N
  <2> QED BY <2>2
<1>5. loop = [n \in 0..N |-> IF n = 0 THEN <<>> ELSE IF n \in I THEN Append(loop[n - 1], s[n]) ELSE loop[n - 1]]
  <2> HIDE DEF N
  <2> QED BY <1>4, Zenon
<1>6. AtPositions(s, I) = loop[N]
  BY DEF AtPositions
<1> HIDE DEF loop
<1>7. loop[0] = <<>> /\ \A n \in 1..N : loop[n] = IF n \in I THEN Append(loop[n - 1], s[n]) ELSE loop[n - 1]
  <2> HIDE DEF N
  <2>1. 0 \in 0..N /\ \A n \in 1..N : n \in 0..N /\ n # 0
    BY <1>1
  <2>2. \A n \in 0..N : loop[n] = IF n = 0 THEN <<>> ELSE IF n \in I THEN Append(loop[n - 1], s[n]) ELSE loop[n - 1]
    BY <1>5, Zenon
  <2> QED BY <2>1, <2>2
<1> QED BY <1>6, <1>7

(* The members of a list.                                                  *)
LEMMA Elements ==
    ASSUME NEW S, NEW v \in Seq(S)
    PROVE  (\A i \in DOMAIN v : v[i] \in S) /\ (v # <<>> => 1 \in DOMAIN v)
OBVIOUS

(* Two lists with the same values at the same positions.                   *)
LEMMA SameList ==
    ASSUME NEW S, NEW s \in Seq(S), NEW t \in Seq(S),
           Len(s) = Len(t), \A i \in 1..Len(s) : s[i] = t[i]
    PROVE  s = t
OBVIOUS

(* A list over some values is one over more values.                        *)
LEMMA Wider ==
    ASSUME NEW S, NEW T, S \subseteq T, NEW s \in Seq(S)
    PROVE  s \in Seq(T)
OBVIOUS

(* What Append adds to a list, and when it keeps its elements apart.       *)
LEMMA Appended ==
    ASSUME NEW S, NEW q \in Seq(S), NEW x \in S
    PROVE  /\ Append(q, x) \in Seq(S) /\ ToSet(Append(q, x)) = ToSet(q) \cup {x}
           /\ IsInjective(q) /\ x \notin ToSet(q) => IsInjective(Append(q, x))
<1> DEFINE n == Len(q)
           a == Append(q, x)
<1>1. n \in Nat /\ DOMAIN q = 1..n /\ a \in Seq(S) /\ DOMAIN a = 1..(n + 1) /\ a[n + 1] = x
  OBVIOUS
<1>2. \A i \in 1..n : a[i] = q[i]
  OBVIOUS
<1>3. \A i : i \in 1..(n + 1) <=> i \in 1..n \/ i = n + 1
  BY <1>1
<1> HIDE DEF n, a
<1>4. ToSet(a) = ToSet(q) \cup {x}
  <2>1. ASSUME NEW y \in ToSet(a) PROVE y \in ToSet(q) \cup {x}
    <3>1. PICK i \in 1..(n + 1) : y = a[i]
      BY <1>1 DEF ToSet
    <3> QED BY <1>1, <1>2, <1>3, <3>1 DEF ToSet
  <2>2. ToSet(q) \cup {x} \subseteq ToSet(a)
    BY <1>1, <1>2, <1>3 DEF ToSet
  <2> QED BY <2>1, <2>2
<1>5. ASSUME IsInjective(q), x \notin ToSet(q) PROVE IsInjective(a)
  <2>1. \A i, j \in 1..n : q[i] = q[j] => i = j
    BY <1>1, <1>5 DEF IsInjective
  <2>2. \A i \in 1..n : q[i] # x
    BY <1>1, <1>5 DEF ToSet
  <2>3. \A i, j \in 1..(n + 1) : a[i] = a[j] => i = j
    BY <1>1, <1>2, <1>3, <2>1, <2>2
  <2> QED BY <1>1, <2>3 DEF IsInjective
<1> QED BY <1>1, <1>4, <1>5 DEF a

(* The list AtPositions builds has what is at those positions, and each    *)
(* once if these positions hold different values.                          *)
LEMMA AtPositionsIs ==
    ASSUME NEW S, NEW s \in Seq(S), NEW I
    PROVE  /\ AtPositions(s, I) \in Seq(S)
           /\ ToSet(AtPositions(s, I)) = {s[i] : i \in I \cap DOMAIN s}
           /\ (\A i, j \in I \cap DOMAIN s : s[i] = s[j] => i = j)
                => IsInjective(AtPositions(s, I))
<1> DEFINE N == Len(s)
           At(n) == {s[i] : i \in I \cap (1..n)}
           Apart == \A i, j \in I \cap DOMAIN s : s[i] = s[j] => i = j
<1>1. N \in Nat /\ DOMAIN s = 1..N /\ \A n \in 1..N : s[n] \in S
  OBVIOUS
<1>2. PICK f : /\ f[0] = <<>>
               /\ \A n \in 1..N : f[n] = IF n \in I THEN Append(f[n - 1], s[n]) ELSE f[n - 1]
               /\ AtPositions(s, I) = f[N]
  BY AtPositionsLoop
<1> HIDE DEF N
<1> DEFINE Good(n) == /\ f[n] \in Seq(S) /\ ToSet(f[n]) = At(n)
                      /\ Apart => IsInjective(f[n])
           D == {n \in Nat : n =< N => Good(n)}
<1>3. 0 \in D
  <2>1. <<>> \in Seq(S) /\ ToSet(<<>>) = {} /\ IsInjective(<<>>) /\ At(0) = {}
    BY DEF ToSet, IsInjective
  <2> HIDE DEF At, Apart
  <2> QED BY <1>2, <2>1
<1>4. ASSUME NEW m \in Nat, m \in D PROVE m + 1 \in D
  <2> SUFFICES ASSUME m + 1 =< N PROVE Good(m + 1)
    OBVIOUS
  <2>1. Good(m) /\ m + 1 \in 1..N /\ m + 1 - 1 = m
    BY <1>1, <1>4
  <2>2. \A i : i \in 1..(m + 1) <=> i \in 1..m \/ i = m + 1
    OBVIOUS
  <2>3. CASE m + 1 \notin I
    <3>1. f[m + 1] = f[m]
      BY <1>2, <2>1, <2>3
    <3>2. At(m + 1) = At(m)
      BY <2>2, <2>3
    <3> HIDE DEF At, Apart
    <3> QED BY <2>1, <3>1, <3>2
  <2>4. CASE m + 1 \in I
    <3>0. PICK k : k = m + 1
      OBVIOUS
    <3>a. k \in 1..N /\ k \in I /\ k - 1 = m
      BY <2>1, <2>4, <3>0
    <3>1. f[m + 1] = Append(f[m], s[m + 1]) /\ s[m + 1] \in S
      <4> HIDE DEF D, At, Apart
      <4>1. f[k] = Append(f[k - 1], s[k]) /\ s[k] \in S
        BY <1>1, <1>2, <3>a
      <4> QED BY <3>0, <3>a, <4>1
    <3>2. At(m + 1) = At(m) \cup {s[m + 1]}
      BY <2>2, <2>4
    <3>3. Apart => s[m + 1] \notin At(m)
      <4> SUFFICES ASSUME Apart, NEW i \in I \cap (1..m), s[i] = s[m + 1] PROVE FALSE
        OBVIOUS
      <4>1. i \in I \cap DOMAIN s /\ m + 1 \in I \cap DOMAIN s /\ i # m + 1
        BY <1>1, <2>1, <2>4
      <4> QED BY <4>1
    <3>4. PICK q : q = f[m]
      OBVIOUS
    <3> HIDE DEF At, Apart
    <3>5. /\ Append(q, s[m + 1]) \in Seq(S) /\ ToSet(Append(q, s[m + 1])) = ToSet(q) \cup {s[m + 1]}
          /\ IsInjective(q) /\ s[m + 1] \notin ToSet(q) => IsInjective(Append(q, s[m + 1]))
      BY <2>1, <3>1, <3>4, Appended
    <3> QED BY <2>1, <3>1, <3>2, <3>3, <3>4, <3>5
  <2> QED BY <2>3, <2>4
<1> HIDE DEF Good
<1>5. N \in D
  <2>1. \A n \in Nat : n \in D => n + 1 \in D
    BY <1>4
  <2> HIDE DEF D
  <2> QED BY <1>1, <1>3, <2>1, SetInduction
<1>6. Good(N)
  BY <1>1, <1>5
<1> QED BY <1>1, <1>2, <1>6 DEF Good

(* A value of a list has a first occurrence.                               *)
LEMMA FirstOccurrence ==
    ASSUME NEW S, NEW s \in Seq(S), NEW k \in DOMAIN s
    PROVE  \E i \in DOMAIN s : s[i] = s[k] /\ \A j \in 1..(i - 1) : s[j] # s[i]
<1> DEFINE N == Len(s)
           Later == {n \in Nat : \A i \in 1..n : i \in 1..N => s[i] # s[k]}
<1>1. N \in Nat /\ DOMAIN s = 1..N /\ k \in 1..N
  OBVIOUS
<1> HIDE DEF N
<1> SUFFICES ASSUME \A i \in 1..N : s[i] = s[k] => \E j \in 1..(i - 1) : s[j] = s[i]
             PROVE  FALSE
  BY <1>1
<1>2. 0 \in Later
  OBVIOUS
<1>3. \A n \in Nat : n \in Later => n + 1 \in Later
  <2>1. ASSUME NEW n \in Nat, n \in Later, NEW i \in 1..(n + 1), i \in 1..N, s[i] = s[k]
        PROVE  FALSE
    <3>1. \A j \in 1..n : j \in 1..N => s[j] # s[k]
      BY <2>1
    <3> HIDE DEF Later
    <3>2. PICK j \in 1..(i - 1) : s[j] = s[i]
      BY <2>1
    <3>3. i \in Nat /\ i =< n + 1 /\ i =< N /\ j \in Nat /\ j >= 1 /\ j =< i - 1
      BY <1>1, <2>1
    <3>4. j \in 1..n /\ j \in 1..N
      BY <1>1, <3>3
    <3> QED BY <2>1, <3>1, <3>2, <3>4
  <2>2. ASSUME NEW n \in Nat, n \in Later PROVE n + 1 \in Later
    <3>1. \A i \in 1..(n + 1) : i \in 1..N => s[i] # s[k]
      <4> HIDE DEF Later
      <4> QED BY <2>1, <2>2
    <3> QED BY <3>1
  <2> HIDE DEF Later
  <2> QED BY <2>2
<1>4. N \in Later
  <2> HIDE DEF Later
  <2> QED BY <1>1, <1>2, <1>3, SetInduction
<1> QED BY <1>1, <1>4

(* removeDuplicateStrings keeps every value, once.                         *)
LEMMA DistinctIs ==
    ASSUME NEW S, NEW s \in Seq(S)
    PROVE  /\ Distinct(s) \in Seq(S) /\ ToSet(Distinct(s)) = ToSet(s)
           /\ IsInjective(Distinct(s))
<1> DEFINE I == {i \in DOMAIN s : \A j \in 1..(i - 1) : s[j] # s[i]}
<1>1. \A i, j \in I \cap DOMAIN s : s[i] = s[j] => i = j
  <2> SUFFICES ASSUME NEW i \in I, NEW j \in I, s[i] = s[j], i < j PROVE FALSE
    OBVIOUS
  <2>1. i \in 1..(j - 1)
    OBVIOUS
  <2> QED BY <2>1
<1>2. {s[i] : i \in I \cap DOMAIN s} = ToSet(s)
  <2>1. ASSUME NEW k \in DOMAIN s PROVE \E i \in I : s[i] = s[k]
    BY FirstOccurrence
  <2> HIDE DEF I
  <2>2. I \subseteq DOMAIN s
    BY DEF I
  <2> QED BY <2>1, <2>2 DEF ToSet
<1>3. Distinct(s) = AtPositions(s, I)
  BY DEF Distinct
<1> HIDE DEF I
<1>4. /\ AtPositions(s, I) \in Seq(S)
      /\ ToSet(AtPositions(s, I)) = {s[i] : i \in I \cap DOMAIN s}
      /\ IsInjective(AtPositions(s, I))
  BY <1>1, AtPositionsIs
<1> QED BY <1>2, <1>3, <1>4

(* A list without duplicates is as long as it has values.                  *)
LEMMA LengthOfDistinct ==
    ASSUME NEW S, NEW s \in Seq(S), IsInjective(s)
    PROVE  Len(s) = Cardinality(ToSet(s))
<1> DEFINE N == Len(s)
<1>1. N \in Nat /\ DOMAIN s = 1..N /\ s \in [1..N -> ToSet(s)]
  BY DEF ToSet
<1> HIDE DEF N
<1>2. s \in Injection(1..N, ToSet(s)) /\ s \in Surjection(1..N, ToSet(s))
  BY <1>1 DEF Injection, Surjection, ToSet
<1>3. ExistsBijection(1..N, ToSet(s))
  BY <1>2 DEF ExistsBijection, Bijection
<1>4. Cardinality(ToSet(s)) = N
  BY <1>1, <1>3, FS_CountingElements
<1> QED BY <1>4 DEF N

(* The values of two lists one after the other.                            *)
LEMMA Concatenated ==
    ASSUME NEW S, NEW s \in Seq(S), NEW t \in Seq(S)
    PROVE  s \o t \in Seq(S) /\ ToSet(s \o t) = ToSet(s) \cup ToSet(t)
<1> DEFINE m == Len(s)
           n == Len(t)
           c == s \o t
<1>1. /\ m \in Nat /\ n \in Nat /\ c \in Seq(S)
      /\ DOMAIN s = 1..m /\ DOMAIN t = 1..n /\ DOMAIN c = 1..(m + n)
  OBVIOUS
<1>2. (\A i \in 1..m : c[i] = s[i]) /\ (\A i \in 1..n : c[m + i] = t[i])
  OBVIOUS
<1> HIDE DEF m, n, c
<1>3. /\ \A i \in 1..m : i \in 1..(m + n)
      /\ \A i \in 1..n : m + i \in 1..(m + n)
      /\ \A i \in 1..(m + n) : i \in 1..m \/ (i - m \in 1..n /\ m + (i - m) = i)
  BY <1>1
<1>4. ToSet(s) \subseteq ToSet(c) /\ ToSet(t) \subseteq ToSet(c)
  <2>1. ToSet(s) \subseteq ToSet(c)
    BY <1>1, <1>2, <1>3 DEF ToSet
  <2>2. ASSUME NEW i \in 1..n PROVE t[i] \in ToSet(c)
    <3>1. PICK k \in 1..(m + n) : k = m + i
      BY <1>3
    <3>2. c[k] = t[i]
      BY <1>2, <3>1
    <3> QED BY <1>1, <3>2 DEF ToSet
  <2>3. ToSet(t) \subseteq ToSet(c)
    BY <1>1, <2>2 DEF ToSet
  <2> QED BY <2>1, <2>3
<1>5. ASSUME NEW x \in ToSet(c) PROVE x \in ToSet(s) \cup ToSet(t)
  <2>1. PICK i \in 1..(m + n) : x = c[i]
    BY <1>1 DEF ToSet
  <2>2. CASE i \in 1..m
    BY <1>1, <1>2, <2>1, <2>2 DEF ToSet
  <2>3. CASE i - m \in 1..n /\ m + (i - m) = i
    <3>1. x = t[i - m]
      BY <1>2, <2>1, <2>3
    <3> QED BY <1>1, <2>3, <3>1 DEF ToSet
  <2> QED BY <1>3, <2>2, <2>3
<1> QED BY <1>1, <1>4, <1>5 DEF c

-----------------------------------------------------------------------------
(* The conversions of numbers                                              *)

Half == Word \div 2

(* A word is two halves.                                                   *)
LEMMA HalfWord == Half \in Nat \ {0} /\ Word = Half + Half
BY WordAssumption DEF Half

(* What the remainder of a division by a word is.                          *)
LEMMA Remainder ==
    ASSUME NEW x \in Int
    PROVE  x % Word \in 0..(Word - 1) /\ (x \in 0..(Word - 1) => x % Word = x)
BY WordAssumption

(* uint32 keeps what 32 bits hold.                                         *)
LEMMA UnsignedRange ==
    ASSUME NEW x \in Int
    PROVE  Unsigned(x) \in 0..(Word - 1) /\ (x \in 0..(Word - 1) => Unsigned(x) = x)
BY Remainder DEF Unsigned

(* int32 keeps what 31 bits hold.                                          *)
LEMMA SignedRange ==
    ASSUME NEW x \in Int
    PROVE  /\ Signed(x) \in (-(Word \div 2))..(Word \div 2 - 1)
           /\ x \in 0..(Word \div 2 - 1) => Signed(x) = x
<1>1. Half \in Nat \ {0} /\ Word = Half + Half /\ Word \div 2 = Half
  BY HalfWord DEF Half
<1>2. Signed(x) = ((x + Half) % Word) - Half
  BY DEF Signed, Half
<1>3. x + Half \in Int
  BY <1>1
<1>4. /\ (x + Half) % Word \in 0..(Word - 1)
      /\ x + Half \in 0..(Word - 1) => (x + Half) % Word = x + Half
  BY <1>3, Remainder
<1> DEFINE r == (x + Half) % Word
<1> HIDE DEF r
<1>5. Signed(x) = r - Half /\ r \in 0..(Word - 1) /\ (x + Half \in 0..(Word - 1) => r = x + Half)
  BY <1>2, <1>4 DEF r
<1> QED BY <1>1, <1>5

-----------------------------------------------------------------------------
(* What a request turns into                                               *)

(* The probed port fits the API; a Local service is probed on its health   *)
(* check node port unless an annotation names another.                     *)
LEMMA HealthCheckPort ==
    ASSUME NEW r \in Requests
    PROVE  /\ HealthCheck(r).port \in (-(Word \div 2))..(Word \div 2 - 1)
           /\ r.checkNodePort > 0 => HealthCheck(r).on
           /\ r.checkNodePort > 0 /\ r.checkPort.kind # "int"
                => HealthCheck(r).port = r.checkNodePort
<1> DEFINE port == GetIntAnnotation(r.checkPort, -1)
<1>1. r.checkNodePort \in 0..(Word \div 2 - 1) /\ r.checkPort.n \in Int
  BY RequestsAssumption
<1>2. port \in Int /\ (r.checkPort.kind # "int" => port = -1)
  BY <1>1 DEF GetIntAnnotation
<1>3. 0 \in (-(Word \div 2))..(Word \div 2 - 1) /\ r.checkNodePort \in Int
  BY <1>1, HalfWord DEF Half
<1> HIDE DEF port
<1>4. Signed(port) \in (-(Word \div 2))..(Word \div 2 - 1)
  BY <1>2, SignedRange
<1>5. Signed(r.checkNodePort) \in (-(Word \div 2))..(Word \div 2 - 1) /\ Signed(r.checkNodePort) = r.checkNodePort
  BY <1>1, <1>3, SignedRange
<1>6. HealthCheck(r) =
        IF r.checkNodePort > 0
        THEN [on |-> TRUE, port |-> Signed(IF port > 0 THEN port ELSE r.checkNodePort)]
        ELSE IF port # -1 /\ GetBoolAnnotation(r.check) THEN [on |-> TRUE, port |-> Signed(port)]
        ELSE NoHealthCheck
  BY DEF HealthCheck, port
<1>7. CASE r.checkNodePort > 0
  <2>1. CASE port > 0
    BY <1>2, <1>4, <1>6, <1>7, <2>1
  <2>2. CASE ~(port > 0)
    BY <1>5, <1>6, <1>7, <2>2
  <2> QED BY <2>1, <2>2
<1>8. CASE ~(r.checkNodePort > 0)
  BY <1>3, <1>4, <1>6, <1>8 DEF NoHealthCheck
<1> QED BY <1>7, <1>8

(* The idle timeout of a listener: the one asked for, or the default.      *)
LEMMA ListenerLimits ==
    ASSUME NEW r \in Requests, NEW i \in DOMAIN DesiredListeners(r)
    PROVE  LET idle == DesiredListeners(r)[i].idle IN
           /\ idle \in 0..(Word - 1)
           /\ r.idle.kind = "int" /\ r.idle.n \in 0..(Word - 1) => idle = r.idle.n
           /\ r.idle.kind # "int" => idle = DefaultIdleConnectionTimeout
<1> DEFINE n == GetIntAnnotation(r.idle, DefaultIdleConnectionTimeout)
<1>1. /\ n \in Int /\ (r.idle.kind = "int" => n = r.idle.n)
      /\ r.idle.kind # "int" => n = DefaultIdleConnectionTimeout
      /\ DefaultIdleConnectionTimeout \in 0..(Word - 1)
  BY RequestsAssumption, WordAssumption DEF GetIntAnnotation
<1>2. DesiredListeners(r)[i].idle = Unsigned(n)
  BY DEF DesiredListeners
<1> HIDE DEF n
<1> QED BY <1>1, <1>2, UnsignedRange

(* The groups a request asks for, as a set.                                *)
LEMMA GroupsAsAsked ==
    ASSUME NEW r \in Requests
    PROVE  /\ ToSet(DesiredGroups(r)) = ToSet(r.groups) \cup
                 (IF r.managed = "true" THEN {Managed} ELSE {})
           /\ GroupsExist(r) => DesiredGroups(r) \in Seq(Groups \cup {Managed})
<1> DEFINE g == r.groups
           n == Len(g)
<1>1. g \in Seq(STRING) /\ n \in Nat /\ DOMAIN g = 1..n
  BY RequestsAssumption
<1>2. CASE r.managed = "true"
  <2>1. DesiredGroups(r) = Append(g, Managed)
    BY <1>1, <1>2 DEF DesiredGroups, GetBoolAnnotation, Managed
  <2>2. g \in Seq(STRING \cup {Managed})
    BY <1>1, Wider
  <2>3. ToSet(Append(g, Managed)) = ToSet(g) \cup {Managed}
    BY <2>2, Appended
  <2>4. ASSUME GroupsExist(r) PROVE Append(g, Managed) \in Seq(Groups \cup {Managed})
    <3>1. \A i \in 1..n : g[i] \in Groups
      BY <1>1, <2>4 DEF GroupsExist, ToSet
    <3>2. g \in Seq(Groups \cup {Managed})
      BY <1>1, <3>1
    <3> QED BY <3>2
  <2> QED BY <1>2, <2>1, <2>3, <2>4
<1>3. CASE r.managed # "true"
  <2>1. DesiredGroups(r) = g
    BY <1>1, <1>3 DEF DesiredGroups, GetBoolAnnotation
  <2>2. ASSUME GroupsExist(r) PROVE g \in Seq(Groups \cup {Managed})
    <3>1. \A i \in 1..n : g[i] \in Groups
      BY <1>1, <2>2 DEF GroupsExist, ToSet
    <3> QED BY <1>1, <3>1
  <2> QED BY <1>3, <2>1, <2>2
<1> QED BY <1>2, <1>3

(* The rules of the managed group are those of the listeners' sources.     *)
LEMMA RulesOfListeners ==
    ASSUME NEW r \in Requests, NEW ls, ls = DesiredListeners(r)
    PROVE  BuildIngressRules(ls) =
             UNION {{[proto |-> l.proto, port |-> l.port, source |-> s] : s \in ToSet(l.sources)}
                    : l \in ToSet(ls)}
<1>0. PICK T, ports : /\ T = [name : STRING, port : Nat, proto : {"tcp", "udp"}]
                      /\ ports = r.ports /\ ports \in Seq(T)
  BY RequestsAssumption
<1>1. \A i \in DOMAIN ls : ls[i].proto \in {"tcp", "udp"}
  <2>1. \A i \in DOMAIN ports : ports[i] \in T
    BY <1>0, Elements
  <2>2. \A i \in DOMAIN ports : ports[i].proto \in {"tcp", "udp"}
    BY <1>0, <2>1
  <2>3. DOMAIN ls = DOMAIN ports /\ \A i \in DOMAIN ports : ls[i].proto = ports[i].proto
    BY <1>0 DEF DesiredListeners
  <2> QED BY <2>2, <2>3
<1>2. \A i \in DOMAIN ls : (IF ls[i].proto = "udp" THEN "udp" ELSE "tcp") = ls[i].proto
  BY <1>1
<1>3. BuildIngressRules(ls) =
        UNION {{[proto |-> ls[i].proto, port |-> ls[i].port, source |-> s] : s \in ToSet(ls[i].sources)}
               : i \in DOMAIN ls}
  BY <1>2 DEF BuildIngressRules
<1> QED BY <1>3 DEF ToSet

-----------------------------------------------------------------------------
(* Allowed sources                                                         *)

(* Strings, the empty one named: it is one, but no prover here says so.    *)
Text == STRING \cup {""}

(* The lists of sources a request has.                                     *)
LEMMA GivenSources ==
    ASSUME NEW r \in Requests
    PROVE  /\ r.acl \in Seq(Text)
           /\ \A i \in DOMAIN r.ports :
                /\ r.aclNumber[r.ports[i].port] \in Seq(Text)
                /\ r.ports[i].name # "" => r.aclName[r.ports[i].name] \in Seq(Text)
<1>1. ASSUME NEW s \in Seq(STRING) PROVE s \in Seq(Text)
  BY Wider DEF Text
<1> QED BY <1>1, SourcesAssumption

(* The entries of an annotation that are CIDRs.                            *)
LEMMA ParsedSources ==
    ASSUME NEW s \in Seq(Text)
    PROVE  ParseAclSources(s) \in Seq(Text) /\ ToSet(ParseAclSources(s)) = Cidrs \cap ToSet(s)
<1> DEFINE I == {i \in DOMAIN s : s[i] \in Cidrs}
<1>1. {s[i] : i \in I \cap DOMAIN s} = Cidrs \cap ToSet(s)
  BY DEF ToSet
<1>2. ParseAclSources(s) = AtPositions(s, I)
  BY DEF ParseAclSources
<1> HIDE DEF I
<1> QED BY <1>1, <1>2, AtPositionsIs

(* The sources given for a port, by its name and by its number.            *)
LEMMA PortSources ==
    ASSUME NEW r \in Requests, NEW i \in DOMAIN r.ports, NEW p, p = r.ports[i]
    PROVE  /\ GetPerPortAclAllowedSources(r, p) \in Seq(Text)
           /\ ToSet(GetPerPortAclAllowedSources(r, p)) =
                Cidrs \cap (ToSet(r.aclNumber[p.port])
                            \cup (IF p.name = "" THEN {} ELSE ToSet(r.aclName[p.name])))
<1>1. PICK number : /\ number = r.aclNumber[p.port] /\ number \in Seq(Text)
  <2>1. r.aclNumber[p.port] \in Seq(Text)
    BY GivenSources
  <2> QED BY <2>1
<1>2. PICK parsed : /\ parsed = ParseAclSources(number) /\ parsed \in Seq(Text)
                    /\ ToSet(parsed) = Cidrs \cap ToSet(number)
  BY <1>1, ParsedSources
<1>3. PICK named : /\ named = IF p.name = "" THEN <<>> ELSE ParseAclSources(r.aclName[p.name])
                   /\ named \in Seq(Text)
                   /\ ToSet(named) = Cidrs \cap IF p.name = "" THEN {} ELSE ToSet(r.aclName[p.name])
  <2>1. CASE p.name = ""
    <3>1. <<>> \in Seq(Text) /\ ToSet(<<>>) = {}
      BY DEF ToSet
    <3> QED BY <2>1, <3>1
  <2>2. CASE p.name # ""
    <3>1. r.aclName[p.name] \in Seq(Text)
      BY <2>2, GivenSources
    <3> QED BY <2>2, <3>1, ParsedSources
  <2> QED BY <2>1, <2>2
<1>4. named \o parsed \in Seq(Text) /\ ToSet(named \o parsed) = ToSet(named) \cup ToSet(parsed)
  <2>1. named \in Seq(Text) /\ parsed \in Seq(Text)
    BY <1>2, <1>3
  <2> QED BY <2>1, Concatenated
<1>5. GetPerPortAclAllowedSources(r, p) = Distinct(named \o parsed)
  BY <1>1, <1>2, <1>3 DEF GetPerPortAclAllowedSources
<1>6. PICK both : both = named \o parsed
  OBVIOUS
<1>7. Distinct(both) \in Seq(Text) /\ ToSet(Distinct(both)) = ToSet(both)
  BY <1>4, <1>6, DistinctIs
<1>8. ToSet(both) = Cidrs \cap (ToSet(number) \cup (IF p.name = "" THEN {} ELSE ToSet(r.aclName[p.name])))
  BY <1>2, <1>3, <1>4, <1>6
<1> QED BY <1>1, <1>5, <1>6, <1>7, <1>8

(* Arrays behind the global slice, and accumulated lists of the ports.     *)
Arrays(global, cap) ==
    {a \in [1..cap -> Text] : \A k \in 1..Len(global) : a[k] = global[k]}
Kept == {Own(s) : s \in Seq(Text)}

(* The array the global slice is grown in.                                 *)
LEMMA FirstArray ==
    ASSUME NEW S, NEW blank \in S, NEW s \in Seq(S), NEW cap \in Nat, cap >= Len(s),
           NEW a, a = [k \in 1..cap |-> IF k <= Len(s) THEN s[k] ELSE blank]
    PROVE  a \in [1..cap -> S] /\ \A k \in 1..Len(s) : a[k] = s[k]
<1>1. PICK n \in Nat : n = Len(s) /\ n =< cap /\ \A k \in 1..n : s[k] \in S
  OBVIOUS
<1>2. a = [k \in 1..cap |-> IF k <= n THEN s[k] ELSE blank]
  BY <1>1
<1>3. \A k \in 1..cap : (IF k <= n THEN s[k] ELSE blank) \in S
  BY <1>1
<1> QED BY <1>1, <1>2, <1>3

(* However much room there is behind the global slice, what is kept for a  *)
(* port are the global sources and its own, each once; and the array keeps *)
(* the global ones.                                                        *)
LEMMA Combined ==
    ASSUME NEW global \in Seq(Text), NEW cap \in Nat, cap >= Len(global),
           NEW array \in Arrays(global, cap), NEW perPort \in Seq(Text),
           NEW acc, acc.shared = array
    PROVE  /\ CombineSources(global, cap, acc, perPort).shared \in Arrays(global, cap)
           /\ CombineSources(global, cap, acc, perPort).slices =
                Append(acc.slices, Own(Distinct(global \o perPort)))
<1> DEFINE g == Len(global)
           m == Len(perPort)
           n == g + m
           fits == n <= cap
           shared == [k \in 1..cap |-> IF fits /\ k > g /\ k <= n THEN perPort[k - g] ELSE array[k]]
           slice == IF fits THEN [shared |-> TRUE, own |-> <<>>, len |-> n] ELSE Own(global \o perPort)
<1>1. /\ g \in Nat /\ m \in Nat /\ n \in Nat /\ g =< cap
      /\ \A k \in 1..g : global[k] \in Text
      /\ \A k \in 1..m : perPort[k] \in Text
      /\ array \in [1..cap -> Text] /\ \A k \in 1..g : array[k] = global[k]
  BY DEF Arrays
<1>2. CombineSources(global, cap, acc, perPort) =
        [shared |-> shared, slices |-> Append(acc.slices, Own(Distinct(Content(shared, slice))))]
  BY DEF CombineSources, RemoveDuplicateStrings
<1>3. shared \in Arrays(global, cap)
  <2> HIDE DEF g, m
  <2>1. ASSUME NEW k \in 1..cap
        PROVE  (IF fits /\ k > g /\ k <= n THEN perPort[k - g] ELSE array[k]) \in Text
    <3>1. fits /\ k > g /\ k <= n => k - g \in 1..m
      BY <1>1
    <3> QED BY <1>1, <3>1
  <2>2. shared \in [1..cap -> Text]
    BY <2>1
  <2>3. \A k \in 1..g : k \in 1..cap /\ shared[k] = global[k]
    BY <1>1
  <2> HIDE DEF shared
  <2> QED BY <2>2, <2>3 DEF Arrays, g
<1>4. Content(shared, slice) = global \o perPort
  <2>1. CASE ~fits
    <3>1. slice = Own(global \o perPort)
      BY <2>1
    <3> QED BY <3>1 DEF Content, Own
  <2>2. CASE fits
    <3>1. Content(shared, slice) = SubSeq(shared, 1, n)
      BY <2>2 DEF Content
    <3>2. shared \in Seq(Text) /\ Len(shared) = cap
      BY <1>3 DEF Arrays
    <3>3. DOMAIN SubSeq(shared, 1, n) = 1..n /\ \A k \in 1..n : SubSeq(shared, 1, n)[k] = shared[k]
      <4> HIDE DEF shared, g, m
      <4> QED BY <1>1, <2>2, <3>2
    <3>4. DOMAIN (global \o perPort) = 1..n
      BY <1>1
    <3>5. ASSUME NEW k \in 1..n PROVE (global \o perPort)[k] = shared[k]
      <4>1. k \in 1..cap /\ (k =< g => k \in 1..g) /\ (k > g => k - g \in 1..m)
        BY <1>1, <2>2
      <4>2. shared[k] = IF k > g THEN perPort[k - g] ELSE global[k]
        BY <1>1, <2>2, <4>1
      <4> HIDE DEF shared
      <4>3. (global \o perPort)[k] = IF k > g THEN perPort[k - g] ELSE global[k]
        BY <1>1, <4>1
      <4> QED BY <4>2, <4>3
    <3>6. SubSeq(shared, 1, n) \in Seq(Text) /\ global \o perPort \in Seq(Text)
      <4>1. \A k \in 1..n : shared[k] \in Text
        BY <1>1, <1>3, <2>2 DEF Arrays
      <4> HIDE DEF shared, g, m
      <4> QED BY <1>1, <3>3, <4>1
    <3>7. PICK a, b : a = SubSeq(shared, 1, n) /\ b = global \o perPort
      OBVIOUS
    <3> HIDE DEF shared, n
    <3>8. a \in Seq(Text) /\ b \in Seq(Text) /\ Len(a) = n /\ Len(b) = n
      BY <1>1, <3>3, <3>4, <3>6, <3>7
    <3>9. \A k \in 1..n : a[k] = b[k]
      BY <3>3, <3>5, <3>7
    <3>10. a = b
      BY <3>8, <3>9, SameList
    <3> QED BY <3>1, <3>7, <3>10
  <2> QED BY <2>1, <2>2
<1> HIDE DEF shared, slice
<1> QED BY <1>2, <1>3, <1>4

(* The loop over the ports of a request, pass by pass.                     *)
LEMMA AllowedSourcesLoop ==
    ASSUME NEW r \in Requests, NEW global, global = ParseAclSources(r.acl),
           NEW cap, cap = Capacity(Len(global))
    PROVE  \E f : /\ f[0].shared \in Arrays(global, cap) /\ f[0].slices = <<>>
                  /\ \A n \in 1..Len(r.ports) :
                       f[n] = CombineSources(global, cap, f[n - 1], GetPerPortAclAllowedSources(r, r.ports[n]))
                  /\ AllowedSources(r) =
                       [i \in DOMAIN r.ports |-> Content(f[Len(r.ports)].shared, f[Len(r.ports)].slices[i])]
<1> DEFINE N == Len(r.ports)
           Accs == [shared : Arrays(global, cap), slices : Seq(Kept)]
           start == [shared |-> [k \in 1..cap |-> IF k <= Len(global) THEN global[k] ELSE ""],
                     slices |-> <<>>]
           Pass(n, acc) == CombineSources(global, cap, acc, GetPerPortAclAllowedSources(r, r.ports[n]))
           step == [p \in (1..N) \X Accs |-> Pass(p[1], p[2])]
           loop == CHOOSE f : f = [n \in 0..N |-> IF n = 0 THEN start ELSE Pass(n, f[n - 1])]
<1>1. N \in Nat /\ DOMAIN r.ports = 1..N
  <2>1. r.ports \in Seq([name : STRING, port : Nat, proto : {"tcp", "udp"}])
    BY RequestsAssumption
  <2> QED BY <2>1
<1>2. global \in Seq(Text) /\ cap \in Nat /\ cap >= Len(global)
  BY GivenSources, CapacityAssumption, ParsedSources
<1>3. start \in Accs /\ start.shared \in Arrays(global, cap) /\ start.slices = <<>>
  <2> DEFINE a == [k \in 1..cap |-> IF k <= Len(global) THEN global[k] ELSE ""]
  <2>3. a \in Arrays(global, cap)
    <3>1. PICK e \in Text : a = [k \in 1..cap |-> IF k <= Len(global) THEN global[k] ELSE e]
      <4>1. "" \in Text
        BY DEF Text
      <4> QED BY <4>1
    <3> HIDE DEF a
    <3> QED BY <1>2, <3>1, FirstArray DEF Arrays
  <2> HIDE DEF a
  <2>4. start = [shared |-> a, slices |-> <<>>]
    BY DEF a
  <2> HIDE DEF start
  <2> QED BY <2>3, <2>4
<1>4. ASSUME NEW n \in 1..N, NEW acc \in Accs PROVE Pass(n, acc) \in Accs
  <2>1. PICK q : q = GetPerPortAclAllowedSources(r, r.ports[n]) /\ q \in Seq(Text)
    BY <1>1, PortSources
  <2>2. PICK c : c = CombineSources(global, cap, acc, q)
    OBVIOUS
  <2>3. c.shared \in Arrays(global, cap) /\ c.slices = Append(acc.slices, Own(Distinct(global \o q)))
    BY <1>2, <2>1, <2>2, Combined
  <2>4. Own(Distinct(global \o q)) \in Kept
    <3>0. global \o q \in Seq(Text)
      BY <1>2, <2>1, Concatenated
    <3>1. PICK both : both = global \o q /\ both \in Seq(Text)
      BY <3>0
    <3>2. Distinct(both) \in Seq(Text)
      BY <3>1, DistinctIs
    <3> QED BY <3>1, <3>2 DEF Kept
  <2>5. c.slices \in Seq(Kept)
    BY <2>3, <2>4
  <2>6. c = [shared |-> c.shared, slices |-> c.slices]
    BY <2>2 DEF CombineSources
  <2>7. c \in Accs
    BY <2>3, <2>5, <2>6
  <2> QED BY <2>1, <2>2, <2>7
<1> HIDE DEF N, start, Pass
<1>5. step \in [(1..N) \X Accs -> Accs]
  <2> HIDE DEF Accs
  <2> QED BY <1>4
<1>6. PICK f \in [0..N -> Accs] : f[0] = start /\ \A n \in 1..N : f[n] = step[<<n, f[n - 1]>>]
  <2> HIDE DEF step, Accs
  <2>1. PICK f : IsLoop(f, N, Accs, start, step)
    BY <1>1, <1>3, <1>5, LoopExists
  <2> QED BY <2>1 DEF IsLoop
<1>7. f = [n \in 0..N |-> IF n = 0 THEN start ELSE Pass(n, f[n - 1])]
  <2>1. ASSUME NEW n \in 1..N PROVE f[n] = Pass(n, f[n - 1])
    <3> HIDE DEF Accs
    <3>1. n - 1 \in 0..N
      BY <1>1
    <3>2. f[n - 1] \in Accs
      BY <1>6, <3>1
    <3> QED BY <1>6, <3>2
  <2>2. \A n \in 0..N : n # 0 => n \in 1..N
    BY <1>1
  <2>3. \A n \in 0..N : f[n] = IF n = 0 THEN start ELSE Pass(n, f[n - 1])
    <3> HIDE DEF step, Accs
    <3> QED BY <1>6, <2>1, <2>2
  <2> HIDE DEF step, Accs
  <2> QED BY <1>6, <2>3
<1>8. loop = [n \in 0..N |-> IF n = 0 THEN start ELSE Pass(n, loop[n - 1])]
  BY <1>7, Zenon
<1>9. AllowedSources(r) = [i \in DOMAIN r.ports |-> Content(loop[N].shared, loop[N].slices[i])]
  BY DEF AllowedSources, N, start, Pass
<1> HIDE DEF loop
<1>10. loop[0] = start /\ \A n \in 1..N : loop[n] = Pass(n, loop[n - 1])
  <2>1. 0 \in 0..N /\ \A n \in 1..N : n \in 0..N /\ n # 0
    BY <1>1
  <2>2. \A n \in 0..N : loop[n] = IF n = 0 THEN start ELSE Pass(n, loop[n - 1])
    BY <1>8, Zenon
  <2> QED BY <2>1, <2>2
<1> QED BY <1>3, <1>9, <1>10 DEF N, Pass

(* Each port gets the global sources and its own, each once.               *)
LEMMA AllowedSourcesAre ==
    ASSUME NEW r \in Requests, NEW i \in DOMAIN r.ports
    PROVE  AllowedSources(r)[i] =
             Distinct(ParseAclSources(r.acl) \o GetPerPortAclAllowedSources(r, r.ports[i]))
<1> DEFINE N == Len(r.ports)
           PerPort(n) == GetPerPortAclAllowedSources(r, r.ports[n])
<1>1. N \in Nat /\ DOMAIN r.ports = 1..N
  <2>1. r.ports \in Seq([name : STRING, port : Nat, proto : {"tcp", "udp"}])
    BY RequestsAssumption
  <2> QED BY <2>1
<1>2. PICK global, cap : global = ParseAclSources(r.acl) /\ cap = Capacity(Len(global))
  OBVIOUS
<1>3. global \in Seq(Text) /\ cap \in Nat /\ cap >= Len(global)
  BY <1>2, GivenSources, CapacityAssumption, ParsedSources
<1> DEFINE Slice(n) == Own(Distinct(global \o PerPort(n)))
<1>4. PICK f : /\ f[0].shared \in Arrays(global, cap) /\ f[0].slices = <<>>
               /\ \A n \in 1..N : f[n] = CombineSources(global, cap, f[n - 1], PerPort(n))
               /\ AllowedSources(r) = [n \in DOMAIN r.ports |-> Content(f[N].shared, f[N].slices[n])]
  BY <1>2, AllowedSourcesLoop
<1>5. \A n \in 1..N : PerPort(n) \in Seq(Text)
  BY <1>1, PortSources
<1>6. ASSUME NEW n \in 1..N PROVE Slice(n) \in Kept
  <2>1. PICK both : both = global \o PerPort(n)
    OBVIOUS
  <2>2. both \in Seq(Text)
    BY <1>3, <1>5, <2>1, Concatenated
  <2>3. Distinct(both) \in Seq(Text)
    BY <2>2, DistinctIs
  <2> QED BY <2>1, <2>3 DEF Kept
<1> HIDE DEF N, PerPort, Slice
<1> DEFINE Good(n) == /\ f[n].shared \in Arrays(global, cap)
                      /\ f[n].slices \in Seq(Kept) /\ Len(f[n].slices) = n
                      /\ \A k \in 1..n : f[n].slices[k] = Slice(k)
           D == {n \in Nat : n =< N => Good(n)}
<1>7. 0 \in D
  <2>1. Good(0)
    <3>1. f[0].slices \in Seq(Kept) /\ Len(f[0].slices) = 0
      BY <1>4
    <3> QED BY <1>4, <3>1
  <2> HIDE DEF Good
  <2> QED BY <2>1
<1>8. ASSUME NEW m \in Nat, m \in D PROVE m + 1 \in D
  <2> SUFFICES ASSUME m + 1 =< N PROVE Good(m + 1)
    OBVIOUS
  <2>1. PICK n : n = m + 1 /\ n \in 1..N /\ n - 1 = m
    BY <1>1
  <2>2. Good(m)
    BY <1>1, <1>8
  <2> HIDE DEF D
  <2>3. PICK acc : acc = f[m]
    OBVIOUS
  <2>4. f[n] = CombineSources(global, cap, acc, PerPort(n))
    BY <1>4, <2>1, <2>3
  <2>5. f[n].shared \in Arrays(global, cap) /\ f[n].slices = Append(acc.slices, Slice(n))
    BY <1>3, <1>5, <2>1, <2>2, <2>3, <2>4, Combined DEF Slice
  <2>6. Slice(n) \in Kept /\ acc.slices \in Seq(Kept) /\ Len(acc.slices) = m
    BY <1>6, <2>1, <2>2, <2>3
  <2>7. PICK q : q = Append(acc.slices, Slice(n))
    OBVIOUS
  <2>8. /\ q \in Seq(Kept) /\ Len(q) = n /\ q[n] = Slice(n)
        /\ \A k \in 1..m : q[k] = acc.slices[k]
    BY <2>1, <2>6, <2>7
  <2>9. \A k \in 1..n : q[k] = Slice(k)
    <3>1. \A k \in 1..n : k \in 1..m \/ k = n
      BY <2>1
    <3> QED BY <2>2, <2>3, <2>8, <3>1
  <2> QED BY <2>1, <2>5, <2>7, <2>8, <2>9
<1> HIDE DEF Good
<1>9. N \in D
  <2>1. \A n \in Nat : n \in D => n + 1 \in D
    BY <1>8
  <2> HIDE DEF D
  <2> QED BY <1>1, <1>7, <2>1, SetInduction
<1>10. Good(N)
  BY <1>1, <1>9
<1>11. AllowedSources(r)[i] = Content(f[N].shared, Slice(i))
  BY <1>1, <1>4, <1>10 DEF Good
<1> QED BY <1>2, <1>11 DEF Content, Own, Slice, PerPort

(* A listener admits the sources given for all ports and for its own.      *)
LEMMA ListenerSources ==
    ASSUME NEW r \in Requests, NEW i \in DOMAIN r.ports,
           NEW p, p = r.ports[i], NEW sources, sources = DesiredListeners(r)[i].sources
    PROVE  /\ ToSet(sources) = Cidrs \cap (ToSet(r.acl) \cup ToSet(r.aclNumber[p.port])
                \cup (IF p.name = "" THEN {} ELSE ToSet(r.aclName[p.name])))
           /\ Len(sources) = Cardinality(ToSet(sources))
<1>1. PICK global : /\ global = ParseAclSources(r.acl) /\ global \in Seq(Text)
                    /\ ToSet(global) = Cidrs \cap ToSet(r.acl)
  BY GivenSources, ParsedSources
<1>2. PICK perPort : /\ perPort = GetPerPortAclAllowedSources(r, p) /\ perPort \in Seq(Text)
                     /\ ToSet(perPort) = Cidrs \cap (ToSet(r.aclNumber[p.port])
                           \cup (IF p.name = "" THEN {} ELSE ToSet(r.aclName[p.name])))
  BY PortSources
<1>3. PICK both : /\ both = global \o perPort /\ both \in Seq(Text)
                  /\ ToSet(both) = ToSet(global) \cup ToSet(perPort)
  <2>1. global \in Seq(Text) /\ perPort \in Seq(Text)
    BY <1>1, <1>2
  <2>2. global \o perPort \in Seq(Text) /\ ToSet(global \o perPort) = ToSet(global) \cup ToSet(perPort)
    BY <2>1, Concatenated
  <2> QED BY <2>2
<1>4. sources = Distinct(both)
  <2>1. sources = AllowedSources(r)[i]
    BY DEF DesiredListeners
  <2>2. AllowedSources(r)[i] = Distinct(ParseAclSources(r.acl) \o GetPerPortAclAllowedSources(r, r.ports[i]))
    BY AllowedSourcesAre
  <2>3. both = ParseAclSources(r.acl) \o GetPerPortAclAllowedSources(r, r.ports[i])
    BY <1>1, <1>2, <1>3, Zenon
  <2> QED BY <2>1, <2>2, <2>3, Zenon
<1>5. sources \in Seq(Text) /\ ToSet(sources) = ToSet(both) /\ IsInjective(sources)
  BY <1>3, <1>4, DistinctIs
<1>6. Len(sources) = Cardinality(ToSet(sources))
  BY <1>5, LengthOfDistinct
<1> QED BY <1>1, <1>2, <1>3, <1>5, <1>6

-----------------------------------------------------------------------------
(* Subnets                                                                 *)

(* A listed subnet has an identity.                                        *)
LEMMA SubnetNames ==
    ASSUME NEW v \in Vpcs
    PROVE  (\A i \in DOMAIN v : v[i].id # "") /\ (v # <<>> => 1 \in DOMAIN v)
<1> DEFINE S == [id : STRING \ {""}, slug : STRING, role : BOOLEAN]
<1>1. v \in Seq(S) /\ \A s \in S : s.id # ""
  BY VpcsAssumption
<1> HIDE DEF S
<1>2. (\A i \in DOMAIN v : v[i] \in S) /\ (v # <<>> => 1 \in DOMAIN v)
  BY <1>1, Elements
<1> QED BY <1>1, <1>2

(* The first of some listed subnets is a listed one.                       *)
LEMMA FirstIsListed ==
    ASSUME NEW v \in Vpcs, NEW I, I \subseteq DOMAIN v
    PROVE  FirstOf(v, I) \subseteq SubnetIds /\ "" \notin FirstOf(v, I)
<1>1. \A i \in DOMAIN v : v[i].id # ""
  BY SubnetNames
<1>2. \A i \in DOMAIN v : v[i].id \in SubnetIds
  <2> SUFFICES ASSUME NEW i \in DOMAIN v PROVE v[i].id \in SubnetIds
    OBVIOUS
  <2>1. v[i] \in ToSet(v)
    BY DEF ToSet
  <2>2. v[i].id \in {s.id : s \in ToSet(v)}
    BY <2>1
  <2> QED BY <2>2 DEF SubnetIds
<1> QED BY <1>1, <1>2 DEF FirstOf

(* A process that starts has a default subnet.                             *)
LEMMA FactoryFinds ==
    ASSUME NEW c \in Configs, NEW v \in Vpcs
    PROVE  "" \notin Factory(c, v)
<1>1. "" \notin DiscoverDefaultSubnet(v)
  BY FirstIsListed DEF DiscoverDefaultSubnet
<1>2. v # <<>> => 1 \in DOMAIN v /\ v[1].id # ""
  BY SubnetNames
<1> QED BY <1>1, <1>2 DEF Factory

(* The API takes a listed subnet, by its identity or its slug.             *)
LEMMA ResolveIsListed ==
    ASSUME vpc \in Vpcs, NEW asked
    PROVE  Resolve(asked) \subseteq SubnetIds
<1> SUFFICES ASSUME NEW x \in ToSet(vpc) PROVE x.id \in SubnetIds
  BY DEF Resolve
<1>1. x.id \in {s.id : s \in ToSet(vpc)}
  OBVIOUS
<1> QED BY <1>1 DEF SubnetIds

(* A subnet named by its identity is that subnet.                          *)
LEMMA IdentityResolves ==
    ASSUME vpc \in Vpcs, NEW asked \in SubnetIds, NEW s \in Resolve(asked)
    PROVE  s = asked
<1>1. PICK i \in DOMAIN vpc : s = vpc[i].id /\ asked \in {vpc[i].id, vpc[i].slug}
  BY DEF Resolve, ToSet
<1>2. PICK v \in Vpcs : asked \in {x.id : x \in ToSet(v)}
  BY DEF SubnetIds
<1>3. PICK j \in DOMAIN v : asked = v[j].id
  BY <1>2 DEF ToSet
<1>4. vpc[i].slug # v[j].id
  BY VpcsAssumption
<1> QED BY <1>1, <1>3, <1>4

(* A subnet that stays in the VPC is still what its slug names.            *)
LEMMA ResolveStays ==
    ASSUME vpc \in Vpcs, vpc' \in Vpcs, NEW asked, NEW s \in Resolve(asked),
           s \in {x.id : x \in ToSet(vpc')}
    PROVE  s \in Resolve(asked)'
<1>1. PICK i \in DOMAIN vpc : s = vpc[i].id /\ asked \in {vpc[i].id, vpc[i].slug}
  BY DEF Resolve, ToSet
<1>2. PICK j \in DOMAIN vpc' : s = vpc'[j].id
  BY DEF ToSet
<1>3. vpc'[j].slug = vpc[i].slug
  BY <1>1, <1>2, VpcsAssumption
<1>4. vpc'[j] \in ToSet(vpc')
  BY DEF ToSet
<1> QED BY <1>1, <1>2, <1>3, <1>4 DEF Resolve

-----------------------------------------------------------------------------
(* The inductive invariant                                                 *)

(* The load balancer has been given what the request asks for.             *)
AsAsked ==
    /\ balancer # None
    /\ balancer.subnet \in Resolve(GetSubnetIdentity(request)) \cup {GetSubnetIdentity(request)}
    /\ balancer.groups = DesiredGroups(request)
    /\ balancer.reserved = TrimSpace(request.reserved)
    /\ balancer.listeners = DesiredListeners(request)
    /\ balancer.check = HealthCheck(request)
    /\ request.managed = "true" => rules = BuildIngressRules(DesiredListeners(request))

ValueTypes ==
    /\ vpc \in Vpcs /\ config \in Configs /\ running \in BOOLEAN
    /\ request \in Requests /\ job \in Requests \cup {None} /\ dirty \in BOOLEAN
    /\ settled \in BOOLEAN /\ call \in {"none", "create", "update"}
    /\ changes \in 0..MaxChanges /\ restarts \in 0..MaxRestarts

(* Only a running process works, it has a default subnet, and what it      *)
(* ensures again for a settled Service is the request it is settled with.  *)
ProcessInv ==
    /\ job # None \/ settled => running
    /\ running => defaultSubnet # ""
    /\ settled /\ job # None => job = request

PlacementInv ==
    /\ ValueTypes
    /\ ProcessInv
    /\ balancer # None => balancer \in Balancers
    /\ settled => AsAsked

(* What every load balancer record has.                                    *)
LEMMA BalancerRanges ==
    ASSUME NEW b \in Balancers
    PROVE  /\ b.subnet \in SubnetIds /\ ToSet(b.groups) \subseteq Groups \cup {Managed}
           /\ \A i \in DOMAIN b.listeners : b.listeners[i].idle \in 0..(Word - 1)
           /\ b.check.port \in (-(Word \div 2))..(Word \div 2 - 1)
<1>1. /\ b.subnet \in SubnetIds /\ b.groups \in Seq(Groups \cup {Managed})
      /\ b.listeners \in {<<>>} \cup {DesiredListeners(r) : r \in Requests}
      /\ b.check \in {NoHealthCheck} \cup {HealthCheck(r) : r \in Requests}
  BY DEF Balancers
<1>2. ToSet(b.groups) \subseteq Groups \cup {Managed}
  BY <1>1 DEF ToSet
<1>3. \A i \in DOMAIN b.listeners : b.listeners[i].idle \in 0..(Word - 1)
  <2>1. CASE b.listeners = <<>>
    BY <2>1
  <2>2. ASSUME NEW r \in Requests, b.listeners = DesiredListeners(r)
        PROVE  \A i \in DOMAIN b.listeners : b.listeners[i].idle \in 0..(Word - 1)
    BY <2>2, ListenerLimits
  <2> QED BY <1>1, <2>1, <2>2
<1>4. b.check.port \in (-(Word \div 2))..(Word \div 2 - 1)
  <2>1. NoHealthCheck.port \in (-(Word \div 2))..(Word \div 2 - 1)
    BY HalfWord DEF NoHealthCheck, Half
  <2> QED BY <1>1, <2>1, HealthCheckPort
<1> QED BY <1>1, <1>2, <1>3, <1>4

(* The invariant contains the type invariant.                              *)
LEMMA InvTypes == PlacementInv => TypeOK
BY BalancerRanges DEF PlacementInv, ValueTypes, TypeOK

(* The invariant holds at the start.                                       *)
LEMMA InvInit ==
    ASSUME Init
    PROVE  PlacementInv
<1>0. changes \in 0..MaxChanges /\ restarts \in 0..MaxRestarts
  <2>1. changes = 0 /\ restarts = 0
    BY DEF Init
  <2> QED BY <2>1, BoundsAssumption
<1>1. ValueTypes
  BY <1>0 DEF Init, ValueTypes
<1>2. ProcessInv /\ ~settled /\ balancer = None
  BY DEF Init, ProcessInv
<1> QED BY <1>1, <1>2 DEF PlacementInv

(* A step that leaves the load balancer, the Service, the process and the  *)
(* VPC alone does not undo a settled Service.                              *)
LEMMA AsAskedStays ==
    ASSUME AsAsked, UNCHANGED <<vpc, request, defaultSubnet, balancer, rules>>
    PROVE  AsAsked'
BY DEF AsAsked, Resolve, GetSubnetIdentity

(* The factory finds a default subnet, or fails.                           *)
LEMMA InvStart ==
    ASSUME PlacementInv, Start
    PROVE  PlacementInv'
<1>1. defaultSubnet' # "" /\ ~settled
  BY FactoryFinds DEF Start, PlacementInv, ValueTypes, ProcessInv
<1> QED BY <1>1 DEF Start, PlacementInv, ValueTypes, ProcessInv

(* The worker takes up the Service.                                        *)
LEMMA InvBegin ==
    ASSUME PlacementInv, BeginEnsure \/ Resync
    PROVE  PlacementInv'
<1>1. settled' => AsAsked'
  BY AsAskedStays DEF BeginEnsure, Resync, PlacementInv, process
<1>2. ValueTypes' /\ ProcessInv'
  BY DEF BeginEnsure, Resync, PlacementInv, ValueTypes, ProcessInv, process
<1> QED BY <1>1, <1>2 DEF BeginEnsure, Resync, PlacementInv, process

(* An edit makes the Service unsettled.                                    *)
LEMMA InvEdit ==
    ASSUME PlacementInv, EditService
    PROVE  PlacementInv'
<1>1. changes' \in 0..MaxChanges
  BY BoundsAssumption DEF EditService, PlacementInv, ValueTypes
<1>2. ValueTypes'
  BY <1>1 DEF EditService, PlacementInv, ValueTypes, process
<1>3. ProcessInv' /\ ~settled' /\ UNCHANGED balancer
  BY DEF EditService, PlacementInv, ProcessInv, process
<1> QED BY <1>2, <1>3 DEF PlacementInv

(* The process ends; the load balancer stays.                              *)
LEMMA InvStop ==
    ASSUME PlacementInv, Stop
    PROVE  PlacementInv'
<1>0. /\ restarts \in 0..MaxRestarts /\ restarts < MaxRestarts /\ restarts' = restarts + 1
      /\ MaxRestarts \in Nat
  BY BoundsAssumption DEF Stop, PlacementInv, ValueTypes
<1>1. restarts' \in 0..MaxRestarts
  BY <1>0
<1>2. ValueTypes'
  BY <1>1 DEF Stop, PlacementInv, ValueTypes
<1>3. ProcessInv' /\ ~settled' /\ UNCHANGED balancer
  BY DEF Stop, PlacementInv, ProcessInv
<1> QED BY <1>2, <1>3 DEF PlacementInv

(* Subnets change; the load balancer stays where it is.                    *)
LEMMA InvVpc ==
    ASSUME PlacementInv, ChangeVpc
    PROVE  PlacementInv'
<1>1. /\ UNCHANGED <<config, running, defaultSubnet, request, dirty, job, settled, call, balancer, rules, restarts>>
      /\ vpc \in Vpcs /\ vpc' \in Vpcs
      /\ balancer # None => balancer.subnet \in {s.id : s \in ToSet(vpc')}
  BY DEF ChangeVpc, process, work, PlacementInv, ValueTypes
<1>2. changes' \in 0..MaxChanges
  BY BoundsAssumption DEF ChangeVpc, PlacementInv, ValueTypes
<1>3. ValueTypes' /\ ProcessInv'
  BY <1>1, <1>2 DEF PlacementInv, ValueTypes, ProcessInv
<1>4. ASSUME settled PROVE AsAsked'
  <2> DEFINE asked == GetSubnetIdentity(request)
  <2>1. AsAsked
    BY <1>4 DEF PlacementInv
  <2>2. asked' = asked
    BY <1>1 DEF GetSubnetIdentity
  <2> HIDE DEF asked
  <2>3. balancer.subnet \in Resolve(asked) => balancer.subnet \in Resolve(asked)'
    BY <1>1, <2>1, <2>2, ResolveStays DEF AsAsked
  <2> QED BY <1>1, <2>1, <2>2, <2>3 DEF AsAsked, asked
<1> QED BY <1>1, <1>3, <1>4 DEF PlacementInv

(* The load balancer createVpcLoadbalancer sets up is one; no Service is   *)
(* settled before it.                                                      *)
LEMMA InvCreate ==
    ASSUME PlacementInv, CreateBalancer
    PROVE  PlacementInv'
<1>1. /\ ~settled /\ running /\ job \in Requests
      /\ UNCHANGED <<vpc, config, running, defaultSubnet, request, changes, restarts>>
  BY DEF CreateBalancer, PlacementInv, AsAsked, ProcessInv, ValueTypes, process
<1>2. CASE PickSubnet(job) = {} \/ ~GroupsExist(job)
  <2>1. Fail /\ UNCHANGED <<balancer, rules, call>>
    BY <1>2 DEF CreateBalancer
  <2>2. ValueTypes' /\ ProcessInv' /\ ~settled'
    BY <1>1, <2>1 DEF PlacementInv, ValueTypes, ProcessInv, Fail
  <2> QED BY <2>1, <2>2 DEF PlacementInv
<1>3. CASE ~(PickSubnet(job) = {} \/ ~GroupsExist(job))
  <2>1. /\ GroupsExist(job) /\ call' = "create" /\ UNCHANGED <<dirty, job, settled>>
        /\ \E s \in PickSubnet(job) :
             balancer' = [subnet |-> s, groups |-> DesiredGroups(job), reserved |-> TrimSpace(job.reserved),
                          listeners |-> <<>>, check |-> NoHealthCheck]
    BY <1>3 DEF CreateBalancer
  <2>2. ValueTypes' /\ ProcessInv' /\ ~settled'
    BY <1>1, <2>1 DEF PlacementInv, ValueTypes, ProcessInv
  <2>3. PickSubnet(job) \subseteq SubnetIds
    BY FirstIsListed DEF PickSubnet, PlacementInv, ValueTypes
  <2>4. DesiredGroups(job) \in Seq(Groups \cup {Managed})
    BY <1>1, <2>1, GroupsAsAsked
  <2>5. balancer' \in Balancers
    BY <1>1, <2>1, <2>3, <2>4 DEF Balancers
  <2> QED BY <2>2, <2>5 DEF PlacementInv
<1> QED BY <1>2, <1>3

(* The update every ensure ends with: if it fails the Service is queued    *)
(* again, and if it does not the load balancer is as the request asks.     *)
LEMMA InvUpdate ==
    ASSUME PlacementInv, UpdateBalancer
    PROVE  PlacementInv'
<1> DEFINE asked == GetSubnetIdentity(job)
           preferred == IF asked = "" THEN balancer.subnet ELSE asked
           moved == IF balancer.subnet = preferred THEN {preferred} ELSE Resolve(preferred)
           served == [balancer EXCEPT !.listeners = DesiredListeners(job), !.check = HealthCheck(job)]
<1>1. /\ balancer \in Balancers /\ running /\ job \in Requests /\ request \in Requests
      /\ vpc \in Vpcs /\ asked = preferred
      /\ UNCHANGED <<vpc, config, running, defaultSubnet, request, changes, restarts>>
  <2>1. job \in Requests /\ running /\ defaultSubnet # ""
    BY DEF UpdateBalancer, PlacementInv, ProcessInv, ValueTypes
  <2>2. asked # ""
    BY <2>1 DEF GetSubnetIdentity
  <2> QED BY <2>1, <2>2 DEF UpdateBalancer, PlacementInv, ValueTypes, process
<1>2. PICK ls : ls = DesiredListeners(job)
  OBVIOUS
<1>3. PICK hc : hc = HealthCheck(job)
  OBVIOUS
<1>4. served \in Balancers /\ served.subnet = balancer.subnet
      /\ served.listeners = DesiredListeners(job) /\ served.check = HealthCheck(job)
  <2>1. served = [balancer EXCEPT !.listeners = ls, !.check = hc]
    BY <1>2, <1>3
  <2>2. /\ ls \in {<<>>} \cup {DesiredListeners(r) : r \in Requests}
        /\ hc \in {NoHealthCheck} \cup {HealthCheck(r) : r \in Requests}
    BY <1>1, <1>2, <1>3
  <2> QED BY <1>1, <1>2, <1>3, <2>1, <2>2 DEF Balancers
<1>5. moved \subseteq SubnetIds /\ moved \subseteq Resolve(asked) \cup {asked}
  BY <1>1, ResolveIsListed DEF Balancers
<1> HIDE DEF asked, preferred, moved, served
<1>6. \/ Fail /\ UNCHANGED <<balancer, call>>
      \/ Fail /\ balancer' = served /\ UNCHANGED call
      \/ /\ GroupsExist(job) /\ EnsureManagedSecurityGroup(job)
         /\ \E s \in moved :
              balancer' = [served EXCEPT !.subnet = s, !.groups = DesiredGroups(job),
                                         !.reserved = TrimSpace(job.reserved)]
         /\ call' \in {call, "update"}
         /\ settled' = (job = request) /\ job' = None /\ UNCHANGED dirty
  BY DEF UpdateBalancer, asked, preferred, moved, served
<1>7. ASSUME Fail, balancer' \in {balancer, served}, UNCHANGED call
      PROVE  PlacementInv'
  <2>1. ValueTypes' /\ ProcessInv' /\ ~settled'
    BY <1>1, <1>7 DEF PlacementInv, ValueTypes, ProcessInv, Fail
  <2> QED BY <1>1, <1>4, <1>7, <2>1 DEF PlacementInv
<1>8. ASSUME GroupsExist(job), EnsureManagedSecurityGroup(job), NEW s \in moved,
             balancer' = [served EXCEPT !.subnet = s, !.groups = DesiredGroups(job),
                                        !.reserved = TrimSpace(job.reserved)],
             call' \in {call, "update"}, settled' = (job = request), job' = None, UNCHANGED dirty
      PROVE  PlacementInv'
  <2>1. ValueTypes' /\ ProcessInv'
    BY <1>1, <1>8 DEF PlacementInv, ValueTypes, ProcessInv
  <2>2. DesiredGroups(job) \in Seq(Groups \cup {Managed}) /\ s \in SubnetIds
    BY <1>1, <1>5, <1>8, GroupsAsAsked
  <2>3. PICK g, rsv : g = DesiredGroups(job) /\ rsv = TrimSpace(job.reserved)
    OBVIOUS
  <2>4. rsv \in {TrimSpace(r.reserved) : r \in Requests}
    BY <1>1, <2>3
  <2>5. balancer' = [served EXCEPT !.subnet = s, !.groups = g, !.reserved = rsv]
    BY <1>8, <2>3
  <2>6. /\ balancer' \in Balancers /\ balancer'.subnet = s /\ balancer'.groups = g /\ balancer'.reserved = rsv
        /\ balancer'.listeners = served.listeners /\ balancer'.check = served.check
    BY <1>4, <2>2, <2>3, <2>4, <2>5 DEF Balancers
  <2>7. ASSUME settled' PROVE AsAsked'
    <3>1. job = request /\ request' = job
      BY <1>1, <1>8, <2>7
    <3>2. balancer' # None
      BY <2>6, NoneAssumption
    <3>3. balancer'.subnet \in (Resolve(GetSubnetIdentity(request)) \cup {GetSubnetIdentity(request)})'
      BY <1>1, <1>5, <2>6, <3>1 DEF asked, GetSubnetIdentity, Resolve
    <3>4. job.managed = "true" => rules' = BuildIngressRules(DesiredListeners(job))
      BY <1>8 DEF EnsureManagedSecurityGroup, GetBoolAnnotation
    <3> QED BY <1>4, <2>3, <2>6, <3>1, <3>2, <3>3, <3>4 DEF AsAsked
  <2> QED BY <2>1, <2>6, <2>7 DEF PlacementInv
<1> QED BY <1>6, <1>7, <1>8

(* Every step keeps the invariant.                                         *)
LEMMA InvStep ==
    ASSUME PlacementInv, [Next]_vars
    PROVE  PlacementInv'
<1>1. CASE UNCHANGED vars
  <2>1. settled' => AsAsked'
    BY <1>1, AsAskedStays DEF PlacementInv, vars, process, work
  <2> QED BY <1>1, <2>1 DEF PlacementInv, ValueTypes, ProcessInv, vars, process, work
<1> QED
  BY <1>1, InvStart, InvBegin, InvCreate, InvUpdate, InvEdit, InvVpc, InvStop DEF Next

(* The inductive invariant of this module.                                 *)
LEMMA PlacementInvariant == Spec => []PlacementInv
BY InvInit, InvStep, PTL DEF Spec

(* Everything sent to the API is in range, whatever numbers the            *)
(* annotations hold: idle timeouts fit 32 bits, health check ports 31, and *)
(* the load balancer is in a subnet of the VPC with groups that exist.     *)
THEOREM PlacementTypes == Spec => []TypeOK
BY PlacementInvariant, InvTypes, PTL

(* An ensured Service has the load balancer its annotations ask for,       *)
(* whatever it asked for before, however the VPC changed and however often *)
(* the process restarted with another default subnet; one with a health    *)
(* check node port is probed, and on that port unless a number is given.   *)
THEOREM AsRequested == Spec => []SettledAsRequested
<1>1. PlacementInv => SettledAsRequested
  <2> SUFFICES ASSUME PlacementInv, settled PROVE SettledAsRequested
    BY DEF SettledAsRequested
  <2>1. AsAsked /\ request \in Requests
    BY DEF PlacementInv, ValueTypes
  <2>2. ToSet(balancer.groups) = ToSet(request.groups) \cup
            (IF request.managed = "true" THEN {Managed} ELSE {})
    BY <2>1, GroupsAsAsked DEF AsAsked
  <2>3. request.managed = "true" =>
          rules = UNION {{[proto |-> l.proto, port |-> l.port, source |-> s] : s \in ToSet(l.sources)}
                         : l \in ToSet(balancer.listeners)}
    BY <2>1, RulesOfListeners DEF AsAsked
  <2>4. request.checkNodePort > 0 =>
          /\ balancer.check.on
          /\ request.checkPort.kind # "int" => balancer.check.port = request.checkNodePort
    BY <2>1, HealthCheckPort DEF AsAsked
  <2> QED BY <2>1, <2>2, <2>3, <2>4 DEF SettledAsRequested, AsAsked
<1> QED BY <1>1, PlacementInvariant, PTL

(* A listener admits the valid sources given for all ports and for its     *)
(* own, each once, and none given for another port, whatever room append   *)
(* leaves in the array the ports' lists are built in.                      *)
THEOREM SourcesConfigured == Spec => []SourcesAsConfigured
<1>1. PlacementInv => SourcesAsConfigured
  <2> SUFFICES ASSUME PlacementInv, settled PROVE SourcesAsConfigured
    BY DEF SourcesAsConfigured
  <2>1. balancer.listeners = DesiredListeners(request) /\ request \in Requests
    BY DEF PlacementInv, ValueTypes, AsAsked
  <2> QED BY <2>1, ListenerSources DEF SourcesAsConfigured
<1> QED BY <1>1, PlacementInvariant, PTL

(* The idle timeout is the one asked for when 32 bits hold it, the default *)
(* when it is no number.                                                   *)
THEOREM LimitsRequested == Spec => []LimitsAsRequested
<1>1. PlacementInv => LimitsAsRequested
  BY ListenerLimits DEF PlacementInv, ValueTypes, AsAsked, LimitsAsRequested
<1> QED BY <1>1, PlacementInvariant, PTL

(* Ensuring a settled Service again calls for no update of its load        *)
(* balancer.                                                               *)
THEOREM NoUpdate == Spec => NoNeedlessUpdate
<1>1. ASSUME PlacementInv, [Next]_vars, settled, settled', GetSubnetIdentity(request) \in SubnetIds,
             call' = "update", call # "update"
      PROVE  FALSE
  <2>1. UpdateBalancer
    BY <1>1 DEF Next, Start, BeginEnsure, CreateBalancer, Fail, EditService, ChangeVpc, Resync, Stop,
                vars, work
  <2>2. AsAsked /\ job = request /\ vpc \in Vpcs
    BY <1>1, <2>1 DEF UpdateBalancer, PlacementInv, ProcessInv, ValueTypes
  <2>3. balancer.subnet = GetSubnetIdentity(request)
    BY <1>1, <2>2, IdentityResolves DEF AsAsked
  <2>4. GetSubnetIdentity(request) # ""
    BY <1>1, <2>2 DEF PlacementInv, ProcessInv, GetSubnetIdentity
  <2>5. NeedsUpdate(job, GetSubnetIdentity(job))
    BY <1>1, <2>1, <2>2, <2>4 DEF UpdateBalancer, Fail
  <2> QED BY <2>2, <2>3, <2>5 DEF NeedsUpdate, AsAsked
<1>2. PlacementInv /\ [Next]_vars =>
        [settled /\ settled' /\ GetSubnetIdentity(request) \in SubnetIds
           => (call' = "update" => call = "update")]_vars
  BY <1>1
<1> QED BY <1>2, PlacementInvariant, PTL DEF Spec, NoNeedlessUpdate
=============================================================================
