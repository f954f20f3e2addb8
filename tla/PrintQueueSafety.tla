-------------------------- MODULE PrintQueueSafety --------------------------
(***************************************************************************)
(* Safety of the print queue addon, for any printers, keys, faults, policy *)
(* and depth.  The invariant QInv says where a key is (waiting in one      *)
(* lane, or at one worker, or neither, as the driver's index tells), what  *)
(* is under way in a lane (one drained job, or its ending in the inbox)    *)
(* and what the events on their way to a lane will make of it.             *)
(* First what the operators of PrintQueue on sequences return; then the    *)
(* types, then each part of QInv kept by each action, then the theorems.   *)
(***************************************************************************)
EXTENDS PrintQueue, TLAPS, SequenceTheorems, FiniteSetTheorems, FunctionTheorems

(* A set of numbers has a least one: what an induction over a lane needs.  *)
LEMMA LeastNumber ==
  ASSUME NEW T \in SUBSET Nat, T # {}
  PROVE  \E m \in T : \A n \in T : m <= n
<1>1. PICK m \in T : \A n \in T : ~(<<n, m>> \in OpToRel(<, Nat))
  BY NatLessThanWellFounded, WFMin, Zenon
<1>2. \A n \in T : ~(n < m)
  BY <1>1 DEF OpToRel
<1> QED
  BY <1>2

(* One step of the pass over a lane.                                       *)
KeptStep(f, s, gone, i) ==
  IF i = 0 THEN <<>>
  ELSE IF s[i] \in gone THEN f[i - 1] ELSE Append(f[i - 1], s[i])

IsKept(f, s, gone, n) == f = [i \in 0 .. n |-> KeptStep(f, s, gone, i)]

(* The recursion of Without defines a function.                            *)
LEMMA KeptIsDefined ==
  ASSUME NEW s, NEW gone
  PROVE  \A n \in Nat : \E f : IsKept(f, s, gone, n)
<1> DEFINE Defined(n) == \E f : IsKept(f, s, gone, n)
           T == {n \in Nat : ~Defined(n)}
<1>1. SUFFICES ASSUME T # {} PROVE FALSE
  OBVIOUS
<1>2. PICK m \in T : \A n \in T : m <= n
  BY <1>1, LeastNumber
<1>3. m # 0
  <2> DEFINE f == [i \in 0 .. 0 |-> <<>>]
  <2>1. f = [i \in 0 .. 0 |-> KeptStep(f, s, gone, i)]
    BY DEF KeptStep
  <2> QED
    BY <2>1, <1>2 DEF IsKept
<1>4. m - 1 \in Nat /\ Defined(m - 1)
  BY <1>2, <1>3
<1>5. PICK f : f = [i \in 0 .. m - 1 |-> KeptStep(f, s, gone, i)]
  BY <1>4 DEF IsKept
<1> DEFINE g == [i \in 0 .. m |-> IF i = m THEN KeptStep(f, s, gone, m) ELSE f[i]]
<1>6. \A i \in 0 .. m : g[i] = KeptStep(g, s, gone, i)
  <2> SUFFICES ASSUME NEW i \in 0 .. m PROVE g[i] = KeptStep(g, s, gone, i)
    OBVIOUS
  <2>1. i # 0 => g[i - 1] = f[i - 1]
    BY <1>4
  <2>2. i # m => g[i] = KeptStep(f, s, gone, i)
    BY <1>4, <1>5
  <2>3. g[i] = KeptStep(f, s, gone, i)
    BY <2>2
  <2> QED
    BY <2>1, <2>3 DEF KeptStep
<1>7. g = [i \in 0 .. m |-> KeptStep(g, s, gone, i)]
  BY <1>6
<1>8. Defined(m)
  BY <1>7 DEF IsKept
<1> QED
  BY <1>8, <1>2

LEMMA WithoutUnfolds ==
  ASSUME NEW s \in Seq(Keys), NEW gone
  PROVE  \E f : /\ IsKept(f, s, gone, Len(s))
                /\ Without(s, gone) = f[Len(s)]
<1> DEFINE kept == CHOOSE f : f = [i \in 0 .. Len(s) |->
                        IF i = 0 THEN <<>>
        ELSE IF s[i] \in gone THEN f[i - 1] ELSE Append(f[i - 1], s[i])]
<1>1. \E f : f = [i \in 0 .. Len(s) |->
                        IF i = 0 THEN <<>>
        ELSE IF s[i] \in gone THEN f[i - 1] ELSE Append(f[i - 1], s[i])]
  <2>1. Len(s) \in Nat
    BY LenProperties
  <2>2. \E f : IsKept(f, s, gone, Len(s))
    BY <2>1, KeptIsDefined
  <2> QED
    BY <2>2, Zenon DEF KeptStep, IsKept
<1>2. IsKept(kept, s, gone, Len(s))
  BY <1>1, Zenon DEF KeptStep, IsKept
<1>3. Without(s, gone) = kept[Len(s)]
  BY Zenon DEF Without
<1> QED
  BY <1>2, <1>3

(* What t keeps of the first n of s: their order, none that is gone, and   *)
(* every other.                                                            *)
Picks(h, t, s, n, gone) ==
  /\ Len(t) <= n
  /\ h \in [1 .. Len(t) -> 1 .. n]
  /\ \A i, j \in 1 .. Len(t) : i < j => h[i] < h[j]
  /\ \A i \in 1 .. Len(t) : t[i] = s[h[i]] /\ t[i] \notin gone
  /\ \A m \in 1 .. n : s[m] \notin gone => \E i \in 1 .. Len(t) : h[i] = m

(* Without takes away what is gone, nothing else, and keeps the order.     *)
LEMMA WithoutPicks ==
  ASSUME NEW s \in Seq(Keys), NEW gone
  PROVE  /\ Without(s, gone) \in Seq(Keys)
         /\ \E h : Picks(h, Without(s, gone), s, Len(s), gone)
<1> DEFINE N == Len(s)
<1>n. N \in Nat /\ s \in [1 .. N -> Keys]
  BY LenProperties
<1>1. PICK f : /\ f = [i \in 0 .. N |-> KeptStep(f, s, gone, i)]
               /\ Without(s, gone) = f[N]
  BY WithoutUnfolds DEF IsKept
<1> HIDE DEF N
<1> DEFINE Good(n) == f[n] \in Seq(Keys) /\ \E h : Picks(h, f[n], s, n, gone)
           T == {n \in 0 .. N : ~Good(n)}
<1>2. SUFFICES ASSUME T # {} PROVE FALSE
  <2>1. N \in 0 .. N
    BY <1>n
  <2>2. T = {} => Good(N)
    BY <2>1
  <2> QED
    BY <2>2, <1>1 DEF N
<1>3. PICK m \in T : \A n \in T : m <= n
  <2>1. T \in SUBSET Nat
    BY <1>n
  <2> QED
    BY <2>1, <1>2, LeastNumber
<1>4. m \in 0 .. N /\ ~Good(m)
  BY <1>3
<1>5. f[m] = KeptStep(f, s, gone, m)
  BY <1>1, <1>4
<1>6. CASE m = 0
  <2>1. f[m] = <<>>
    BY <1>5, <1>6 DEF KeptStep
  <2> DEFINE h == [i \in 1 .. 0 |-> 0]
  <2>2. Picks(h, f[m], s, m, gone)
    BY <2>1, <1>6 DEF Picks
  <2>3. f[m] \in Seq(Keys)
    BY <2>1
  <2> QED
    BY <2>2, <2>3, <1>4
<1>7. CASE m # 0
  <2>1. m - 1 \in 0 .. N /\ m \in 1 .. N
    BY <1>7, <1>4, <1>n
  <2>2. Good(m - 1)
    BY <2>1, <1>3
  <2> DEFINE t == f[m - 1]
  <2>3. t \in Seq(Keys) /\ Len(t) \in Nat
    BY <2>2, LenProperties
  <2>4. PICK h : Picks(h, t, s, m - 1, gone)
    BY <2>2
  <2> HIDE DEF t
  <2>5. CASE s[m] \in gone
    <3>1. f[m] = t
      BY <1>5, <2>5, <1>7 DEF KeptStep, t
    <3>2. Picks(h, t, s, m, gone)
      BY <2>4, <2>5, <2>1, <2>3, <1>n DEF Picks
    <3> QED
      BY <3>1, <3>2, <2>3, <1>4
  <2>6. CASE s[m] \notin gone
    <3>1. f[m] = Append(t, s[m])
      BY <1>5, <2>6, <1>7 DEF KeptStep, t
    <3>2. s[m] \in Keys
      BY <1>n, <2>1
    <3>3. /\ f[m] \in Seq(Keys) /\ Len(f[m]) = Len(t) + 1
          /\ \A i \in 1 .. Len(t) : f[m][i] = t[i]
          /\ f[m][Len(t) + 1] = s[m]
      BY <3>1, <3>2, <2>3, AppendProperties
    <3> DEFINE g == [i \in 1 .. Len(t) + 1 |-> IF i = Len(t) + 1 THEN m ELSE h[i]]
    <3>h. /\ h \in [1 .. Len(t) -> 1 .. m - 1]
          /\ \A i, j \in 1 .. Len(t) : i < j => h[i] < h[j]
      BY <2>4 DEF Picks
    <3>m. m \in Nat /\ m >= 1
      BY <2>1, <1>n
    <3>4. /\ g \in [1 .. Len(f[m]) -> 1 .. m]
          /\ \A i \in 1 .. Len(t) : g[i] = h[i] /\ h[i] \in 1 .. m - 1
          /\ g[Len(t) + 1] = m
      <4>1. \A i \in 1 .. Len(t) + 1 : i # Len(t) + 1 => i \in 1 .. Len(t)
        BY <2>3
      <4>2. \A i \in 1 .. Len(t) : i # Len(t) + 1 /\ i \in 1 .. Len(t) + 1
        BY <2>3
      <4>3. \A i \in 1 .. m - 1 : i \in 1 .. m
        BY <3>m
      <4>4. \A i \in 1 .. Len(t) : g[i] = h[i] /\ h[i] \in 1 .. m - 1
        BY <4>2, <3>h
      <4>5. g[Len(t) + 1] = m
        BY <2>3
      <4>6. \A i \in 1 .. Len(t) + 1 : g[i] \in 1 .. m
        <5> SUFFICES ASSUME NEW i \in 1 .. Len(t) + 1 PROVE g[i] \in 1 .. m
          OBVIOUS
        <5>1. CASE i = Len(t) + 1
          BY <5>1, <4>5, <3>m
        <5>2. CASE i # Len(t) + 1
          <6>1. g[i] = h[i] /\ h[i] \in 1 .. m - 1
            BY <5>2, <4>1, <4>4
          <6> QED
            BY <6>1, <4>3
        <5> QED
          BY <5>1, <5>2
      <4> QED
        BY <4>4, <4>5, <4>6, <3>3
    <3> HIDE DEF g
    <3>5. \A i, j \in 1 .. Len(f[m]) : i < j => g[i] < g[j]
      <4> SUFFICES ASSUME NEW i \in 1 .. Len(f[m]), NEW j \in 1 .. Len(f[m]), i < j
                   PROVE  g[i] < g[j]
        OBVIOUS
      <4>1. i \in 1 .. Len(t)
        BY <3>3, <2>3
      <4>2. g[i] = h[i] /\ h[i] \in 1 .. m - 1
        BY <4>1, <3>4
      <4>3. CASE j = Len(t) + 1
        BY <4>2, <4>3, <3>4, <3>m
      <4>4. CASE j # Len(t) + 1
        <5>1. j \in 1 .. Len(t)
          BY <4>4, <3>3, <2>3
        <5> QED
          BY <5>1, <4>1, <3>4, <3>h
      <4> QED
        BY <4>3, <4>4
    <3>6. \A i \in 1 .. Len(f[m]) : f[m][i] = s[g[i]] /\ f[m][i] \notin gone
      <4> SUFFICES ASSUME NEW i \in 1 .. Len(f[m])
                   PROVE  f[m][i] = s[g[i]] /\ f[m][i] \notin gone
        OBVIOUS
      <4>1. CASE i = Len(t) + 1
        BY <4>1, <3>3, <3>4, <2>6
      <4>2. CASE i # Len(t) + 1
        <5>1. i \in 1 .. Len(t)
          BY <4>2, <3>3, <2>3
        <5>2. t[i] = s[h[i]] /\ t[i] \notin gone
          BY <5>1, <2>4 DEF Picks
        <5> QED
          BY <5>1, <5>2, <3>3, <3>4
      <4> QED
        BY <4>1, <4>2
    <3>7. \A k \in 1 .. m : s[k] \notin gone => \E i \in 1 .. Len(f[m]) : g[i] = k
      <4> SUFFICES ASSUME NEW k \in 1 .. m, s[k] \notin gone
                   PROVE  \E i \in 1 .. Len(f[m]) : g[i] = k
        OBVIOUS
      <4>1. CASE k = m
        BY <4>1, <3>3, <3>4, <2>3
      <4>2. CASE k # m
        <5>1. k \in 1 .. m - 1
          BY <4>2, <2>1, <1>n
        <5>2. PICK i \in 1 .. Len(t) : h[i] = k
          BY <5>1, <2>4 DEF Picks
        <5> QED
          BY <5>2, <3>3, <3>4, <2>3
      <4> QED
        BY <4>1, <4>2
    <3>8. Picks(g, f[m], s, m, gone)
      <4>1. Len(t) <= m - 1
        BY <2>4 DEF Picks
      <4> QED
        BY <4>1, <3>3, <2>3, <3>m, <3>4, <3>5, <3>6, <3>7 DEF Picks
    <3> QED
      BY <3>8, <3>3, <1>4
  <2> QED
    BY <2>5, <2>6
<1> QED
  BY <1>6, <1>7

(* What a pass leaves of a lane without duplicates.                        *)
LEMMA WithoutKeys ==
  ASSUME NEW s \in Seq(Keys), NEW gone
  PROVE  /\ Without(s, gone) \in Seq(Keys)
         /\ Len(Without(s, gone)) <= Len(s)
         /\ \A k : Contains(Without(s, gone), k) <=> (Contains(s, k) /\ k \notin gone)
         /\ IsInjective(s) => IsInjective(Without(s, gone))
<1> DEFINE t == Without(s, gone)
<1>1. t \in Seq(Keys) /\ \E h : Picks(h, t, s, Len(s), gone)
  BY WithoutPicks
<1>2. PICK h : Picks(h, t, s, Len(s), gone)
  BY <1>1
<1> HIDE DEF t
<1>3. /\ Len(t) \in Nat /\ DOMAIN t = 1 .. Len(t)
      /\ Len(s) \in Nat /\ DOMAIN s = 1 .. Len(s)
  BY <1>1, LenProperties
<1>4. /\ Len(t) <= Len(s)
      /\ h \in [1 .. Len(t) -> 1 .. Len(s)]
      /\ \A i, j \in 1 .. Len(t) : i < j => h[i] < h[j]
      /\ \A i \in 1 .. Len(t) : t[i] = s[h[i]] /\ t[i] \notin gone
      /\ \A m \in 1 .. Len(s) : s[m] \notin gone => \E i \in 1 .. Len(t) : h[i] = m
  BY <1>2 DEF Picks
<1>5. ASSUME NEW k PROVE Contains(t, k) <=> (Contains(s, k) /\ k \notin gone)
  BY <1>4 DEF Contains
<1>6. ASSUME IsInjective(s) PROVE IsInjective(t)
  <2> SUFFICES ASSUME NEW i \in 1 .. Len(t), NEW j \in 1 .. Len(t), t[i] = t[j]
               PROVE  i = j
    BY <1>3 DEF IsInjective
  <2>1. h[i] \in 1 .. Len(s) /\ h[j] \in 1 .. Len(s) /\ s[h[i]] = s[h[j]]
    BY <1>4
  <2>2. h[i] = h[j]
    BY <2>1, <1>6, <1>3 DEF IsInjective
  <2> QED
    BY <2>1, <2>2, <1>3, <1>4
<1> QED
  BY <1>1, <1>4, <1>5, <1>6 DEF t

(* Taking one item out of a lane.                                          *)
LEMMA RemoveAtIs ==
  ASSUME NEW s \in Seq(Keys), NEW n \in 1 .. Len(s)
  PROVE  /\ RemoveAt(s, n) \in Seq(Keys)
         /\ Len(RemoveAt(s, n)) = Len(s) - 1
         /\ \A i \in 1 .. Len(s) - 1 :
              RemoveAt(s, n)[i] = IF i < n THEN s[i] ELSE s[i + 1]
<1>1. Len(s) \in Nat /\ s \in [1 .. Len(s) -> Keys]
  BY LenProperties
<1>n. Len(s) \in Nat /\ n \in Nat /\ 1 <= n /\ n <= Len(s)
  BY <1>1
<1> DEFINE a == SubSeq(s, 1, n - 1)
           b == SubSeq(s, n + 1, Len(s))
<1>2. /\ a \in Seq(Keys) /\ Len(a) = n - 1
      /\ \A i \in 1 .. n - 1 : a[i] = s[i]
  <2>1. \A i \in 1 .. n - 1 : s[i] \in Keys
    BY <1>1
  <2>2. n - 1 \in Int /\ 1 \in Int /\ n >= 1
    BY <1>1
  <2>3. /\ a \in Seq(Keys) /\ Len(a) = IF 1 <= n - 1 THEN n - 1 - 1 + 1 ELSE 0
        /\ \A i \in 1 .. n - 1 - 1 + 1 : a[i] = s[1 + i - 1]
    BY <2>1, <2>2, SubSeqProperties
  <2> QED
    BY <2>2, <2>3
<1>3. /\ b \in Seq(Keys) /\ Len(b) = Len(s) - n
      /\ \A i \in 1 .. Len(s) - n : b[i] = s[n + i]
  <2>1. \A i \in n + 1 .. Len(s) : s[i] \in Keys
    BY <1>1
  <2>2. n + 1 \in Int /\ Len(s) \in Int
    BY <1>1
  <2>3. /\ b \in Seq(Keys)
        /\ Len(b) = IF n + 1 <= Len(s) THEN Len(s) - (n + 1) + 1 ELSE 0
        /\ \A i \in 1 .. Len(s) - (n + 1) + 1 : b[i] = s[n + 1 + i - 1]
    BY <2>1, <2>2, SubSeqProperties
  <2> HIDE DEF b
  <2>4. Len(s) - (n + 1) + 1 = Len(s) - n /\ \A i \in 1 .. Len(s) - n : n + 1 + i - 1 = n + i
    BY <1>1
  <2>5. Len(b) = Len(s) - n
    <3>1. CASE n + 1 <= Len(s)
      BY <2>3, <2>4, <3>1
    <3>2. CASE ~(n + 1 <= Len(s))
      <4>1. n = Len(s)
        BY <3>2, <1>n
      <4> QED
        BY <2>3, <3>2, <4>1, <1>n
    <3> QED
      BY <3>1, <3>2
  <2>6. \A i \in 1 .. Len(s) - n : b[i] = s[n + 1 + i - 1]
    BY <2>3, <2>4
  <2>7. \A i \in 1 .. Len(s) - n : b[i] = s[n + i]
    BY <2>6, <2>4
  <2> QED
    BY <2>3, <2>5, <2>7
<1> HIDE DEF a, b
<1>4. /\ a \o b \in Seq(Keys)
      /\ Len(a \o b) = Len(a) + Len(b)
      /\ \A i \in 1 .. Len(a) + Len(b) :
           (a \o b)[i] = IF i <= Len(a) THEN a[i] ELSE b[i - Len(a)]
  BY <1>2, <1>3, ConcatProperties
<1>5. RemoveAt(s, n) = a \o b
  BY DEF RemoveAt, a, b
<1>6. \A i \in 1 .. Len(s) - 1 : (a \o b)[i] = IF i < n THEN s[i] ELSE s[i + 1]
  <2> SUFFICES ASSUME NEW i \in 1 .. Len(s) - 1
               PROVE  (a \o b)[i] = IF i < n THEN s[i] ELSE s[i + 1]
    OBVIOUS
  <2>1. (a \o b)[i] = IF i <= Len(a) THEN a[i] ELSE b[i - Len(a)]
    BY <1>1, <1>2, <1>3, <1>4
  <2>2. CASE i < n
    BY <2>1, <2>2, <1>1, <1>2
  <2>3. CASE ~(i < n)
    <3>1. i - Len(a) \in 1 .. Len(s) - n /\ n + (i - Len(a)) = i + 1
      BY <2>3, <1>1, <1>2
    <3>2. (a \o b)[i] = b[i - Len(a)]
      BY <2>1, <2>3, <1>1, <1>2
    <3> QED
      BY <3>1, <3>2, <2>3, <1>3
  <2> QED
    BY <2>2, <2>3
<1>7. Len(a) + Len(b) = Len(s) - 1
  BY <1>1, <1>2, <1>3
<1> QED
  BY <1>4, <1>5, <1>6, <1>7

LEMMA RemoveAtKeys ==
  ASSUME NEW s \in Seq(Keys), NEW n \in 1 .. Len(s), IsInjective(s)
  PROVE  /\ RemoveAt(s, n) \in Seq(Keys)
         /\ Len(RemoveAt(s, n)) = Len(s) - 1
         /\ \A k : Contains(RemoveAt(s, n), k) <=> (Contains(s, k) /\ k # s[n])
         /\ IsInjective(RemoveAt(s, n))
<1> DEFINE t == RemoveAt(s, n)
<1>1. /\ t \in Seq(Keys) /\ Len(t) = Len(s) - 1
      /\ \A i \in 1 .. Len(s) - 1 : t[i] = IF i < n THEN s[i] ELSE s[i + 1]
  BY RemoveAtIs
<1> HIDE DEF t
<1>2. /\ Len(s) \in Nat /\ DOMAIN s = 1 .. Len(s) /\ DOMAIN t = 1 .. Len(s) - 1
  BY <1>1, LenProperties
<1>3. \A i, j \in 1 .. Len(s) : s[i] = s[j] => i = j
  BY <1>2 DEF IsInjective
<1>4. ASSUME NEW k PROVE Contains(t, k) <=> (Contains(s, k) /\ k # s[n])
  <2>1. ASSUME NEW i \in 1 .. Len(s) - 1 PROVE Contains(s, t[i]) /\ t[i] # s[n]
    <3>1. CASE i < n
      BY <3>1, <1>1, <1>2, <1>3 DEF Contains
    <3>2. CASE ~(i < n)
      <4>1. i + 1 \in 1 .. Len(s) /\ i + 1 # n
        BY <3>2, <1>2
      <4> QED
        BY <3>2, <4>1, <1>1, <1>3 DEF Contains
    <3> QED
      BY <3>1, <3>2
  <2>2. ASSUME NEW i \in 1 .. Len(s), i # n PROVE Contains(t, s[i])
    <3>1. CASE i < n
      BY <3>1, <1>1, <1>2 DEF Contains
    <3>2. CASE i > n
      <4>1. i - 1 \in 1 .. Len(s) - 1 /\ ~(i - 1 < n) /\ i - 1 + 1 = i
        BY <3>2, <1>2
      <4> QED
        BY <4>1, <1>1 DEF Contains
    <3> QED
      BY <2>2, <3>1, <3>2, <1>2
  <2> QED
    BY <2>1, <2>2, <1>1, <1>2 DEF Contains
<1>5. IsInjective(t)
  <2> SUFFICES ASSUME NEW i \in 1 .. Len(s) - 1, NEW j \in 1 .. Len(s) - 1, t[i] = t[j]
               PROVE  i = j
    BY <1>2 DEF IsInjective
  <2> DEFINE at(m) == IF m < n THEN m ELSE m + 1
  <2>1. at(i) \in 1 .. Len(s) /\ at(j) \in 1 .. Len(s)
    BY <1>2
  <2>2. s[at(i)] = s[at(j)]
    BY <1>1
  <2>3. at(i) = at(j)
    BY <2>1, <2>2, <1>3
  <2> QED
    BY <2>3, <1>2
<1> QED
  BY <1>1, <1>4, <1>5 DEF t

(* A lane with items has one that goes first.                              *)
LEMMA SelectIsFirst ==
  ASSUME NEW ln, ln.waiting \in Seq(Keys), ln.waiting # <<>>
  PROVE  /\ Select(ln) \in 1 .. Len(ln.waiting)
         /\ \A j \in 1 .. Len(ln.waiting) : j # Select(ln) => Before(ln, Select(ln), j)
<1> DEFINE w == ln.waiting
           N == Len(ln.waiting)
           U == {i \in 1 .. N : w[i] \in Urgent}
<1>1. N \in Nat /\ N >= 1 /\ DOMAIN w = 1 .. N
  <2>1. N \in Nat /\ DOMAIN w = 1 .. N
    BY LenProperties
  <2>2. N # 0
    BY EmptySeq
  <2> QED
    BY <2>1, <2>2
<1>2. \E i \in DOMAIN w : \A j \in DOMAIN w \ {i} : Before(ln, i, j)
  <2>1. CASE ByPriority /\ U # {}
    <3>1. U \in SUBSET Nat
      BY <1>1
    <3>2. PICK i \in U : \A j \in U : i <= j
      BY <2>1, <3>1, LeastNumber
    <3>3. \A j \in DOMAIN w \ {i} : Before(ln, i, j)
      <4> SUFFICES ASSUME NEW j \in 1 .. N, j # i PROVE Before(ln, i, j)
        BY <1>1
      <4>1. CASE w[j] \in Urgent
        BY <4>1, <3>2, <1>1 DEF Before
      <4>2. CASE w[j] \notin Urgent
        BY <4>2, <3>2, <2>1 DEF Before
      <4> QED
        BY <4>1, <4>2
    <3> QED
      BY <3>2, <3>3, <1>1
  <2>2. CASE ~ByPriority \/ U = {}
    <3>1. \A j \in DOMAIN w \ {1} : Before(ln, 1, j)
      <4> SUFFICES ASSUME NEW j \in 1 .. N, j # 1 PROVE Before(ln, 1, j)
        BY <1>1
      <4>1. 1 < j /\ 1 \in 1 .. N
        BY <1>1
      <4>2. ~(ByPriority /\ (w[1] \in Urgent) # (w[j] \in Urgent))
        BY <2>2, <4>1
      <4> QED
        BY <4>1, <4>2 DEF Before
    <3> QED
      BY <3>1, <1>1
  <2> QED
    BY <2>1, <2>2
<1>3. Select(ln) \in DOMAIN w /\ \A j \in DOMAIN w \ {Select(ln)} : Before(ln, Select(ln), j)
  BY <1>2, Zenon DEF Select
<1> QED
  BY <1>1, <1>3

(* A set of positions has a last one.                                      *)
LEMMA GreatestPosition ==
  ASSUME NEW n \in Nat, NEW S \in SUBSET (1 .. n), S # {}
  PROVE  Max(S) \in S /\ \A i \in S : Max(S) >= i
<1> DEFINE T == {n - i : i \in S}
<1>1. T \in SUBSET Nat /\ T # {}
  <2>1. \A i \in S : n - i \in Nat
    OBVIOUS
  <2> QED
    BY <2>1
<1>2. PICK m \in T : \A k \in T : m <= k
  BY <1>1, LeastNumber
<1>3. PICK g \in S : m = n - g
  BY <1>2
<1>4. \A i \in S : g >= i
  <2> SUFFICES ASSUME NEW i \in S PROVE g >= i
    OBVIOUS
  <2>1. m <= n - i
    BY <1>2
  <2> QED
    BY <2>1, <1>3
<1> QED
  BY <1>3, <1>4 DEF Max

(* The events of a report name every flag, and only those.                 *)
LEMMA ReportNamesAll ==
  ASSUME NEW S, IsFiniteSet(S)
  PROVE  /\ SetToSeq(S) \in Seq(S)
         /\ \A x \in S : \E i \in 1 .. Len(SetToSeq(S)) : SetToSeq(S)[i] = x
<1> DEFINE n == Cardinality(S)
           f == SetToSeq(S)
<1>1. n \in Nat /\ Bijection(1 .. n, S) # {}
  BY FS_CardinalityType, Fun_ExistsBij
<1>2. PICK g : g \in Bijection(1 .. n, S)
  BY <1>1
<1>3. g \in [1 .. n -> S] /\ IsInjective(g)
  BY <1>2 DEF Bijection, Injection
<1>4. f \in [1 .. n -> S] /\ IsInjective(f)
  BY <1>3, Zenon DEF SetToSeq
<1>5. f \in Injection(1 .. n, S)
  BY <1>4 DEF Injection
<1>6. f \in Surjection(1 .. n, S)
  <2> HIDE DEF f
  <2>1. IsFiniteSet(1 .. n) /\ Cardinality(1 .. n) = n
    <3>1. 1 \in Int /\ n \in Int
      BY <1>1
    <3> HIDE DEF n
    <3>2. /\ IsFiniteSet(1 .. n)
          /\ Cardinality(1 .. n) = IF 1 > n THEN 0 ELSE n - 1 + 1
      BY <3>1, FS_Interval
    <3> QED
      BY <3>2, <1>1
  <2> QED
    BY <2>1, <1>5, FS_Injection
<1>7. f \in Seq(S) /\ Len(f) = n
  <2> HIDE DEF f, n
  <2> QED
    BY <1>4, <1>1
<1> QED
  BY <1>6, <1>7, Fun_SurjectionProperties

-----------------------------------------------------------------------------
(* The inductive invariant.                                                *)

Held(k, p) == Contains(lane[p].waiting, k)

Runs(k, p) == \E i \in 1 .. Len(engine[p]) : engine[p][i].key = k

(* A key waits in one place, and waits only while its job is Held.         *)
HeldOnce ==
  /\ \A p \in Printers : IsInjective(lane[p].waiting)
  /\ \A k \in Keys : \A p, q \in Printers : Held(k, p) /\ Held(k, q) => p = q
  /\ \A k \in Keys : \A p \in Printers : Held(k, p) => index[k].state = "held"

(* A key is at one worker, once, and only until its job ends.              *)
RunsOnce ==
  /\ \A p \in Printers : \A i, j \in 1 .. Len(engine[p]) :
       engine[p][i].key = engine[p][j].key => i = j
  /\ \A k \in Keys : \A p, q \in Printers : Runs(k, p) /\ Runs(k, q) => p = q
  /\ \A k \in Keys : \A p \in Printers : Runs(k, p) => index[k].state = "sent"

OnlyFailed(passes, n) == \A i \in 1 .. n : passes[i] = "Failed"

(* What the index says of a key is what became of its passes.              *)
IndexTellsPasses ==
  \A k \in Keys :
    LET passes == seen.passes[k]
        state == index[k].state
    IN /\ state \in {"none", "held", "expired", "overflowed"} => passes = <<>>
       /\ state \in {"sent", "Failed"} => OnlyFailed(passes, Len(passes))
       /\ state \in {"Done", "Unknown"} =>
            /\ passes # <<>> /\ passes[Len(passes)] = state
            /\ OnlyFailed(passes, Len(passes) - 1)

(* A lane nothing was enqueued on has nothing under way.                   *)
AbsentIsIdle ==
  \A p \in Printers :
    lane[p].is = "absent" => ~lane[p].inFlight /\ lane[p].waiting = <<>>

(* An ending that must stop the lane has stopped it, or is in the inbox.   *)
UnknownIsHeard ==
  \A p \in seen.unknown :
    \/ lane[p].blocked
    \/ \E i \in 1 .. Len(inbox.completions) :
         inbox.completions[i] = [printer |-> p, state |-> "Unknown"]

About(p, f) ==
  {i \in DOMAIN inbox.events : inbox.events[i].printer = p /\ inbox.events[i].fault = f}

Announced(p, f) == \E i \in 1 .. Len(status[p].toSend) : status[p].toSend[i].fault = f

(* What the reader has yet to dispatch says what the snapshot says.        *)
SentIsTrue(p) ==
  \A i \in 1 .. Len(status[p].toSend) :
    LET e == status[p].toSend[i]
    IN /\ status[p].observed /\ e.printer = p /\ e.fault \in Faults
       /\ e.on = (e.fault \in status[p].faults)

(* So does the last event about a fault, if no newer one is to come.       *)
LastIsTrue(p) ==
  \A f \in Faults : About(p, f) # {} =>
    /\ status[p].observed
    /\ \/ Announced(p, f)
       \/ inbox.events[Max(About(p, f))].on = (f \in status[p].faults)

(* And a lane that is owed no event about a fault.                         *)
SettledIsTrue(p) ==
  \A f \in Faults :
    (lane[p].is = "ready" /\ About(p, f) = {} /\ ~Announced(p, f))
      => (f \in lane[p].faults <=> f \in status[p].faults)

UnseenIsClean(p) ==
  ~status[p].observed => status[p].faults = {} /\ lane[p].faults \subseteq {"link"}

(* The events on their way to a lane lead it to the last status, whether   *)
(* the lane was seeded before, between or after them.                      *)
ReportsOf(p) == SentIsTrue(p) /\ LastIsTrue(p) /\ SettledIsTrue(p) /\ UnseenIsClean(p)

Reports == \A p \in Printers : ReportsOf(p)

QInv ==
  /\ TypeOK /\ HeldOnce /\ RunsOnce /\ IndexTellsPasses
  /\ AbsentIsIdle /\ OneInFlight /\ UnknownIsHeard /\ Reports

-----------------------------------------------------------------------------
(* Type correctness.                                                       *)

LEMMA PostType ==
  ASSUME ThreadOK, NEW box, Post(box),
         box \in [events : Seq(Events), completions : Seq(Completion), pending : BOOLEAN]
  PROVE  InboxOK' /\ ThreadOK'
BY DEF Post, Woken, InboxOK, ThreadOK

LEMMA PostEventType ==
  ASSUME TypeOK, NEW p \in Printers, NEW f \in Faults \cup {"link"}, NEW on \in BOOLEAN,
         PostEvent(p, f, on)
  PROVE  InboxOK' /\ ThreadOK'
<1> DEFINE e == [printer |-> p, fault |-> f, on |-> on]
           box == [inbox EXCEPT !.events = Append(@, e)]
<1>1. e \in Events
  BY DEF Events
<1>2. InboxOK /\ ThreadOK
  BY DEF TypeOK
<1>3. Append(inbox.events, e) \in Seq(Events)
  BY <1>1, <1>2, AppendProperties DEF InboxOK
<1>4. Post(box)
  BY DEF PostEvent
<1> HIDE DEF e
<1>5. box \in [events : Seq(Events), completions : Seq(Completion), pending : BOOLEAN]
  BY <1>2, <1>3 DEF InboxOK
<1> HIDE DEF box
<1> QED
  BY <1>2, <1>4, <1>5, PostType

LEMMA LaneTypeAfter ==
  ASSUME TypeOK, NEW p \in Printers, NEW ln \in LaneRecord,
         MaxDepth # 0 => Len(ln.waiting) <= MaxDepth,
         lane' = [lane EXCEPT ![p] = ln]
  PROVE  LaneOK'
BY DEF TypeOK, LaneOK

LEMMA ThreadTypes ==
  ASSUME TypeOK, RunRest \/ RunTimeout \/ Signal \/ Stop
  PROVE  TypeOK'
<1>1. InboxOK /\ ThreadOK
  BY DEF TypeOK
<1>2. InboxOK' /\ ThreadOK'
  <2>1. CASE RunRest \/ RunTimeout
    BY <2>1, <1>1 DEF RunRest, RunTimeout, InboxOK, ThreadOK
  <2>2. CASE Signal \/ Stop
    BY <2>2, <1>1, PostType DEF Signal, Stop, InboxOK
  <2> QED
    BY <2>1, <2>2
<1>3. OthersOK'
  <2>1. CASE RunRest \/ RunTimeout
    BY <2>1 DEF TypeOK, OthersOK, RunRest, RunTimeout
  <2>2. CASE Signal
    BY <2>2 DEF TypeOK, OthersOK, Signal
  <2>3. CASE Stop
    <3>1. turns' \in 0 .. MaxTurns
      BY <2>3, QueueAssumption DEF TypeOK, OthersOK, Stop
    <3> QED
      BY <2>3, <3>1 DEF TypeOK, OthersOK, Stop
  <2> QED
    BY <2>1, <2>2, <2>3
<1>4. UNCHANGED <<lane, index, engine, status, seen>>
  BY DEF RunRest, RunTimeout, Signal, Stop
<1>5. LaneOK' /\ StatusOK' /\ IndexOK' /\ EngineOK' /\ SeenOK'
  BY <1>4 DEF TypeOK, LaneOK, StatusOK, IndexOK, EngineOK, SeenOK
<1> QED
  BY <1>2, <1>3, <1>5 DEF TypeOK

LEMMA OperatorTypes ==
  ASSUME TypeOK, NEW p \in Printers, Pause(p) \/ Resume(p) \/ Unblock(p)
  PROVE  TypeOK'
<1>1. lane[p] \in LaneRecord /\ (MaxDepth # 0 => Len(lane[p].waiting) <= MaxDepth)
  BY DEF TypeOK, LaneOK
<1>2. LaneOK'
  <2>1. CASE Pause(p)
    <3> DEFINE ln == [lane[p] EXCEPT !.paused = TRUE, !.is = IF @ = "absent" THEN "bare" ELSE @]
    <3>1. ln \in LaneRecord /\ ln.waiting = lane[p].waiting
      BY <1>1 DEF LaneRecord
    <3>2. lane' = [lane EXCEPT ![p] = ln]
      BY <2>1 DEF Pause
    <3> HIDE DEF ln
    <3> QED
      BY <3>1, <3>2, <1>1, LaneTypeAfter
  <2>2. CASE Resume(p)
    <3> DEFINE ln == [lane[p] EXCEPT !.paused = FALSE]
    <3>1. ln \in LaneRecord /\ ln.waiting = lane[p].waiting
      BY <1>1 DEF LaneRecord
    <3>2. lane' = [lane EXCEPT ![p] = ln]
      BY <2>2 DEF Resume
    <3> HIDE DEF ln
    <3> QED
      BY <3>1, <3>2, <1>1, LaneTypeAfter
  <2>3. CASE Unblock(p)
    <3> DEFINE ln == [lane[p] EXCEPT !.blocked = FALSE]
    <3>1. ln \in LaneRecord /\ ln.waiting = lane[p].waiting
      BY <1>1 DEF LaneRecord
    <3>2. lane' = [lane EXCEPT ![p] = ln]
      BY <2>3 DEF Unblock
    <3> HIDE DEF ln
    <3> QED
      BY <3>1, <3>2, <1>1, LaneTypeAfter
  <2> QED
    BY <2>1, <2>2, <2>3
<1>3. OthersOK'
  BY QueueAssumption DEF TypeOK, OthersOK, Pause, Resume, Unblock
<1>4. SeenOK'
  BY DEF TypeOK, SeenOK, Pause, Resume, Unblock
<1>5. UNCHANGED <<inbox, thread, index, engine, status>>
  BY DEF Pause, Resume, Unblock
<1>6. InboxOK' /\ ThreadOK' /\ StatusOK' /\ IndexOK' /\ EngineOK'
  BY <1>5 DEF TypeOK, InboxOK, ThreadOK, StatusOK, IndexOK, EngineOK
<1> QED
  BY <1>2, <1>3, <1>4, <1>6 DEF TypeOK

LEMMA DeadlineTypes ==
  ASSUME TypeOK, NEW k \in Keys, Deadline(k)
  PROVE  TypeOK'
BY DEF Deadline, TypeOK, LaneOK, InboxOK, ThreadOK, StatusOK, IndexOK, EngineOK, SeenOK, OthersOK

LEMMA ReaderTypes ==
  ASSUME TypeOK, NEW p \in Printers,
         \/ \E flags \in SUBSET Faults : \E on \in SUBSET flags : MergeStatus(p, flags, on)
         \/ Dispatch(p) \/ ConnectionLost(p) \/ Connect(p)
  PROVE  TypeOK'
<1>1. CASE \E flags \in SUBSET Faults : \E on \in SUBSET flags : MergeStatus(p, flags, on)
  <2>1. PICK flags \in SUBSET Faults : \E on \in SUBSET flags : MergeStatus(p, flags, on)
    BY <1>1
  <2>0. PICK on \in SUBSET flags : MergeStatus(p, flags, on)
    BY <2>1
  <2> DEFINE S == {[printer |-> p, fault |-> f, on |-> f \in on] : f \in flags}
  <2>2. SetToSeq(S) \in Seq(Events)
    <3>1. IsFiniteSet(flags)
      BY <2>1, QueueAssumption, FS_Subset
    <3>2. IsFiniteSet(S)
      <4> DEFINE g == [f \in flags |-> [printer |-> p, fault |-> f, on |-> f \in on]]
      <4>1. g \in Surjection(flags, S)
        BY DEF Surjection
      <4> HIDE DEF g, S
      <4> QED
        BY <3>1, <4>1, FS_Surjection
    <3>3. S \in SUBSET Events
      <4>1. ASSUME NEW f \in flags
            PROVE  [printer |-> p, fault |-> f, on |-> f \in on] \in Events
        <5> DEFINE b == f \in on
        <5>1. b \in BOOLEAN /\ f \in Faults \cup {"link"}
          OBVIOUS
        <5> HIDE DEF b
        <5>2. [printer |-> p, fault |-> f, on |-> b] \in Events
          BY <5>1 DEF Events
        <5> QED
          BY <5>2 DEF b
      <4> QED
        BY <4>1
    <3> HIDE DEF S
    <3>4. SetToSeq(S) \in Seq(S)
      BY <3>2, ReportNamesAll
    <3> QED
      BY <3>3, <3>4, SeqMonotonic
  <2> HIDE DEF S
  <2> DEFINE r == [observed |-> TRUE, faults |-> (status[p].faults \ flags) \cup on,
                   toSend |-> SetToSeq(S)]
  <2>3. r \in [observed : BOOLEAN, faults : SUBSET Faults, toSend : Seq(Events)]
    BY <2>2 DEF TypeOK, StatusOK
  <2>4. status' = [status EXCEPT ![p] = r]
    BY <2>0 DEF MergeStatus, S
  <2> HIDE DEF r
  <2>5. StatusOK'
    BY <2>3, <2>4 DEF TypeOK, StatusOK
  <2>6. OthersOK'
    BY <2>0, QueueAssumption DEF TypeOK, OthersOK, MergeStatus
  <2>7. UNCHANGED <<lane, inbox, thread, index, engine, seen>>
    BY <2>0 DEF MergeStatus
  <2> QED
    BY <2>5, <2>6, <2>7 DEF TypeOK, LaneOK, InboxOK, ThreadOK, IndexOK, EngineOK, SeenOK
<1>2. CASE Dispatch(p)
  <2> DEFINE e == Head(status[p].toSend)
  <2>1. /\ status[p] \in [observed : BOOLEAN, faults : SUBSET Faults, toSend : Seq(Events)]
        /\ status[p].toSend \in Seq(Events) /\ status[p].toSend # <<>>
    BY <1>2 DEF Dispatch, TypeOK, StatusOK
  <2>2. e \in Events /\ Tail(status[p].toSend) \in Seq(Events)
    BY <2>1, HeadTailProperties
  <2>3. PostEvent(p, e.fault, e.on)
    BY <1>2 DEF Dispatch
  <2>4. status' = [status EXCEPT ![p].toSend = Tail(@)]
    BY <1>2 DEF Dispatch
  <2> HIDE DEF e
  <2>5. InboxOK' /\ ThreadOK'
    BY <2>2, <2>3, PostEventType DEF Events
  <2>6. StatusOK'
    <3> DEFINE r == [status[p] EXCEPT !.toSend = Tail(@)]
    <3>1. r \in [observed : BOOLEAN, faults : SUBSET Faults, toSend : Seq(Events)]
      BY <2>1, <2>2
    <3>2. status' = [status EXCEPT ![p] = r]
      BY <2>4
    <3> HIDE DEF r
    <3> QED
      BY <3>1, <3>2 DEF TypeOK, StatusOK
  <2>7. UNCHANGED <<lane, index, engine, seen, stopping, unsignalled, up, overdue, turns>>
    BY <1>2 DEF Dispatch
  <2> QED
    BY <2>5, <2>6, <2>7 DEF TypeOK, LaneOK, IndexOK, EngineOK, SeenOK, OthersOK
<1>3. CASE ConnectionLost(p) \/ Connect(p)
  <2>1. PICK on \in BOOLEAN : PostEvent(p, "link", on)
    BY <1>3 DEF ConnectionLost, Connect
  <2>2. InboxOK' /\ ThreadOK'
    BY <2>1, PostEventType
  <2>3. turns' \in 0 .. MaxTurns
    <3>1. CASE ConnectionLost(p)
      BY <3>1, QueueAssumption DEF ConnectionLost, TypeOK, OthersOK
    <3>2. CASE Connect(p)
      BY <3>2 DEF Connect, TypeOK, OthersOK
    <3> QED
      BY <1>3, <3>1, <3>2
  <2>4. OthersOK'
    BY <1>3, <2>3 DEF ConnectionLost, Connect, TypeOK, OthersOK
  <2>5. UNCHANGED <<lane, index, engine, seen, status>>
    BY <1>3 DEF ConnectionLost, Connect
  <2> QED
    BY <2>2, <2>4, <2>5 DEF TypeOK, LaneOK, StatusOK, IndexOK, EngineOK, SeenOK
<1> QED
  BY <1>1, <1>2, <1>3

(* What JobEnds does to each variable.                                     *)
LEMMA EndingIs ==
  ASSUME TypeOK, NEW p \in Printers, NEW outcome \in Outcomes, JobEnds(p, outcome)
  PROVE  LET e == Head(engine[p])
         IN /\ engine[p] \in Seq(Item) /\ engine[p] # <<>> /\ e \in Item
            /\ Tail(engine[p]) \in Seq(Item)
            /\ engine' = [engine EXCEPT ![p] = Tail(@)]
            /\ index' = [index EXCEPT ![e.key].state = outcome]
            /\ e.drained => Post([inbox EXCEPT !.completions =
                               Append(@, [printer |-> p, state |-> outcome])])
            /\ ~e.drained => UNCHANGED <<inbox, thread>>
            /\ seen' = [seen EXCEPT !.passes[e.key] = Append(@, outcome),
                                    !.unknown = IF e.drained /\ outcome = "Unknown"
                                                THEN @ \cup {p} ELSE @]
            /\ UNCHANGED <<lane, stopping, unsignalled, status, up, overdue, turns>>
<1>1. engine[p] \in Seq(Item) /\ engine[p] # <<>>
  BY DEF JobEnds, TypeOK, EngineOK
<1>2. Head(engine[p]) \in Item /\ Tail(engine[p]) \in Seq(Item)
  BY <1>1, HeadTailProperties
<1> QED
  BY <1>1, <1>2 DEF JobEnds

LEMMA JobEndsTypes ==
  ASSUME TypeOK, NEW p \in Printers, NEW outcome \in Outcomes, JobEnds(p, outcome)
  PROVE  TypeOK'
<1> DEFINE e == Head(engine[p])
           c == [printer |-> p, state |-> outcome]
<1>1. /\ engine[p] \in Seq(Item) /\ engine[p] # <<>> /\ e \in Item
      /\ Tail(engine[p]) \in Seq(Item)
      /\ engine' = [engine EXCEPT ![p] = Tail(@)]
      /\ index' = [index EXCEPT ![e.key].state = outcome]
      /\ e.drained => Post([inbox EXCEPT !.completions = Append(@, c)])
      /\ ~e.drained => UNCHANGED <<inbox, thread>>
      /\ seen' = [seen EXCEPT !.passes[e.key] = Append(@, outcome),
                              !.unknown = IF e.drained /\ outcome = "Unknown"
                                          THEN @ \cup {p} ELSE @]
      /\ UNCHANGED <<lane, stopping, unsignalled, status, up, overdue, turns>>
  BY EndingIs
<1> HIDE DEF e
<1>2. e.key \in Keys /\ e.drained \in BOOLEAN
  BY <1>1 DEF Item
<1>3. InboxOK' /\ ThreadOK'
  <2>1. CASE e.drained
    <3>1. c \in Completion
      BY DEF Completion
    <3> HIDE DEF c
    <3>2. Append(inbox.completions, c) \in Seq(Completion)
      BY <3>1, AppendProperties DEF TypeOK, InboxOK
    <3> DEFINE box == [inbox EXCEPT !.completions = Append(@, c)]
    <3>3. box \in [events : Seq(Events), completions : Seq(Completion), pending : BOOLEAN]
      BY <3>2 DEF TypeOK, InboxOK
    <3>4. Post(box)
      BY <1>1, <2>1
    <3> HIDE DEF box
    <3> QED
      BY <3>3, <3>4, PostType DEF TypeOK
  <2>2. CASE ~e.drained
    BY <1>1, <2>2 DEF TypeOK, InboxOK, ThreadOK
  <2> QED
    BY <2>1, <2>2
<1>4. EngineOK'
  BY <1>1 DEF TypeOK, EngineOK
<1>5. IndexOK'
  <2>1. outcome \in JobStates
    BY DEF JobStates
  <2> QED
    BY <2>1, <1>1, <1>2 DEF TypeOK, IndexOK
<1>6. SeenOK'
  <2>1. Append(seen.passes[e.key], outcome) \in Seq(Outcomes)
    BY <1>2, AppendProperties DEF TypeOK, SeenOK
  <2> QED
    BY <2>1, <1>1, <1>2 DEF TypeOK, SeenOK
<1> QED
  BY <1>1, <1>3, <1>4, <1>5, <1>6 DEF TypeOK, LaneOK, StatusOK, OthersOK

LEMMA PrintDirectTypes ==
  ASSUME TypeOK, NEW k \in Keys, NEW p \in Printers, PrintDirect(k, p)
  PROVE  TypeOK'
<1> DEFINE e == [key |-> k, drained |-> FALSE]
           r == [state |-> "sent", attempt |-> index[k].attempt + 1]
<1>1. e \in Item
  BY DEF Item
<1>2. Append(engine[p], e) \in Seq(Item)
  BY <1>1, AppendProperties DEF TypeOK, EngineOK
<1>3. r \in [state : JobStates, attempt : 0 .. 2]
  BY DEF TypeOK, IndexOK, JobStates, PrintDirect
<1>4. /\ index' = [index EXCEPT ![k] = r]
      /\ engine' = [engine EXCEPT ![p] = Append(@, e)]
      /\ UNCHANGED <<lane, inbox, thread, stopping, unsignalled, status, up, overdue,
                     turns, seen>>
  BY DEF PrintDirect
<1> HIDE DEF e, r
<1> QED
  BY <1>2, <1>3, <1>4 DEF TypeOK, LaneOK, InboxOK, ThreadOK, StatusOK, IndexOK, EngineOK,
                          SeenOK, OthersOK

(* laneLocked() only marks and seeds a lane.                               *)
LEMMA LaneIs ==
  ASSUME TypeOK, NEW p \in Printers
  PROVE  /\ Lane(p) \in LaneRecord
         /\ Lane(p).is = "ready"
         /\ Lane(p).waiting = lane[p].waiting /\ Lane(p).blocked = lane[p].blocked
         /\ Lane(p).inFlight = lane[p].inFlight /\ Lane(p).paused = lane[p].paused
         /\ Lane(p).faults = IF lane[p].is = "ready" THEN lane[p].faults
                             ELSE IF status[p].observed THEN status[p].faults
                             ELSE lane[p].faults \ {"link"}
<1>1. lane[p] \in LaneRecord /\ status[p].faults \in SUBSET Faults
  BY DEF TypeOK, LaneOK, StatusOK
<1> QED
  BY <1>1 DEF Lane, LaneRecord

LEMMA EnqueueTypes ==
  ASSUME TypeOK, NEW k \in Keys, NEW p \in Printers, Enqueue(k, p)
  PROVE  TypeOK'
<1> DEFINE ln == Lane(p)
           Job(state) == [state |-> state, attempt |-> 1]
<1>1. /\ ln \in LaneRecord /\ ln.waiting = lane[p].waiting
      /\ MaxDepth # 0 => Len(ln.waiting) <= MaxDepth
      /\ ln.waiting \in Seq(Keys) /\ Len(ln.waiting) \in Nat
  <2>1. ln \in LaneRecord /\ ln.waiting = lane[p].waiting
    BY LaneIs
  <2>2. ln.waiting \in Seq(Keys)
    BY <2>1 DEF LaneRecord
  <2> QED
    BY <2>1, <2>2, LenProperties DEF TypeOK, LaneOK
<1>2. UNCHANGED <<stopping, unsignalled, status, up, overdue, turns, seen>>
  BY DEF Enqueue
<1>3. StatusOK' /\ SeenOK' /\ OthersOK'
  BY <1>2 DEF TypeOK, StatusOK, SeenOK, OthersOK
<1>4. ASSUME NEW state \in JobStates, index' = [index EXCEPT ![k] = Job(state)]
      PROVE  IndexOK'
  BY <1>4 DEF TypeOK, IndexOK
<1>5. CASE /\ lane' = [lane EXCEPT ![p] = ln]
           /\ UNCHANGED <<index, engine, inbox, thread>>
  BY <1>1, <1>3, <1>5, LaneTypeAfter DEF TypeOK, InboxOK, ThreadOK, IndexOK, EngineOK
<1>6. CASE /\ lane' = [lane EXCEPT ![p] = [ln EXCEPT !.inFlight = TRUE]]
           /\ index' = [index EXCEPT ![k] = Job("sent")]
           /\ engine' = [engine EXCEPT ![p] = Append(@, Sent(k))]
           /\ UNCHANGED <<inbox, thread>>
  <2> DEFINE l2 == [ln EXCEPT !.inFlight = TRUE]
  <2>1. l2 \in LaneRecord /\ l2.waiting = ln.waiting
    BY <1>1 DEF LaneRecord
  <2>2. lane' = [lane EXCEPT ![p] = l2]
    BY <1>6
  <2> HIDE DEF l2
  <2>3. LaneOK'
    BY <2>1, <2>2, <1>1, LaneTypeAfter
  <2>4. IndexOK'
    BY <1>4, <1>6 DEF JobStates
  <2>5. EngineOK'
    <3>1. Sent(k) \in Item
      BY DEF Sent, Item
    <3>2. Append(engine[p], Sent(k)) \in Seq(Item)
      BY <3>1, AppendProperties DEF TypeOK, EngineOK
    <3> QED
      BY <3>2, <1>6 DEF TypeOK, EngineOK
  <2> QED
    BY <2>3, <2>4, <2>5, <1>3, <1>6 DEF TypeOK, InboxOK, ThreadOK
<1>7. CASE /\ lane' = [lane EXCEPT ![p] = ln]
           /\ index' = [index EXCEPT ![k] = Job("overflowed")]
           /\ UNCHANGED <<engine, inbox, thread>>
  <2>1. IndexOK'
    BY <1>4, <1>7 DEF JobStates
  <2> QED
    BY <2>1, <1>1, <1>3, <1>7, LaneTypeAfter DEF TypeOK, InboxOK, ThreadOK, EngineOK
<1>8. CASE /\ ~Full(ln)
           /\ lane' = [lane EXCEPT ![p] = [ln EXCEPT !.waiting = Append(@, k)]]
           /\ index' = [index EXCEPT ![k] = Job("held")]
           /\ Post(inbox)
           /\ UNCHANGED engine
  <2> DEFINE w == Append(ln.waiting, k)
             l2 == [ln EXCEPT !.waiting = w]
  <2>1. w \in Seq(Keys) /\ Len(w) = Len(ln.waiting) + 1
    BY <1>1, AppendProperties
  <2> HIDE DEF w
  <2>2. MaxDepth # 0 => Len(w) <= MaxDepth
    BY <2>1, <1>1, <1>8, QueueAssumption DEF Full
  <2>3. l2 \in LaneRecord /\ l2.waiting = w
    BY <2>1, <1>1 DEF LaneRecord
  <2>4. lane' = [lane EXCEPT ![p] = l2]
    BY <1>8 DEF w
  <2> HIDE DEF l2
  <2>5. LaneOK'
    BY <2>2, <2>3, <2>4, LaneTypeAfter
  <2>6. IndexOK'
    BY <1>4, <1>8 DEF JobStates
  <2>7. InboxOK' /\ ThreadOK'
    BY <1>8, PostType DEF TypeOK, InboxOK
  <2> QED
    BY <2>5, <2>6, <2>7, <1>3, <1>8 DEF TypeOK, EngineOK
<1> HIDE DEF ln
<1> QED
  BY <1>5, <1>6, <1>7, <1>8 DEF Enqueue, ln

-----------------------------------------------------------------------------
(* What a pass of the pump does to a lane.                                 *)

LEMMA AppliedIs ==
  ASSUME TypeOK, NEW p \in Printers
  PROVE  /\ Applied(p) \in LaneRecord
         /\ Applied(p).waiting = lane[p].waiting
         /\ Applied(p).is = lane[p].is
         /\ lane[p].is = "absent" => Applied(p) = lane[p]
         /\ lane[p].is # "absent" =>
              /\ Applied(p).faults = {f \in Faults \cup {"link"} : Told(p, f)}
              /\ Applied(p).inFlight <=>
                   lane[p].inFlight
                     /\ ~\E i \in DOMAIN inbox.completions : inbox.completions[i].printer = p
              /\ Applied(p).blocked <=>
                   \/ lane[p].blocked
                   \/ \E i \in DOMAIN inbox.completions :
                        inbox.completions[i] = [printer |-> p, state |-> "Unknown"]
<1>1. lane[p] \in LaneRecord
  BY DEF TypeOK, LaneOK
<1>2. CASE lane[p].is = "absent"
  BY <1>1, <1>2 DEF Applied
<1>3. CASE lane[p].is # "absent"
  <2> DEFINE ended == {inbox.completions[i] : i \in DOMAIN inbox.completions}
             F == {f \in Faults \cup {"link"} : Told(p, f)}
             fl == lane[p].inFlight /\ ~\E c \in ended : c.printer = p
             bl == lane[p].blocked \/ [printer |-> p, state |-> "Unknown"] \in ended
  <2>1. Applied(p) = [lane[p] EXCEPT !.faults = F, !.inFlight = fl, !.blocked = bl]
    BY <1>3 DEF Applied
  <2>2. /\ F \in SUBSET (Faults \cup {"link"}) /\ fl \in BOOLEAN /\ bl \in BOOLEAN
        /\ lane[p].inFlight \in BOOLEAN /\ lane[p].blocked \in BOOLEAN
    BY <1>1 DEF LaneRecord
  <2>3. fl <=> lane[p].inFlight
                /\ ~\E i \in DOMAIN inbox.completions : inbox.completions[i].printer = p
    OBVIOUS
  <2>4. bl <=> \/ lane[p].blocked
               \/ \E i \in DOMAIN inbox.completions :
                    inbox.completions[i] = [printer |-> p, state |-> "Unknown"]
    OBVIOUS
  <2> HIDE DEF F, fl, bl
  <2>5. /\ Applied(p) \in LaneRecord
        /\ Applied(p).waiting = lane[p].waiting /\ Applied(p).is = lane[p].is
        /\ Applied(p).faults = F /\ Applied(p).inFlight = fl /\ Applied(p).blocked = bl
    BY <2>1, <2>2, <1>1 DEF LaneRecord
  <2> QED
    BY <2>3, <2>4, <2>5, <1>3 DEF F
<1> QED
  BY <1>2, <1>3

(* The lane a pass decides on: the inbox applied, the overdue gone.        *)
Left(p) == Without(lane[p].waiting, overdue)
Decided(p) == [Applied(p) EXCEPT !.waiting = Left(p)]

LEMMA DecidedIs ==
  ASSUME TypeOK, NEW p \in Printers
  PROVE  /\ Decided(p) \in LaneRecord /\ Decided(p).waiting = Left(p)
         /\ Left(p) \in Seq(Keys)
         /\ MaxDepth # 0 => Len(Left(p)) <= MaxDepth
         /\ Decided(p).is = Applied(p).is /\ Decided(p).faults = Applied(p).faults
         /\ Decided(p).inFlight = Applied(p).inFlight
         /\ Decided(p).blocked = Applied(p).blocked
<1>1. lane[p].waiting \in Seq(Keys) /\ (MaxDepth # 0 => Len(lane[p].waiting) <= MaxDepth)
  BY DEF TypeOK, LaneOK, LaneRecord
<1>2. Left(p) \in Seq(Keys) /\ Len(Left(p)) <= Len(lane[p].waiting)
  BY <1>1, WithoutKeys DEF Left
<1>3. Len(Left(p)) \in Nat /\ Len(lane[p].waiting) \in Nat /\ MaxDepth \in Nat
  BY <1>1, <1>2, LenProperties, QueueAssumption
<1>4. Applied(p) \in LaneRecord
  BY AppliedIs
<1>5. MaxDepth # 0 => Len(Left(p)) <= MaxDepth
  BY <1>1, <1>2, <1>3
<1> QED
  BY <1>2, <1>4, <1>5 DEF Decided, LaneRecord

(* The pass starts the item at position n.                                 *)
StartsAt(p, n) ==
  /\ n = Select(Decided(p)) /\ Left(p) # <<>> /\ Drainable(Decided(p))
  /\ Pumped(p).to = [Decided(p) EXCEPT !.waiting = RemoveAt(Left(p), n), !.inFlight = TRUE]
  /\ Pumped(p).started = {Left(p)[n]}

StartsNone(p) == Pumped(p).to = Decided(p) /\ Pumped(p).started = {}

(* Nothing drains, or the first item of a drainable lane does.             *)
LEMMA PumpedIs ==
  ASSUME TypeOK, NEW p \in Printers
  PROVE  StartsNone(p) \/ \E n \in 1 .. Len(Left(p)) : StartsAt(p, n)
<1>1. Decided(p).waiting = Left(p) /\ Left(p) \in Seq(Keys) /\ Decided(p) \in LaneRecord
  BY DecidedIs
<1>2. Pumped(p) = Started(Decided(p), Expired(lane[p]))
  BY DEF Pumped, Decided, Left
<1>3. CASE Decided(p).waiting # <<>> /\ Drainable(Decided(p))
  <2> DEFINE n == Select(Decided(p))
             l2 == [Decided(p) EXCEPT !.waiting = RemoveAt(@, n), !.inFlight = TRUE]
  <2>1. n \in 1 .. Len(Left(p))
    BY <1>1, <1>3, SelectIsFirst
  <2>2. Pumped(p) = [to |-> l2, expired |-> Expired(lane[p]), started |-> {Decided(p).waiting[n]}]
    BY <1>2, <1>3 DEF Started
  <2>3. l2 = [Decided(p) EXCEPT !.waiting = RemoveAt(Left(p), n), !.inFlight = TRUE]
    BY <1>1
  <2> HIDE DEF l2
  <2>4. StartsAt(p, n)
    BY <2>2, <2>3, <1>1, <1>3 DEF StartsAt
  <2> QED
    BY <2>1, <2>4
<1>4. CASE ~(Decided(p).waiting # <<>> /\ Drainable(Decided(p)))
  <2>1. Pumped(p) = [to |-> Decided(p), expired |-> Expired(lane[p]), started |-> {}]
    BY <1>2, <1>4 DEF Started
  <2> QED
    BY <2>1 DEF StartsNone
<1> QED
  BY <1>3, <1>4

LEMMA PumpedTo ==
  ASSUME TypeOK, NEW p \in Printers
  PROVE  /\ Pumped(p).to \in LaneRecord
         /\ MaxDepth # 0 => Len(Pumped(p).to.waiting) <= MaxDepth
         /\ Pumped(p).started \in SUBSET Keys
         /\ Pumped(p).to.is = lane[p].is
         /\ Pumped(p).to.faults = Applied(p).faults
         /\ Pumped(p).to.blocked = Applied(p).blocked
<1>1. /\ Decided(p) \in LaneRecord /\ Decided(p).waiting = Left(p)
      /\ Left(p) \in Seq(Keys) /\ Len(Left(p)) \in Nat
      /\ MaxDepth # 0 => Len(Left(p)) <= MaxDepth
      /\ Decided(p).is = lane[p].is /\ Decided(p).faults = Applied(p).faults
      /\ Decided(p).blocked = Applied(p).blocked
  BY DecidedIs, AppliedIs, LenProperties
<1>2. CASE StartsNone(p)
  BY <1>1, <1>2 DEF StartsNone
<1>3. ASSUME NEW n \in 1 .. Len(Left(p)), StartsAt(p, n)
      PROVE  /\ Pumped(p).to \in LaneRecord
             /\ MaxDepth # 0 => Len(Pumped(p).to.waiting) <= MaxDepth
             /\ Pumped(p).started \in SUBSET Keys
             /\ Pumped(p).to.is = lane[p].is
             /\ Pumped(p).to.faults = Applied(p).faults
             /\ Pumped(p).to.blocked = Applied(p).blocked
  <2> DEFINE w == RemoveAt(Left(p), n)
  <2>1. w \in Seq(Keys) /\ Len(w) = Len(Left(p)) - 1
    BY <1>1, RemoveAtIs
  <2> HIDE DEF w
  <2>2. Left(p)[n] \in Keys
    BY <1>1, ElementOfSeq
  <2>3. Pumped(p).to = [Decided(p) EXCEPT !.waiting = w, !.inFlight = TRUE]
    BY <1>3 DEF w, StartsAt
  <2>4. MaxDepth # 0 => Len(w) <= MaxDepth
    BY <2>1, <1>1, QueueAssumption
  <2> QED
    BY <2>1, <2>2, <2>3, <2>4, <1>1, <1>3 DEF LaneRecord, StartsAt
<1> QED
  BY <1>2, <1>3, PumpedIs

LEMMA PumpIs ==
  ASSUME TypeOK, Pump, NEW p \in Printers
  PROVE  /\ lane'[p] = Pumped(p).to
         /\ Pumped(p).started = {} => engine'[p] = engine[p]
         /\ \A k : Pumped(p).started = {k} => engine'[p] = Append(engine[p], Sent(k))
<1>1. lane' = [q \in Printers |-> Pumped(q).to]
  BY DEF Pump
<1>2. engine' = [q \in Printers |->
          IF Pumped(q).started = {} THEN engine[q]
          ELSE Append(engine[q], Sent(CHOOSE k \in Pumped(q).started : TRUE))]
  BY DEF Pump
<1>3. \A k : (CHOOSE x \in {k} : TRUE) = k
  OBVIOUS
<1> QED
  BY <1>1, <1>2, <1>3

LEMMA PumpTypes ==
  ASSUME TypeOK, Pump
  PROVE  LaneOK' /\ IndexOK' /\ EngineOK' /\ InboxOK' /\ overdue' \in SUBSET Keys
<1>1. LaneOK'
  <2>1. lane' = [p \in Printers |-> Pumped(p).to]
    BY DEF Pump
  <2> QED
    BY <2>1, PumpedTo DEF LaneOK
<1>2. EngineOK'
  <2> SUFFICES ASSUME NEW p \in Printers PROVE engine'[p] \in Seq(Item)
    BY DEF EngineOK, Pump
  <2>1. CASE Pumped(p).started = {}
    BY <2>1, PumpIs DEF TypeOK, EngineOK
  <2>2. ASSUME NEW k \in Keys, Pumped(p).started = {k} PROVE engine'[p] \in Seq(Item)
    <3>1. engine'[p] = Append(engine[p], Sent(k))
      BY <2>2, PumpIs
    <3>2. Sent(k) \in Item
      BY DEF Sent, Item
    <3> QED
      BY <3>1, <3>2, AppendProperties DEF TypeOK, EngineOK
  <2> QED
    <3>1. Pumped(p).started = {} \/ \E k : Pumped(p).started = {k}
      BY PumpedIs DEF StartsNone, StartsAt
    <3> QED
      BY <3>1, <2>1, <2>2, PumpedTo
<1>3. IndexOK'
  <2> DEFINE gone == UNION {Pumped(q).expired : q \in Printers}
             started == UNION {Pumped(q).started : q \in Printers}
  <2>1. index' = [k \in Keys |->
          IF k \in gone THEN [index[k] EXCEPT !.state = "expired"]
          ELSE IF k \in started THEN [index[k] EXCEPT !.state = "sent"]
          ELSE index[k]]
    BY DEF Pump
  <2> HIDE DEF gone, started
  <2> QED
    BY <2>1 DEF TypeOK, IndexOK, JobStates
<1>4. InboxOK'
  <2>1. inbox' = [events |-> <<>>, completions |-> <<>>, pending |-> FALSE]
    BY DEF Pump
  <2>2. <<>> \in Seq(Events) /\ <<>> \in Seq(Completion)
    BY EmptySeq
  <2> QED
    BY <2>1, <2>2 DEF InboxOK
<1>5. overdue' \in SUBSET Keys
  BY DEF Pump, TypeOK, OthersOK
<1> QED
  BY <1>1, <1>2, <1>3, <1>4, <1>5

LEMMA PassTypes ==
  ASSUME TypeOK, RunPump \/ Tick
  PROVE  TypeOK'
<1>1. CASE RunPump /\ stopping /\ thread' = [thread EXCEPT !.pc = "exited"]
           /\ UNCHANGED <<lane, index, engine, inbox, overdue>>
  BY <1>1 DEF RunPump, TypeOK, LaneOK, InboxOK, ThreadOK, StatusOK, IndexOK, EngineOK,
              SeenOK, OthersOK
<1>2. CASE RunPump /\ Pump /\ thread' = [pc |-> "rest", alarm |-> Alarm']
  <2>1. ThreadOK'
    <3>1. Alarm' \in SUBSET Keys
      BY QueueAssumption DEF Alarm
    <3> QED
      BY <3>1, <1>2 DEF ThreadOK
  <2>2. LaneOK' /\ IndexOK' /\ EngineOK' /\ InboxOK' /\ overdue' \in SUBSET Keys
    BY <1>2, PumpTypes
  <2>3. UNCHANGED <<stopping, unsignalled, status, up, turns, seen>>
    BY <1>2 DEF RunPump
  <2> QED
    BY <2>1, <2>2, <2>3 DEF TypeOK, StatusOK, SeenOK, OthersOK
<1>3. CASE Tick
  <2>1. Pump
    BY <1>3 DEF Tick
  <2>2. LaneOK' /\ IndexOK' /\ EngineOK' /\ InboxOK' /\ overdue' \in SUBSET Keys
    BY <2>1, PumpTypes
  <2>3. UNCHANGED <<thread, stopping, unsignalled, status, up>>
    BY <1>3 DEF Tick
  <2>4. turns' \in 0 .. MaxTurns
    BY <1>3, QueueAssumption DEF Tick, TypeOK, OthersOK
  <2>5. SeenOK'
    BY <1>3 DEF Tick, TypeOK, SeenOK
  <2> QED
    BY <2>2, <2>3, <2>4, <2>5 DEF TypeOK, ThreadOK, StatusOK, OthersOK
<1> QED
  BY <1>1, <1>2, <1>3 DEF RunPump

-----------------------------------------------------------------------------
(* Where a key is, and what the index says of it.                          *)

KeysInv == HeldOnce /\ RunsOnce /\ IndexTellsPasses

LEMMA ContainsAppend ==
  ASSUME NEW s \in Seq(Keys), NEW k \in Keys
  PROVE  /\ Append(s, k) \in Seq(Keys)
         /\ \A x : Contains(Append(s, k), x) <=> (Contains(s, x) \/ x = k)
         /\ IsInjective(s) /\ ~Contains(s, k) => IsInjective(Append(s, k))
<1> DEFINE t == Append(s, k)
<1>1. /\ Len(s) \in Nat /\ t \in Seq(Keys) /\ Len(t) = Len(s) + 1
      /\ \A i \in 1 .. Len(s) : t[i] = s[i]
      /\ t[Len(s) + 1] = k
  BY AppendProperties, LenProperties
<1> HIDE DEF t
<1>2. DOMAIN s = 1 .. Len(s) /\ DOMAIN t = 1 .. Len(s) + 1
  BY <1>1, LenProperties
<1>3. ASSUME NEW x PROVE Contains(t, x) <=> (Contains(s, x) \/ x = k)
  <2>1. ASSUME NEW i \in 1 .. Len(s) + 1, t[i] = x PROVE Contains(s, x) \/ x = k
    <3>1. i \in 1 .. Len(s) \/ i = Len(s) + 1
      BY <1>1
    <3> QED
      BY <3>1, <2>1, <1>1 DEF Contains
  <2>2. ASSUME NEW i \in 1 .. Len(s), s[i] = x PROVE Contains(t, x)
    BY <2>2, <1>1 DEF Contains
  <2>3. Contains(t, k)
    <3>1. Len(s) + 1 \in 1 .. Len(t)
      BY <1>1
    <3> QED
      BY <3>1, <1>1 DEF Contains
  <2> QED
    BY <2>1, <2>2, <2>3, <1>1 DEF Contains
<1>4. ASSUME IsInjective(s), ~Contains(s, k) PROVE IsInjective(t)
  <2> SUFFICES ASSUME NEW i \in 1 .. Len(s) + 1, NEW j \in 1 .. Len(s) + 1, t[i] = t[j]
               PROVE  i = j
    BY <1>2 DEF IsInjective
  <2>1. (i \in 1 .. Len(s) \/ i = Len(s) + 1) /\ (j \in 1 .. Len(s) \/ j = Len(s) + 1)
    BY <1>1
  <2>2. \A m \in 1 .. Len(s) : s[m] # k
    BY <1>4 DEF Contains
  <2>3. \A m, n \in 1 .. Len(s) : s[m] = s[n] => m = n
    BY <1>4, <1>2 DEF IsInjective
  <2> QED
    BY <2>1, <2>2, <2>3, <1>1
<1> QED
  BY <1>1, <1>3, <1>4 DEF t

(* A job is handed to a worker, and one leaves it.                         *)
LEMMA EngineAppend ==
  ASSUME NEW s \in Seq(Item), NEW e \in Item
  PROVE  /\ Len(s) \in Nat /\ Len(Append(s, e)) = Len(s) + 1
         /\ Append(s, e) \in Seq(Item)
         /\ \A i \in 1 .. Len(s) : Append(s, e)[i] = s[i]
         /\ Append(s, e)[Len(s) + 1] = e
         /\ \A i \in 1 .. Len(s) + 1 : i \in 1 .. Len(s) \/ i = Len(s) + 1
  BY AppendProperties, LenProperties

LEMMA EngineTail ==
  ASSUME NEW s \in Seq(Item), s # <<>>
  PROVE  /\ Len(s) \in Nat /\ Len(s) >= 1 /\ Len(Tail(s)) = Len(s) - 1
         /\ Tail(s) \in Seq(Item) /\ Head(s) = s[1] /\ Head(s) \in Item
         /\ \A i \in 1 .. Len(s) - 1 : Tail(s)[i] = s[i + 1] /\ i + 1 \in 1 .. Len(s)
         /\ \A i \in 1 .. Len(s) : i = 1 \/ i - 1 \in 1 .. Len(s) - 1
<1>1. Len(s) \in Nat /\ Len(s) # 0
  BY LenProperties, EmptySeq
<1>2. /\ Tail(s) \in Seq(Item) /\ Head(s) \in Item /\ Len(Tail(s)) = Len(s) - 1
      /\ \A i \in 1 .. Len(Tail(s)) : Tail(s)[i] = s[i + 1]
  BY HeadTailProperties
<1>3. Head(s) = s[1]
  OBVIOUS
<1> QED
  BY <1>1, <1>2, <1>3

(* What stays true when nothing that says where keys are changes.          *)
LEMMA KeysStutter ==
  ASSUME KeysInv, UNCHANGED <<index, engine>>, seen'.passes = seen.passes,
         \A p \in Printers : lane'[p].waiting = lane[p].waiting
  PROVE  KeysInv'
BY DEF KeysInv, HeldOnce, RunsOnce, IndexTellsPasses, Held, Runs

(* A key goes from nowhere into a worker's lane.                           *)
LEMMA KeyToWorker ==
  ASSUME TypeOK, RunsOnce, NEW p \in Printers, NEW e \in Item,
         \A q \in Printers : ~Runs(e.key, q),
         engine' = [engine EXCEPT ![p] = Append(@, e)]
  PROVE  /\ \A q \in Printers : \A i, j \in 1 .. Len(engine'[q]) :
              engine'[q][i].key = engine'[q][j].key => i = j
         /\ \A k \in Keys : \A q \in Printers :
              Runs(k, q)' <=> (Runs(k, q) \/ (q = p /\ k = e.key))
<1>1. /\ engine[p] \in Seq(Item) /\ engine'[p] = Append(engine[p], e)
      /\ \A q \in Printers : q # p => engine'[q] = engine[q]
  BY DEF TypeOK, EngineOK
<1>2. /\ Len(engine[p]) \in Nat /\ Len(engine'[p]) = Len(engine[p]) + 1
      /\ \A i \in 1 .. Len(engine[p]) : engine'[p][i] = engine[p][i]
      /\ engine'[p][Len(engine[p]) + 1] = e
      /\ \A i \in 1 .. Len(engine[p]) + 1 : i \in 1 .. Len(engine[p]) \/ i = Len(engine[p]) + 1
      /\ \A i \in 1 .. Len(engine[p]) : i \in 1 .. Len(engine[p]) + 1
      /\ Len(engine[p]) + 1 \in 1 .. Len(engine[p]) + 1
  BY <1>1, EngineAppend
<1>3. \A i \in 1 .. Len(engine[p]) : engine[p][i].key # e.key
  BY DEF Runs
<1>4. \A q \in Printers : \A i, j \in 1 .. Len(engine'[q]) :
        engine'[q][i].key = engine'[q][j].key => i = j
  BY <1>1, <1>2, <1>3 DEF RunsOnce
<1>5. ASSUME NEW k \in Keys, NEW q \in Printers
      PROVE  Runs(k, q)' <=> (Runs(k, q) \/ (q = p /\ k = e.key))
  <2>1. CASE q # p
    BY <2>1, <1>1 DEF Runs
  <2>2. CASE q = p
    BY <2>2, <1>2 DEF Runs
  <2> QED
    BY <2>1, <2>2
<1> QED
  BY <1>4, <1>5

LEMMA EnqueueKeys ==
  ASSUME TypeOK, KeysInv, NEW k \in Keys, NEW p \in Printers, Enqueue(k, p)
  PROVE  KeysInv'
<1> DEFINE ln == Lane(p)
           Job(state) == [state |-> state, attempt |-> 1]
<1>1. /\ ln.waiting = lane[p].waiting /\ ln \in LaneRecord /\ lane[p].waiting \in Seq(Keys)
      /\ lane \in [Printers -> LaneRecord] /\ index \in [Keys -> [state : JobStates, attempt : 0 .. 2]]
  BY LaneIs DEF TypeOK, LaneOK, LaneRecord, IndexOK
<1>2. seen'.passes = seen.passes
  BY DEF Enqueue
<1>3. ASSUME Reserved(k) PROVE /\ index[k].state = "none"
                               /\ seen.passes[k] = <<>>
                               /\ \A q \in Printers : ~Held(k, q) /\ ~Runs(k, q)
  BY <1>3 DEF Reserved, KeysInv, HeldOnce, RunsOnce, IndexTellsPasses
<1>4. CASE /\ lane' = [lane EXCEPT ![p] = ln]
           /\ UNCHANGED <<index, engine, inbox, thread>>
  <2>1. \A q \in Printers : lane'[q].waiting = lane[q].waiting
    BY <1>1, <1>4
  <2> QED
    BY <2>1, <1>2, <1>4, KeysStutter
<1>5. CASE /\ Reserved(k)
           /\ lane' = [lane EXCEPT ![p] = [ln EXCEPT !.inFlight = TRUE]]
           /\ index' = [index EXCEPT ![k] = Job("sent")]
           /\ engine' = [engine EXCEPT ![p] = Append(@, Sent(k))]
  <2>1. \A q \in Printers : lane'[q].waiting = lane[q].waiting
    BY <1>1, <1>5 DEF LaneRecord
  <2>2. \A x \in Keys : index'[x] = IF x = k THEN Job("sent") ELSE index[x]
    BY <1>1, <1>5
  <2>3. Sent(k) \in Item /\ Sent(k).key = k
    BY DEF Sent, Item
  <2>4. /\ \A q \in Printers : \A i, j \in 1 .. Len(engine'[q]) :
             engine'[q][i].key = engine'[q][j].key => i = j
        /\ \A x \in Keys : \A q \in Printers :
             Runs(x, q)' <=> (Runs(x, q) \/ (q = p /\ x = k))
    <3> DEFINE e == Sent(k)
    <3>1. e \in Item /\ e.key = k /\ engine' = [engine EXCEPT ![p] = Append(@, e)]
      BY <2>3, <1>5
    <3> HIDE DEF e
    <3>2. \A q \in Printers : ~Runs(e.key, q)
      BY <3>1, <1>3, <1>5
    <3> QED
      BY <3>1, <3>2, KeyToWorker DEF KeysInv
  <2>5. \A x \in Keys : \A q \in Printers : Held(x, q)' <=> Held(x, q)
    BY <2>1 DEF Held
  <2>6. HeldOnce'
    BY <2>1, <2>2, <2>5, <1>3, <1>5 DEF KeysInv, HeldOnce
  <2>7. RunsOnce'
    BY <2>2, <2>4, <1>3, <1>5 DEF KeysInv, RunsOnce
  <2>8. IndexTellsPasses'
    BY <2>2, <1>2, <1>3, <1>5, EmptySeq DEF KeysInv, IndexTellsPasses, OnlyFailed
  <2> QED
    BY <2>6, <2>7, <2>8 DEF KeysInv
<1>6. CASE /\ Reserved(k)
           /\ lane' = [lane EXCEPT ![p] = ln]
           /\ index' = [index EXCEPT ![k] = Job("overflowed")]
           /\ UNCHANGED <<engine, inbox, thread>>
  <2>1. \A q \in Printers : lane'[q].waiting = lane[q].waiting
    BY <1>1, <1>6
  <2>2. \A x \in Keys : index'[x] = IF x = k THEN Job("overflowed") ELSE index[x]
    BY <1>1, <1>6
  <2>3. \A x \in Keys : \A q \in Printers :
          (Held(x, q)' <=> Held(x, q)) /\ (Runs(x, q)' <=> Runs(x, q))
    BY <2>1, <1>6 DEF Held, Runs
  <2>4. HeldOnce' /\ RunsOnce'
    BY <2>1, <2>2, <2>3, <1>3, <1>6 DEF KeysInv, HeldOnce, RunsOnce
  <2>5. IndexTellsPasses'
    BY <2>2, <1>2, <1>3, <1>6 DEF KeysInv, IndexTellsPasses, OnlyFailed
  <2> QED
    BY <2>4, <2>5 DEF KeysInv
<1>7. CASE /\ Reserved(k)
           /\ lane' = [lane EXCEPT ![p] = [ln EXCEPT !.waiting = Append(@, k)]]
           /\ index' = [index EXCEPT ![k] = Job("held")]
           /\ UNCHANGED engine
  <2>1. /\ lane'[p].waiting = Append(lane[p].waiting, k)
        /\ \A q \in Printers : q # p => lane'[q].waiting = lane[q].waiting
    BY <1>1, <1>7 DEF LaneRecord
  <2>2. \A x \in Keys : index'[x] = IF x = k THEN Job("held") ELSE index[x]
    BY <1>1, <1>7
  <2>3. /\ IsInjective(lane'[p].waiting)
        /\ \A x : Contains(lane'[p].waiting, x) <=> (Contains(lane[p].waiting, x) \/ x = k)
    BY <2>1, <1>1, <1>3, <1>7, ContainsAppend DEF KeysInv, HeldOnce, Held
  <2>4. \A x \in Keys : \A q \in Printers :
          /\ Held(x, q)' <=> (Held(x, q) \/ (x = k /\ q = p))
          /\ Runs(x, q)' <=> Runs(x, q)
    BY <2>1, <2>3, <1>7 DEF Held, Runs
  <2>5. HeldOnce'
    <3>1. \A q \in Printers : IsInjective(lane'[q].waiting)
      BY <2>1, <2>3 DEF KeysInv, HeldOnce
    <3>2. \A x \in Keys : \A q, r \in Printers : Held(x, q)' /\ Held(x, r)' => q = r
      BY <2>4, <1>3, <1>7 DEF KeysInv, HeldOnce
    <3>3. \A x \in Keys : \A q \in Printers : Held(x, q)' => index'[x].state = "held"
      BY <2>2, <2>4 DEF KeysInv, HeldOnce
    <3> QED
      BY <3>1, <3>2, <3>3 DEF HeldOnce
  <2>6. RunsOnce'
    BY <2>2, <2>4, <1>3, <1>7 DEF KeysInv, RunsOnce
  <2>7. IndexTellsPasses'
    BY <2>2, <1>2, <1>3, <1>7 DEF KeysInv, IndexTellsPasses, OnlyFailed
  <2> QED
    BY <2>5, <2>6, <2>7 DEF KeysInv
<1> HIDE DEF ln
<1> QED
  BY <1>4, <1>5, <1>6, <1>7 DEF Enqueue, ln

LEMMA PrintDirectKeys ==
  ASSUME TypeOK, KeysInv, NEW k \in Keys, NEW p \in Printers, PrintDirect(k, p)
  PROVE  KeysInv'
<1> DEFINE e == [key |-> k, drained |-> FALSE]
<1>1. e \in Item /\ e.key = k
  BY DEF Item
<1>2. /\ engine' = [engine EXCEPT ![p] = Append(@, e)]
      /\ UNCHANGED <<lane, seen>>
      /\ index[k].state \in {"none", "Failed", "expired", "overflowed"}
  BY DEF PrintDirect
<1>3. \A x \in Keys : index'[x].state = IF x = k THEN "sent" ELSE index[x].state
  BY DEF PrintDirect, TypeOK, IndexOK
<1> HIDE DEF e
<1>4. \A q \in Printers : ~Held(k, q) /\ ~Runs(k, q)
  BY <1>2 DEF KeysInv, HeldOnce, RunsOnce
<1>5. /\ \A q \in Printers : \A i, j \in 1 .. Len(engine'[q]) :
           engine'[q][i].key = engine'[q][j].key => i = j
      /\ \A x \in Keys : \A q \in Printers :
           Runs(x, q)' <=> (Runs(x, q) \/ (q = p /\ x = k))
  BY <1>1, <1>2, <1>4, KeyToWorker, ZenonT(60) DEF KeysInv
<1>6. HeldOnce'
  BY <1>2, <1>3, <1>4 DEF KeysInv, HeldOnce, Held
<1>7. RunsOnce'
  BY <1>3, <1>4, <1>5 DEF KeysInv, RunsOnce
<1>8. IndexTellsPasses'
  <2> SUFFICES ASSUME NEW x \in Keys
               PROVE  LET passes == seen.passes[x]
                          state == index'[x].state
                      IN /\ state \in {"none", "held", "expired", "overflowed"} => passes = <<>>
                         /\ state \in {"sent", "Failed"} => OnlyFailed(passes, Len(passes))
                         /\ state \in {"Done", "Unknown"} =>
                              /\ passes # <<>> /\ passes[Len(passes)] = state
                              /\ OnlyFailed(passes, Len(passes) - 1)
    BY <1>2 DEF IndexTellsPasses, OnlyFailed
  <2>1. CASE x = k
    BY <2>1, <1>2, <1>3, EmptySeq DEF KeysInv, IndexTellsPasses, OnlyFailed
  <2>2. CASE x # k
    BY <2>2, <1>3 DEF KeysInv, IndexTellsPasses
  <2> QED
    BY <2>1, <2>2
<1> QED
  BY <1>6, <1>7, <1>8 DEF KeysInv

LEMMA JobEndsKeys ==
  ASSUME TypeOK, KeysInv, NEW p \in Printers, NEW outcome \in Outcomes, JobEnds(p, outcome)
  PROVE  KeysInv'
<1> DEFINE k == Head(engine[p]).key
<1>1. /\ engine[p] \in Seq(Item) /\ engine[p] # <<>>
      /\ engine' = [engine EXCEPT ![p] = Tail(@)]
      /\ index' = [index EXCEPT ![k].state = outcome]
      /\ seen'.passes = [seen.passes EXCEPT ![k] = Append(@, outcome)]
      /\ UNCHANGED lane
  <2> DEFINE e == Head(engine[p])
  <2>1. /\ engine[p] \in Seq(Item) /\ engine[p] # <<>> /\ UNCHANGED lane
        /\ engine' = [engine EXCEPT ![p] = Tail(@)]
        /\ index' = [index EXCEPT ![e.key].state = outcome]
        /\ seen' = [seen EXCEPT !.passes[e.key] = Append(@, outcome),
                                !.unknown = IF e.drained /\ outcome = "Unknown"
                                            THEN @ \cup {p} ELSE @]
    BY EndingIs, ZenonT(60)
  <2> HIDE DEF e
  <2>2. seen'.passes = [seen.passes EXCEPT ![e.key] = Append(@, outcome)]
    BY <2>1 DEF TypeOK, SeenOK
  <2> QED
    BY <2>1, <2>2 DEF e
<1>2. /\ Len(engine[p]) \in Nat /\ Len(engine[p]) >= 1
      /\ Len(Tail(engine[p])) = Len(engine[p]) - 1
      /\ Head(engine[p]) = engine[p][1] /\ k \in Keys
      /\ \A i \in 1 .. Len(engine[p]) - 1 :
           Tail(engine[p])[i] = engine[p][i + 1] /\ i + 1 \in 1 .. Len(engine[p])
      /\ \A i \in 1 .. Len(engine[p]) : i = 1 \/ i - 1 \in 1 .. Len(engine[p]) - 1
  BY <1>1, EngineTail DEF Item
<1>3. engine[p][1].key = k
  BY <1>2
<1> HIDE DEF k
<1>4. /\ \A x \in Keys : index'[x].state = IF x = k THEN outcome ELSE index[x].state
      /\ engine'[p] = Tail(engine[p])
      /\ \A q \in Printers : q # p => engine'[q] = engine[q]
  BY <1>1, <1>2 DEF TypeOK, IndexOK, EngineOK
<1>5. Runs(k, p)
  BY <1>2, <1>3 DEF Runs
<1>6. \A q \in Printers : (Runs(k, q) => q = p) /\ ~Held(k, q)
  BY <1>5, <1>2 DEF KeysInv, RunsOnce, HeldOnce
<1>7. ASSUME NEW x \in Keys, NEW q \in Printers
      PROVE  Runs(x, q)' => Runs(x, q) /\ x # k
  <2>1. CASE q # p
    BY <2>1, <1>4, <1>6 DEF Runs
  <2>2. CASE q = p
    <3> SUFFICES ASSUME NEW i \in 1 .. Len(engine[p]) - 1, engine[p][i + 1].key = x
                 PROVE  Runs(x, p) /\ x # k
      BY <2>2, <1>2, <1>4 DEF Runs
    <3>1. i + 1 \in 1 .. Len(engine[p]) /\ i + 1 # 1
      BY <1>2
    <3>2. 1 \in 1 .. Len(engine[p])
      BY <1>2
    <3>3. x # k
      BY <3>1, <3>2, <1>3 DEF KeysInv, RunsOnce
    <3> QED
      BY <3>1, <3>3 DEF Runs
  <2> QED
    BY <2>1, <2>2
<1>8. RunsOnce'
  <2>1. ASSUME NEW q \in Printers, NEW i \in 1 .. Len(engine'[q]),
               NEW j \in 1 .. Len(engine'[q]), engine'[q][i].key = engine'[q][j].key
        PROVE  i = j
    <3>1. CASE q # p
      BY <3>1, <2>1, <1>4 DEF KeysInv, RunsOnce
    <3>2. CASE q = p
      <4>1. i \in 1 .. Len(engine[p]) - 1 /\ j \in 1 .. Len(engine[p]) - 1
        BY <3>2, <1>2, <1>4
      <4>2. engine[p][i + 1].key = engine[p][j + 1].key
        BY <4>1, <3>2, <2>1, <1>2, <1>4
      <4>3. i + 1 = j + 1
        BY <4>1, <4>2, <1>2 DEF KeysInv, RunsOnce
      <4> QED
        BY <4>1, <4>3
    <3> QED
      BY <3>1, <3>2
  <2>2. \A x \in Keys : \A q, r \in Printers : Runs(x, q)' /\ Runs(x, r)' => q = r
    BY <1>7 DEF KeysInv, RunsOnce
  <2>3. \A x \in Keys : \A q \in Printers : Runs(x, q)' => index'[x].state = "sent"
    BY <1>7, <1>4 DEF KeysInv, RunsOnce
  <2> QED
    BY <2>1, <2>2, <2>3 DEF RunsOnce
<1>9. HeldOnce'
  BY <1>1, <1>4, <1>6 DEF KeysInv, HeldOnce, Held
<1>10. IndexTellsPasses'
  <2>1. ASSUME NEW x \in Keys, x # k
        PROVE  index'[x].state = index[x].state /\ seen'.passes[x] = seen.passes[x]
    BY <2>1, <1>1, <1>4, <1>2 DEF TypeOK, SeenOK
  <2>2. /\ index'[k].state = outcome
        /\ seen'.passes[k] = Append(seen.passes[k], outcome)
        /\ seen.passes[k] \in Seq(Outcomes)
    BY <1>1, <1>2, <1>4 DEF TypeOK, SeenOK
  <2>3. OnlyFailed(seen.passes[k], Len(seen.passes[k]))
    BY <1>2, <1>5 DEF KeysInv, RunsOnce, IndexTellsPasses
  <2> DEFINE old == seen.passes[k]
             new == Append(old, outcome)
  <2>4. /\ new # <<>> /\ Len(old) \in Nat /\ Len(new) = Len(old) + 1 /\ new[Len(old) + 1] = outcome
        /\ \A i \in 1 .. Len(old) : new[i] = old[i]
    BY <2>2, AppendProperties, LenProperties
  <2> HIDE DEF new, old
  <2>5. new[Len(new)] = outcome /\ OnlyFailed(new, Len(new) - 1)
    <3>1. Len(new) - 1 = Len(old)
      BY <2>4
    <3> QED
      BY <3>1, <2>3, <2>4 DEF OnlyFailed, old
  <2>6. outcome = "Failed" => OnlyFailed(new, Len(new))
    <3>1. \A i \in 1 .. Len(new) : i = Len(new) \/ i \in 1 .. Len(new) - 1
      BY <2>4
    <3> QED
      BY <3>1, <2>5 DEF OnlyFailed
  <2>7. seen'.passes[k] = new
    BY <2>2 DEF new, old
  <2> SUFFICES ASSUME NEW x \in Keys
               PROVE  LET passes == seen'.passes[x]
                          state == index'[x].state
                      IN /\ state \in {"none", "held", "expired", "overflowed"} => passes = <<>>
                         /\ state \in {"sent", "Failed"} => OnlyFailed(passes, Len(passes))
                         /\ state \in {"Done", "Unknown"} =>
                              /\ passes # <<>> /\ passes[Len(passes)] = state
                              /\ OnlyFailed(passes, Len(passes) - 1)
    BY DEF IndexTellsPasses, OnlyFailed
  <2>8. CASE x = k
    BY <2>8, <2>2, <2>4, <2>5, <2>6, <2>7 DEF Outcomes
  <2>9. CASE x # k
    BY <2>9, <2>1 DEF KeysInv, IndexTellsPasses
  <2> QED
    BY <2>8, <2>9
<1> QED
  BY <1>8, <1>9, <1>10 DEF KeysInv

LEMMA PumpedExpired ==
  ASSUME TypeOK, NEW p \in Printers
  PROVE  \A k : k \in Pumped(p).expired <=> (k \in overdue /\ Held(k, p))
<1>1. Pumped(p).expired = Expired(lane[p])
  BY DEF Pumped, Started
<1> QED
  BY <1>1 DEF Expired, Held

(* What a pass leaves waiting, and what it takes.                          *)
LEMMA PumpLane ==
  ASSUME TypeOK, HeldOnce, Pump, NEW p \in Printers
  PROVE  /\ IsInjective(lane'[p].waiting)
         /\ \A k : Held(k, p)' <=>
               (Held(k, p) /\ k \notin overdue /\ k \notin Pumped(p).started)
         /\ \A k \in Pumped(p).started : Held(k, p) /\ k \notin overdue /\ k \in Keys
<1>1. lane[p].waiting \in Seq(Keys)
  BY DEF TypeOK, LaneOK, LaneRecord
<1>2. /\ Left(p) \in Seq(Keys) /\ IsInjective(Left(p))
      /\ \A k : Contains(Left(p), k) <=> (Held(k, p) /\ k \notin overdue)
  BY <1>1, WithoutKeys DEF Left, HeldOnce, Held
<1>3. lane'[p] = Pumped(p).to
  BY PumpIs
<1>4. CASE StartsNone(p)
  <2>1. lane'[p].waiting = Left(p)
    BY <1>3, <1>4, DecidedIs DEF StartsNone
  <2> QED
    BY <2>1, <1>2, <1>4 DEF StartsNone, Held
<1>5. ASSUME NEW n \in 1 .. Len(Left(p)), StartsAt(p, n)
      PROVE  /\ IsInjective(lane'[p].waiting)
             /\ \A k : Held(k, p)' <=>
                   (Held(k, p) /\ k \notin overdue /\ k \notin Pumped(p).started)
             /\ \A k \in Pumped(p).started : Held(k, p) /\ k \notin overdue /\ k \in Keys
  <2> DEFINE w == RemoveAt(Left(p), n)
  <2>1. /\ IsInjective(w)
        /\ \A k : Contains(w, k) <=> (Contains(Left(p), k) /\ k # Left(p)[n])
    BY <1>2, RemoveAtKeys
  <2>2. lane'[p].waiting = w
    <3>1. lane'[p] = [Decided(p) EXCEPT !.waiting = RemoveAt(Left(p), n), !.inFlight = TRUE]
      BY <1>3, <1>5 DEF StartsAt
    <3>2. Decided(p) \in LaneRecord
      BY DecidedIs
    <3> QED
      BY <3>1, <3>2 DEF LaneRecord
  <2>3. Pumped(p).started = {Left(p)[n]}
    BY <1>5 DEF StartsAt
  <2>4. Contains(Left(p), Left(p)[n]) /\ Left(p)[n] \in Keys
    BY <1>2, ElementOfSeq DEF Contains
  <2> HIDE DEF w
  <2> QED
    BY <2>1, <2>2, <2>3, <2>4, <1>2 DEF Held
<1> QED
  BY <1>4, <1>5, PumpedIs

LEMMA PumpIndex ==
  ASSUME TypeOK, Pump, NEW k \in Keys
  PROVE  index'[k].state =
           IF k \in overdue /\ \E p \in Printers : Held(k, p) THEN "expired"
           ELSE IF \E p \in Printers : k \in Pumped(p).started THEN "sent"
           ELSE index[k].state
<1> DEFINE gone == UNION {Pumped(q).expired : q \in Printers}
           started == UNION {Pumped(q).started : q \in Printers}
<1>1. index'[k] = IF k \in gone THEN [index[k] EXCEPT !.state = "expired"]
                  ELSE IF k \in started THEN [index[k] EXCEPT !.state = "sent"]
                  ELSE index[k]
  BY DEF Pump
<1>2. k \in gone <=> (k \in overdue /\ \E p \in Printers : Held(k, p))
  BY PumpedExpired
<1>3. k \in started <=> \E p \in Printers : k \in Pumped(p).started
  OBVIOUS
<1> HIDE DEF gone, started
<1>4. index[k] \in [state : JobStates, attempt : 0 .. 2]
  BY DEF TypeOK, IndexOK
<1> QED
  BY <1>1, <1>2, <1>3, <1>4

LEMMA PumpKeys ==
  ASSUME TypeOK, KeysInv, Pump, seen'.passes = seen.passes
  PROVE  KeysInv'
<1>1. \A p \in Printers :
        /\ IsInjective(lane'[p].waiting)
        /\ \A k : Held(k, p)' <=>
              (Held(k, p) /\ k \notin overdue /\ k \notin Pumped(p).started)
        /\ \A k \in Pumped(p).started : Held(k, p) /\ k \notin overdue /\ k \in Keys
  BY PumpLane DEF KeysInv
<1>2. \A k \in Keys : index'[k].state =
           IF k \in overdue /\ \E p \in Printers : Held(k, p) THEN "expired"
           ELSE IF \E p \in Printers : k \in Pumped(p).started THEN "sent"
           ELSE index[k].state
  BY PumpIndex
<1>3. HeldOnce'
  <2>1. \A k \in Keys : \A p, q \in Printers : Held(k, p)' /\ Held(k, q)' => p = q
    BY <1>1 DEF KeysInv, HeldOnce
  <2>2. \A k \in Keys : \A p \in Printers : Held(k, p)' => index'[k].state = "held"
    <3> SUFFICES ASSUME NEW k \in Keys, NEW p \in Printers, Held(k, p)'
                 PROVE  index'[k].state = "held"
      OBVIOUS
    <3>1. /\ Held(k, p) /\ k \notin overdue /\ k \notin Pumped(p).started
          /\ index[k].state = "held"
      BY <1>1 DEF KeysInv, HeldOnce
    <3>2. \A q \in Printers : k \notin Pumped(q).started
      BY <3>1, <1>1 DEF KeysInv, HeldOnce
    <3> QED
      BY <3>1, <3>2, <1>2
  <2> QED
    BY <2>1, <2>2, <1>1 DEF HeldOnce
<1>4. ASSUME NEW p \in Printers
      PROVE  /\ \A i, j \in 1 .. Len(engine'[p]) :
                  engine'[p][i].key = engine'[p][j].key => i = j
             /\ \A k \in Keys : Runs(k, p)' <=> (Runs(k, p) \/ k \in Pumped(p).started)
  <2>1. CASE Pumped(p).started = {}
    <3>1. engine'[p] = engine[p]
      BY <2>1, PumpIs
    <3> QED
      BY <3>1, <2>1 DEF KeysInv, RunsOnce, Runs
  <2>2. ASSUME NEW x, Pumped(p).started = {x}
        PROVE  /\ \A i, j \in 1 .. Len(engine'[p]) :
                    engine'[p][i].key = engine'[p][j].key => i = j
               /\ \A k \in Keys : Runs(k, p)' <=> (Runs(k, p) \/ k \in Pumped(p).started)
    <3>1. x \in Keys /\ Held(x, p) /\ engine'[p] = Append(engine[p], Sent(x))
      BY <2>2, <1>1, PumpIs
    <3>2. Sent(x) \in Item /\ Sent(x).key = x /\ engine[p] \in Seq(Item)
      BY <3>1 DEF Sent, Item, TypeOK, EngineOK
    <3>3. \A i \in 1 .. Len(engine[p]) : engine[p][i].key # x
      <4>1. ~Runs(x, p)
        BY <3>1 DEF KeysInv, HeldOnce, RunsOnce
      <4> QED
        BY <4>1 DEF Runs
    <3>4. /\ Len(engine[p]) \in Nat /\ Len(engine'[p]) = Len(engine[p]) + 1
          /\ \A i \in 1 .. Len(engine[p]) : engine'[p][i] = engine[p][i]
          /\ engine'[p][Len(engine[p]) + 1] = Sent(x)
          /\ \A i \in 1 .. Len(engine[p]) + 1 :
               i \in 1 .. Len(engine[p]) \/ i = Len(engine[p]) + 1
          /\ \A i \in 1 .. Len(engine[p]) : i \in 1 .. Len(engine[p]) + 1
          /\ Len(engine[p]) + 1 \in 1 .. Len(engine[p]) + 1
      BY <3>1, <3>2, EngineAppend
    <3>5. \A i, j \in 1 .. Len(engine'[p]) :
            engine'[p][i].key = engine'[p][j].key => i = j
      BY <3>2, <3>3, <3>4, SMTT(30) DEF KeysInv, RunsOnce
    <3>6. \A k \in Keys : Runs(k, p)' <=> (Runs(k, p) \/ k \in Pumped(p).started)
      BY <2>2, <3>2, <3>4 DEF Runs
    <3> QED
      BY <3>5, <3>6
  <2>3. Pumped(p).started = {} \/ \E x : Pumped(p).started = {x}
    BY PumpedIs DEF StartsNone, StartsAt
  <2> QED
    BY <2>1, <2>2, <2>3
<1>5. RunsOnce'
  <2>1. \A k \in Keys : \A p \in Printers :
          Runs(k, p)' => (Runs(k, p) /\ index[k].state = "sent")
                         \/ (Held(k, p) /\ k \notin overdue /\ k \in Pumped(p).started
                               /\ index[k].state = "held")
    BY <1>1, <1>4 DEF KeysInv, HeldOnce, RunsOnce
  <2>2. \A k \in Keys : \A p, q \in Printers : Runs(k, p)' /\ Runs(k, q)' => p = q
    BY <2>1 DEF KeysInv, HeldOnce, RunsOnce
  <2>3. \A k \in Keys : \A p \in Printers : Runs(k, p)' => index'[k].state = "sent"
    <3> SUFFICES ASSUME NEW k \in Keys, NEW p \in Printers, Runs(k, p)'
                 PROVE  index'[k].state = "sent"
      OBVIOUS
    <3>1. CASE Runs(k, p) /\ index[k].state = "sent"
      <4>1. \A q \in Printers : ~Held(k, q)
        BY <3>1 DEF KeysInv, HeldOnce
      <4> QED
        BY <4>1, <3>1, <1>2
    <3>2. CASE k \notin overdue /\ k \in Pumped(p).started
      BY <3>2, <1>2
    <3> QED
      BY <3>1, <3>2, <2>1
  <2> QED
    BY <2>2, <2>3, <1>4 DEF RunsOnce
<1>6. IndexTellsPasses'
  <2> SUFFICES ASSUME NEW k \in Keys
               PROVE  LET passes == seen.passes[k]
                          state == index'[k].state
                      IN /\ state \in {"none", "held", "expired", "overflowed"} => passes = <<>>
                         /\ state \in {"sent", "Failed"} => OnlyFailed(passes, Len(passes))
                         /\ state \in {"Done", "Unknown"} =>
                              /\ passes # <<>> /\ passes[Len(passes)] = state
                              /\ OnlyFailed(passes, Len(passes) - 1)
    BY DEF IndexTellsPasses, OnlyFailed
  <2>1. CASE \E p \in Printers : Held(k, p)
    <3>1. index[k].state = "held" /\ seen.passes[k] = <<>>
      BY <2>1 DEF KeysInv, HeldOnce, IndexTellsPasses
    <3>2. OnlyFailed(<<>>, Len(<<>>))
      BY EmptySeq DEF OnlyFailed
    <3>3. index'[k].state \in {"expired", "sent", "held"}
      BY <3>1, <1>2
    <3> QED
      BY <3>1, <3>2, <3>3
  <2>2. CASE ~\E p \in Printers : Held(k, p)
    <3>1. index'[k].state = index[k].state
      BY <2>2, <1>1, <1>2
    <3> QED
      BY <3>1 DEF KeysInv, IndexTellsPasses
  <2> QED
    BY <2>1, <2>2
<1> QED
  BY <1>3, <1>5, <1>6 DEF KeysInv

-----------------------------------------------------------------------------
(* What is under way on a lane.                                            *)

FlightInv == AbsentIsIdle /\ OneInFlight /\ UnknownIsHeard

LEMMA FlightStutter ==
  ASSUME FlightInv, UNCHANGED engine, inbox'.completions = inbox.completions,
         seen'.unknown \in SUBSET seen.unknown,
         \A p \in Printers :
           /\ lane'[p].inFlight = lane[p].inFlight
           /\ lane'[p].is = "absent" =>
                lane[p].is = "absent" /\ lane'[p].waiting = lane[p].waiting
           /\ p \in seen'.unknown /\ lane[p].blocked => lane'[p].blocked,
         seen.unknown \in SUBSET Printers
  PROVE  FlightInv'
<1>1. AbsentIsIdle'
  BY DEF FlightInv, AbsentIsIdle
<1>2. \A p \in Printers : Running(p)' = Running(p) /\ Posted(p)' = Posted(p)
  BY DEF Running, Posted
<1>3. OneInFlight'
  BY <1>2 DEF FlightInv, OneInFlight
<1>4. UnknownIsHeard'
  BY DEF FlightInv, UnknownIsHeard
<1> QED
  BY <1>1, <1>3, <1>4 DEF FlightInv

(* On a printer that has seen an Unknown nothing is drainable.             *)
LEMMA UnknownHolds ==
  ASSUME FlightInv, NEW p \in Printers, p \in seen.unknown
  PROVE  lane[p].blocked \/ (lane[p].inFlight /\ lane[p].is # "absent"
           /\ \E i \in DOMAIN inbox.completions :
                inbox.completions[i] = [printer |-> p, state |-> "Unknown"])
<1>1. CASE lane[p].blocked
  BY <1>1
<1>2. ASSUME NEW i \in 1 .. Len(inbox.completions),
             inbox.completions[i] = [printer |-> p, state |-> "Unknown"]
      PROVE  /\ lane[p].inFlight /\ lane[p].is # "absent"
             /\ i \in DOMAIN inbox.completions
  <2>1. i \in Posted(p)
    BY <1>2 DEF Posted
  <2>2. lane[p].inFlight
    BY <2>1 DEF FlightInv, OneInFlight
  <2> QED
    BY <2>2 DEF FlightInv, AbsentIsIdle
<1> QED
  BY <1>1, <1>2 DEF FlightInv, UnknownIsHeard

(* The lane of a printer gains a job of the queue.                         *)
LEMMA RunningAppend ==
  ASSUME TypeOK, NEW p \in Printers, NEW e \in Item, engine'[p] = Append(engine[p], e)
  PROVE  /\ e.drained /\ Running(p) = {} => Running(p)' = {Len(engine[p]) + 1}
         /\ ~e.drained => Running(p)' = Running(p)
<1>1. engine[p] \in Seq(Item)
  BY DEF TypeOK, EngineOK
<1>2. /\ Len(engine[p]) \in Nat /\ Len(engine'[p]) = Len(engine[p]) + 1
      /\ \A i \in 1 .. Len(engine[p]) : engine'[p][i] = engine[p][i]
      /\ engine'[p][Len(engine[p]) + 1] = e
      /\ \A i \in 1 .. Len(engine[p]) + 1 : i \in 1 .. Len(engine[p]) \/ i = Len(engine[p]) + 1
  BY <1>1, EngineAppend
<1> QED
  BY <1>2 DEF Running

LEMMA EnqueueFlight ==
  ASSUME TypeOK, FlightInv, NEW k \in Keys, NEW p \in Printers, Enqueue(k, p)
  PROVE  FlightInv'
<1> DEFINE ln == Lane(p)
<1>1. /\ ln \in LaneRecord /\ lane \in [Printers -> LaneRecord]
      /\ ln.is = "ready" /\ ln.inFlight = lane[p].inFlight /\ ln.blocked = lane[p].blocked
      /\ seen.unknown \in SUBSET Printers
  BY LaneIs DEF TypeOK, LaneOK, SeenOK
<1>2. UNCHANGED seen
  BY DEF Enqueue
<1>3. CASE lane' = [lane EXCEPT ![p] = ln] /\ UNCHANGED <<engine, inbox>>
  BY <1>1, <1>2, <1>3, FlightStutter
<1>4. CASE /\ lane' = [lane EXCEPT ![p] = [ln EXCEPT !.waiting = Append(@, k)]]
           /\ Post(inbox) /\ UNCHANGED engine
  <2>1. inbox'.completions = inbox.completions
    BY <1>4 DEF Post, TypeOK, InboxOK
  <2>2. \A q \in Printers :
           /\ lane'[q].inFlight = lane[q].inFlight
           /\ lane'[q].is = "absent" =>
                lane[q].is = "absent" /\ lane'[q].waiting = lane[q].waiting
           /\ lane[q].blocked => lane'[q].blocked
    BY <1>1, <1>4 DEF LaneRecord
  <2> QED
    BY <2>1, <2>2, <1>1, <1>2, <1>4, FlightStutter
<1>5. CASE /\ Drainable(ln)
           /\ lane' = [lane EXCEPT ![p] = [ln EXCEPT !.inFlight = TRUE]]
           /\ engine' = [engine EXCEPT ![p] = Append(@, Sent(k))]
           /\ UNCHANGED inbox
  <2>1. ~lane[p].inFlight /\ ~lane[p].blocked
    BY <1>1, <1>5 DEF Drainable
  <2>2. Running(p) = {} /\ Posted(p) = {}
    BY <2>1 DEF FlightInv, OneInFlight
  <2>3. Running(p)' = {Len(engine[p]) + 1}
    <3>1. Sent(k) \in Item /\ Sent(k).drained
      BY DEF Sent, Item
    <3>2. engine'[p] = Append(engine[p], Sent(k))
      BY <1>5 DEF TypeOK, EngineOK
    <3> QED
      BY <3>1, <3>2, <2>2, RunningAppend
  <2>4. \A q \in Printers : /\ Posted(q)' = Posted(q)
                            /\ q # p => Running(q)' = Running(q)
    BY <1>5 DEF Posted, Running, TypeOK, EngineOK
  <2>5. /\ lane'[p].inFlight /\ lane'[p].is # "absent" /\ lane'[p].blocked = lane[p].blocked
        /\ \A q \in Printers : q # p => lane'[q] = lane[q]
    BY <1>1, <1>5 DEF LaneRecord
  <2>6. OneInFlight'
    <3> SUFFICES ASSUME NEW q \in Printers
                 PROVE  IF lane'[q].inFlight
                          THEN \/ Posted(q)' = {} /\ (\E i \in Running(q)' : Running(q)' = {i})
                               \/ Running(q)' = {} /\ (\E i \in Posted(q)' : Posted(q)' = {i})
                          ELSE Running(q)' = {} /\ Posted(q)' = {}
      BY DEF OneInFlight
    <3>1. CASE q = p
      BY <3>1, <2>2, <2>3, <2>4, <2>5
    <3>2. CASE q # p
      BY <3>2, <2>4, <2>5 DEF FlightInv, OneInFlight
    <3> QED
      BY <3>1, <3>2
  <2>7. AbsentIsIdle'
    BY <2>5 DEF FlightInv, AbsentIsIdle
  <2>8. UnknownIsHeard'
    BY <2>5, <1>2, <1>5 DEF FlightInv, UnknownIsHeard
  <2> QED
    BY <2>6, <2>7, <2>8 DEF FlightInv
<1> HIDE DEF ln
<1> QED
  BY <1>3, <1>4, <1>5 DEF Enqueue, ln

LEMMA PrintDirectFlight ==
  ASSUME TypeOK, FlightInv, NEW k \in Keys, NEW p \in Printers, PrintDirect(k, p)
  PROVE  FlightInv'
<1> DEFINE e == [key |-> k, drained |-> FALSE]
<1>1. e \in Item /\ ~e.drained
  BY DEF Item
<1>2. engine' = [engine EXCEPT ![p] = Append(@, e)] /\ UNCHANGED <<lane, inbox, seen>>
  BY DEF PrintDirect
<1> HIDE DEF e
<1>3. /\ engine'[p] = Append(engine[p], e)
      /\ \A q \in Printers : q # p => engine'[q] = engine[q]
  BY <1>2 DEF TypeOK, EngineOK
<1>4. Running(p)' = Running(p)
  BY <1>1, <1>3, RunningAppend
<1>5. \A q \in Printers : Running(q)' = Running(q) /\ Posted(q)' = Posted(q)
  BY <1>2, <1>3, <1>4 DEF Running, Posted
<1> QED
  BY <1>2, <1>5 DEF FlightInv, OneInFlight, AbsentIsIdle, UnknownIsHeard

LEMMA JobEndsFlight ==
  ASSUME TypeOK, FlightInv, NEW p \in Printers, NEW outcome \in Outcomes, JobEnds(p, outcome)
  PROVE  FlightInv'
<1> DEFINE e == Head(engine[p])
           c == [printer |-> p, state |-> outcome]
<1>1. /\ engine[p] \in Seq(Item) /\ engine[p] # <<>> /\ e \in Item
      /\ engine' = [engine EXCEPT ![p] = Tail(@)]
      /\ e.drained => Post([inbox EXCEPT !.completions = Append(@, c)])
      /\ ~e.drained => UNCHANGED <<inbox, thread>>
      /\ seen'.unknown = IF e.drained /\ outcome = "Unknown" THEN seen.unknown \cup {p}
                         ELSE seen.unknown
      /\ UNCHANGED lane
  <2>1. /\ engine[p] \in Seq(Item) /\ engine[p] # <<>> /\ e \in Item
        /\ engine' = [engine EXCEPT ![p] = Tail(@)]
        /\ e.drained => Post([inbox EXCEPT !.completions = Append(@, c)])
        /\ ~e.drained => UNCHANGED <<inbox, thread>>
        /\ seen' = [seen EXCEPT !.passes[e.key] = Append(@, outcome),
                                !.unknown = IF e.drained /\ outcome = "Unknown"
                                            THEN @ \cup {p} ELSE @]
        /\ UNCHANGED lane
    BY EndingIs, ZenonT(60)
  <2> HIDE DEF e
  <2> QED
    BY <2>1 DEF TypeOK, SeenOK
<1>2. /\ Len(engine[p]) \in Nat /\ Len(engine[p]) >= 1
      /\ Len(Tail(engine[p])) = Len(engine[p]) - 1
      /\ e = engine[p][1]
      /\ \A i \in 1 .. Len(engine[p]) - 1 :
           Tail(engine[p])[i] = engine[p][i + 1] /\ i + 1 \in 1 .. Len(engine[p])
      /\ \A i \in 1 .. Len(engine[p]) : i = 1 \/ i - 1 \in 1 .. Len(engine[p]) - 1
  BY <1>1, EngineTail
<1> HIDE DEF e
<1>3. /\ engine'[p] = Tail(engine[p])
      /\ \A q \in Printers : q # p => Running(q)' = Running(q)
  BY <1>1 DEF TypeOK, EngineOK, Running
<1>4. Running(p)' = {i \in 1 .. Len(engine[p]) - 1 : i + 1 \in Running(p)}
  BY <1>2, <1>3 DEF Running
<1>5. CASE e.drained
  <2>1. 1 \in Running(p)
    BY <1>2, <1>5 DEF Running
  <2>2. Running(p) = {1} /\ Posted(p) = {} /\ lane[p].inFlight
    BY <2>1 DEF FlightInv, OneInFlight
  <2>3. Running(p)' = {}
    BY <2>2, <1>4, <1>2
  <2> DEFINE n == Len(inbox.completions)
  <2>4. /\ n \in Nat /\ Len(inbox'.completions) = n + 1
        /\ \A i \in 1 .. n : inbox'.completions[i] = inbox.completions[i]
        /\ inbox'.completions[n + 1] = c
        /\ \A i \in 1 .. n + 1 : i \in 1 .. n \/ i = n + 1
        /\ \A i \in 1 .. n : i \in 1 .. n + 1
        /\ n + 1 \in 1 .. n + 1
    <3>1. c \in Completion
      BY DEF Completion
    <3> HIDE DEF c
    <3>2. inbox'.completions = Append(inbox.completions, c)
      BY <1>1, <1>5 DEF Post, TypeOK, InboxOK
    <3>3. inbox.completions \in Seq(Completion)
      BY DEF TypeOK, InboxOK
    <3> QED
      BY <3>1, <3>2, <3>3, AppendProperties, LenProperties
  <2> HIDE DEF n
  <2>5. \A q \in Printers : Posted(q) = {i \in 1 .. n : inbox.completions[i].printer = q}
    BY DEF Posted, n
  <2>6. \A q \in Printers : Posted(q)' = IF q = p THEN Posted(q) \cup {n + 1} ELSE Posted(q)
    BY <2>4, <2>5 DEF Posted
  <2>7. OneInFlight'
    <3> SUFFICES ASSUME NEW q \in Printers
                 PROVE  IF lane[q].inFlight
                          THEN \/ Posted(q)' = {} /\ (\E i \in Running(q)' : Running(q)' = {i})
                               \/ Running(q)' = {} /\ (\E i \in Posted(q)' : Posted(q)' = {i})
                          ELSE Running(q)' = {} /\ Posted(q)' = {}
      BY <1>1 DEF OneInFlight
    <3>1. CASE q = p
      BY <3>1, <2>2, <2>3, <2>6
    <3>2. CASE q # p
      BY <3>2, <2>6, <1>3 DEF FlightInv, OneInFlight
    <3> QED
      BY <3>1, <3>2
  <2>8. UnknownIsHeard'
    <3> SUFFICES ASSUME NEW q \in seen'.unknown
                 PROVE  \/ lane[q].blocked
                        \/ \E i \in 1 .. n + 1 :
                             inbox'.completions[i] = [printer |-> q, state |-> "Unknown"]
      BY <1>1, <2>4 DEF UnknownIsHeard
    <3>1. CASE q \in seen.unknown
      BY <3>1, <2>4 DEF FlightInv, UnknownIsHeard, n
    <3>2. CASE q \notin seen.unknown
      <4>1. q = p /\ outcome = "Unknown"
        BY <3>2, <1>1
      <4> QED
        BY <4>1, <2>4
    <3> QED
      BY <3>1, <3>2
  <2> QED
    BY <2>7, <2>8, <1>1 DEF FlightInv, AbsentIsIdle
<1>6. CASE ~e.drained
  <2>1. 1 \notin Running(p)
    BY <1>2, <1>6 DEF Running
  <2>2. \A i : Running(p) = {i} => Running(p)' = {i - 1}
    <3> SUFFICES ASSUME NEW i, Running(p) = {i} PROVE Running(p)' = {i - 1}
      OBVIOUS
    <3>1. i \in 1 .. Len(engine[p]) /\ i # 1
      BY <2>1 DEF Running
    <3> QED
      BY <3>1, <1>4, <1>2
  <2>3. Running(p) = {} => Running(p)' = {}
    BY <1>4
  <2>4. \A q \in Printers : Posted(q)' = Posted(q)
    BY <1>1, <1>6 DEF Posted
  <2>5. OneInFlight'
    <3> SUFFICES ASSUME NEW q \in Printers
                 PROVE  IF lane[q].inFlight
                          THEN \/ Posted(q)' = {} /\ (\E i \in Running(q)' : Running(q)' = {i})
                               \/ Running(q)' = {} /\ (\E i \in Posted(q)' : Posted(q)' = {i})
                          ELSE Running(q)' = {} /\ Posted(q)' = {}
      BY <1>1 DEF OneInFlight
    <3>1. CASE q = p
      BY <3>1, <2>2, <2>3, <2>4 DEF FlightInv, OneInFlight
    <3>2. CASE q # p
      BY <3>2, <2>4, <1>3 DEF FlightInv, OneInFlight
    <3> QED
      BY <3>1, <3>2
  <2> QED
    BY <2>5, <1>1, <1>6 DEF FlightInv, AbsentIsIdle, UnknownIsHeard
<1> QED
  BY <1>5, <1>6, <1>1 DEF Item

LEMMA PumpFlight ==
  ASSUME TypeOK, FlightInv, Pump, seen'.unknown = seen.unknown
  PROVE  FlightInv'
<1>1. \A p \in Printers : Posted(p)' = {}
  BY DEF Pump, Posted
<1> DEFINE Good(p) ==
      /\ lane'[p].is = "absent" => ~lane'[p].inFlight /\ lane'[p].waiting = <<>>
      /\ IF lane'[p].inFlight THEN \E i \in Running(p)' : Running(p)' = {i}
         ELSE Running(p)' = {}
      /\ p \in seen.unknown => lane'[p].blocked
<1>2. ASSUME NEW p \in Printers PROVE Good(p)
  <2>1. /\ lane'[p] = Pumped(p).to
        /\ lane'[p].is = lane[p].is /\ lane'[p].blocked = Applied(p).blocked
    BY PumpIs, PumpedTo
  <2>2. p \in seen.unknown => lane'[p].blocked
    <3>1. CASE lane[p].is = "absent"
      BY <3>1, <2>1, AppliedIs, UnknownHolds
    <3>2. CASE lane[p].is # "absent"
      BY <3>2, <2>1, AppliedIs, UnknownHolds
    <3> QED
      BY <3>1, <3>2
  <2>3. /\ Decided(p) \in LaneRecord /\ Decided(p).waiting = Left(p)
        /\ Decided(p).inFlight = Applied(p).inFlight /\ Left(p) \in Seq(Keys)
    BY DecidedIs
  <2>4. lane[p].is = "absent" => /\ ~Decided(p).inFlight /\ Left(p) = <<>>
                                 /\ ~lane[p].inFlight
    <3> SUFFICES ASSUME lane[p].is = "absent" PROVE ~Decided(p).inFlight /\ Left(p) = <<>>
                                                     /\ ~lane[p].inFlight
      OBVIOUS
    <3>1. ~lane[p].inFlight /\ lane[p].waiting = <<>> /\ lane[p].waiting \in Seq(Keys)
      BY DEF FlightInv, AbsentIsIdle, TypeOK, LaneOK, LaneRecord
    <3>2. ~Decided(p).inFlight
      BY <3>1, <2>3, AppliedIs
    <3>3. Len(Left(p)) <= Len(lane[p].waiting) /\ Len(lane[p].waiting) = 0
      BY <3>1, WithoutKeys, EmptySeq DEF Left
    <3>4. Len(Left(p)) \in Nat
      BY <2>3, LenProperties
    <3>5. Left(p) = <<>>
      BY <3>3, <3>4, <2>3, EmptySeq
    <3> QED
      BY <3>1, <3>2, <3>5
  <2>5. Decided(p).inFlight <=> lane[p].inFlight /\ Posted(p) = {}
    <3>1. CASE lane[p].is = "absent"
      BY <3>1, <2>4
    <3>2. CASE lane[p].is # "absent"
      <4>1. DOMAIN inbox.completions = 1 .. Len(inbox.completions)
        BY LenProperties DEF TypeOK, InboxOK
      <4> QED
        BY <4>1, <3>2, <2>3, AppliedIs, ZenonT(60) DEF Posted
    <3> QED
      BY <3>1, <3>2
  <2>6. IF Decided(p).inFlight THEN \E i \in Running(p) : Running(p) = {i}
        ELSE Running(p) = {}
    BY <2>5 DEF FlightInv, OneInFlight
  <2>7. CASE StartsNone(p)
    <3>1. engine'[p] = engine[p] /\ lane'[p] = Decided(p)
      BY <2>1, <2>7, PumpIs DEF StartsNone
    <3>2. Running(p)' = Running(p)
      BY <3>1 DEF Running
    <3>3. lane'[p].is = "absent" => ~lane'[p].inFlight /\ lane'[p].waiting = <<>>
      BY <3>1, <2>1, <2>3, <2>4
    <3> QED
      BY <3>1, <3>2, <3>3, <2>2, <2>6
  <2>8. ASSUME NEW n \in 1 .. Len(Left(p)), StartsAt(p, n) PROVE Good(p)
    <3>1. /\ Left(p) # <<>> /\ Drainable(Decided(p))
          /\ Pumped(p).to = [Decided(p) EXCEPT !.waiting = RemoveAt(Left(p), n), !.inFlight = TRUE]
          /\ Pumped(p).started = {Left(p)[n]}
      BY <2>8 DEF StartsAt
    <3>2. ~Decided(p).inFlight /\ lane[p].is # "absent"
      BY <3>1, <2>4 DEF Drainable
    <3>3. lane'[p].inFlight
      BY <3>1, <2>1, <2>3 DEF LaneRecord
    <3>4. engine'[p] = Append(engine[p], Sent(Left(p)[n]))
      BY <3>1, PumpIs
    <3>5. Sent(Left(p)[n]) \in Item /\ Sent(Left(p)[n]).drained
      <4>1. Left(p)[n] \in Keys
        BY <2>3, ElementOfSeq
      <4> QED
        BY <4>1 DEF Sent, Item
    <3>6. Running(p)' = {Len(engine[p]) + 1}
      BY <3>2, <3>4, <3>5, <2>6, RunningAppend
    <3> QED
      BY <3>2, <3>3, <3>6, <2>1, <2>2
  <2> QED
    BY <2>7, <2>8, PumpedIs
<1> HIDE DEF Good
<1>3. AbsentIsIdle'
  BY <1>2 DEF AbsentIsIdle, Good
<1>4. OneInFlight'
  BY <1>1, <1>2 DEF OneInFlight, Good
<1>5. UnknownIsHeard'
  <2>1. seen.unknown \in SUBSET Printers
    BY DEF TypeOK, SeenOK
  <2> QED
    BY <2>1, <1>2 DEF UnknownIsHeard, Good
<1> QED
  BY <1>3, <1>4, <1>5 DEF FlightInv

-----------------------------------------------------------------------------
(* What a lane is told, and what the last status says.                     *)

(* A lane that keeps its faults, and is not made ready, keeps its debts.   *)
LEMMA ReportsStutter ==
  ASSUME NEW p \in Printers, ReportsOf(p), status'[p] = status[p],
         inbox'.events = inbox.events,
         lane'[p].is = "ready" => lane[p].is = "ready",
         lane'[p].faults = lane[p].faults
  PROVE  ReportsOf(p)'
<1>1. \A f : About(p, f)' = About(p, f) /\ (Announced(p, f)' <=> Announced(p, f))
  BY DEF About, Announced
<1>2. SentIsTrue(p)'
  BY DEF ReportsOf, SentIsTrue
<1>3. LastIsTrue(p)'
  BY <1>1 DEF ReportsOf, LastIsTrue
<1>4. SettledIsTrue(p)'
  BY <1>1 DEF ReportsOf, SettledIsTrue
<1>5. UnseenIsClean(p)'
  BY DEF ReportsOf, UnseenIsClean
<1> QED
  BY <1>2, <1>3, <1>4, <1>5 DEF ReportsOf

(* An event about (q, g) is the last one about it, and about nothing else. *)
LEMMA EventPosted ==
  ASSUME TypeOK, NEW q \in Printers, NEW g \in Faults \cup {"link"}, NEW on \in BOOLEAN,
         PostEvent(q, g, on)
  PROVE  /\ \A p \in Printers : \A f \in Faults :
              (p # q \/ f # g) =>
                /\ About(p, f)' = About(p, f)
                /\ About(p, f) # {} => inbox'.events[Max(About(p, f))]
                                         = inbox.events[Max(About(p, f))]
         /\ About(q, g)' # {}
         /\ inbox'.events[Max(About(q, g)')].on = on
<1> DEFINE e == [printer |-> q, fault |-> g, on |-> on]
           n == Len(inbox.events)
<1>1. e \in Events /\ e.printer = q /\ e.fault = g /\ e.on = on
  BY DEF Events
<1>2. inbox'.events = Append(inbox.events, e) /\ inbox.events \in Seq(Events)
  BY DEF PostEvent, Post, TypeOK, InboxOK
<1> HIDE DEF e
<1>3. /\ n \in Nat /\ DOMAIN inbox.events = 1 .. n /\ DOMAIN inbox'.events = 1 .. n + 1
      /\ \A i \in 1 .. n : inbox'.events[i] = inbox.events[i]
      /\ inbox'.events[n + 1] = e
  <2>1. inbox'.events \in Seq(Events) /\ Len(inbox'.events) = n + 1
    BY <1>1, <1>2, AppendProperties
  <2> QED
    BY <1>1, <1>2, <2>1, AppendProperties, LenProperties
<1> HIDE DEF n
<1>4. /\ \A i \in 1 .. n + 1 : i \in 1 .. n \/ i = n + 1
      /\ \A i \in 1 .. n : i \in 1 .. n + 1
      /\ n + 1 \in 1 .. n + 1
  BY <1>3
<1>5. ASSUME NEW p \in Printers, NEW f \in Faults, p # q \/ f # g
      PROVE  /\ About(p, f)' = About(p, f)
             /\ About(p, f) # {} => inbox'.events[Max(About(p, f))]
                                      = inbox.events[Max(About(p, f))]
  <2>1. About(p, f)' = About(p, f)
    BY <1>1, <1>3, <1>4, <1>5 DEF About
  <2>2. About(p, f) \in SUBSET (1 .. n)
    BY <1>3 DEF About
  <2>3. About(p, f) # {} => Max(About(p, f)) \in 1 .. n
    BY <2>2, <1>3, GreatestPosition
  <2> QED
    BY <2>1, <2>3, <1>3
<1>6. n + 1 \in About(q, g)' /\ About(q, g)' \in SUBSET (1 .. n + 1)
  BY <1>1, <1>3, <1>4 DEF About
<1>7. Max(About(q, g)') = n + 1
  <2> DEFINE S == About(q, g)'
  <2>1. n + 1 \in Nat /\ S \in SUBSET (1 .. n + 1) /\ S # {}
    BY <1>3, <1>6
  <2> HIDE DEF S
  <2>2. Max(S) \in S /\ \A i \in S : Max(S) >= i
    BY <2>1, GreatestPosition
  <2>3. Max(S) >= n + 1 /\ Max(S) \in 1 .. n + 1
    BY <2>1, <2>2, <1>6 DEF S
  <2> QED
    BY <2>3, <1>3 DEF S
<1> QED
  BY <1>1, <1>3, <1>5, <1>6, <1>7

LEMMA EnqueueReports ==
  ASSUME TypeOK, Reports, NEW k \in Keys, NEW q \in Printers, Enqueue(k, q)
  PROVE  Reports'
<1> SUFFICES ASSUME NEW p \in Printers PROVE ReportsOf(p)'
  BY DEF Reports
<1>1. ReportsOf(p)
  BY DEF Reports
<1>2. UNCHANGED status
  BY DEF Enqueue
<1>3. inbox'.events = inbox.events
  BY DEF Enqueue, Post, TypeOK, InboxOK
<1>4. /\ Lane(q) \in LaneRecord /\ lane \in [Printers -> LaneRecord]
      /\ Lane(q).is = "ready"
      /\ Lane(q).faults = IF lane[q].is = "ready" THEN lane[q].faults
                          ELSE IF status[q].observed THEN status[q].faults
                          ELSE lane[q].faults \ {"link"}
  BY LaneIs DEF TypeOK, LaneOK
<1>5. /\ lane'[q].faults = Lane(q).faults
      /\ lane'[q].is = "ready"
      /\ \A r \in Printers : r # q => lane'[r] = lane[r]
  <2> DEFINE ln == Lane(q)
             l1 == [ln EXCEPT !.inFlight = TRUE]
             l2 == [ln EXCEPT !.waiting = Append(@, k)]
  <2>1. lane' = [lane EXCEPT ![q] = ln] \/ lane' = [lane EXCEPT ![q] = l1]
          \/ lane' = [lane EXCEPT ![q] = l2]
    BY DEF Enqueue
  <2>2. /\ ln.is = "ready" /\ l1.is = "ready" /\ l2.is = "ready"
        /\ l1.faults = ln.faults /\ l2.faults = ln.faults
    BY <1>4 DEF LaneRecord
  <2> HIDE DEF ln, l1, l2
  <2> QED
    BY <2>1, <2>2, <1>4 DEF ln
<1>6. CASE p # q \/ lane[q].is = "ready"
  BY <1>1, <1>2, <1>3, <1>4, <1>5, <1>6, ReportsStutter
<1>7. CASE p = q /\ lane[q].is # "ready"
  <2>1. \A f : About(p, f)' = About(p, f) /\ (Announced(p, f)' <=> Announced(p, f))
    BY <1>2, <1>3 DEF About, Announced
  <2>2. SentIsTrue(p)' /\ LastIsTrue(p)'
    BY <1>1, <1>2, <1>3, <2>1 DEF ReportsOf, SentIsTrue, LastIsTrue
  <2>3. "link" \notin Faults /\ UnseenIsClean(p)
    BY <1>1, QueueAssumption DEF ReportsOf
  <2>4. \A f \in Faults : f \in lane'[p].faults <=> f \in status[p].faults
    BY <1>4, <1>5, <1>7, <2>3 DEF UnseenIsClean
  <2>5. UnseenIsClean(p)'
    BY <1>2, <1>4, <1>5, <1>7, <2>3 DEF UnseenIsClean
  <2>6. SettledIsTrue(p)'
    BY <2>4, <1>2 DEF SettledIsTrue
  <2> QED
    BY <2>2, <2>5, <2>6 DEF ReportsOf
<1> QED
  BY <1>6, <1>7

LEMMA PumpReports ==
  ASSUME TypeOK, Reports, Pump, UNCHANGED status
  PROVE  Reports'
<1> SUFFICES ASSUME NEW p \in Printers PROVE ReportsOf(p)'
  BY DEF Reports
<1>1. ReportsOf(p)
  BY DEF Reports
<1>2. lane'[p].is = lane[p].is /\ lane'[p].faults = Applied(p).faults
  BY PumpIs, PumpedTo
<1>3. \A f : About(p, f)' = {} /\ (Announced(p, f)' <=> Announced(p, f))
  BY DEF Pump, About, Announced
<1>4. SentIsTrue(p)' /\ LastIsTrue(p)'
  BY <1>1, <1>3 DEF ReportsOf, SentIsTrue, LastIsTrue
<1>5. "link" \notin Faults
  BY QueueAssumption
<1>6. CASE lane[p].is = "absent"
  <2>1. lane'[p].faults = lane[p].faults
    BY <1>2, <1>6, AppliedIs
  <2> QED
    BY <1>1, <1>2, <1>4, <1>6, <2>1 DEF ReportsOf, SettledIsTrue, UnseenIsClean
<1>7. CASE lane[p].is # "absent"
  <2>1. lane'[p].faults = {f \in Faults \cup {"link"} : Told(p, f)}
    BY <1>2, <1>7, AppliedIs
  <2>2. \A f \in Faults : f \in lane'[p].faults <=> Told(p, f)
    BY <2>1
  <2>3. \A f \in Faults : Told(p, f) = IF About(p, f) = {} THEN f \in lane[p].faults
                                       ELSE inbox.events[Max(About(p, f))].on
    BY DEF Told, About
  <2>4. SettledIsTrue(p)'
    BY <1>1, <1>2, <1>3, <2>2, <2>3 DEF ReportsOf, LastIsTrue, SettledIsTrue
  <2>5. UnseenIsClean(p)'
    <3> SUFFICES ASSUME ~status[p].observed
                 PROVE  status[p].faults = {} /\ lane'[p].faults \subseteq {"link"}
      BY DEF UnseenIsClean
    <3>1. \A f \in Faults : ~Told(p, f)
      BY <1>1, <1>5, <2>3 DEF ReportsOf, LastIsTrue, UnseenIsClean
    <3> QED
      BY <3>1, <2>1, <1>1 DEF ReportsOf, UnseenIsClean
  <2> QED
    BY <1>4, <2>4, <2>5 DEF ReportsOf
<1> QED
  BY <1>6, <1>7

LEMMA MergeStatusReports ==
  ASSUME TypeOK, Reports, NEW q \in Printers, NEW flags \in SUBSET Faults,
         NEW on \in SUBSET flags, MergeStatus(q, flags, on)
  PROVE  Reports'
<1> SUFFICES ASSUME NEW p \in Printers PROVE ReportsOf(p)'
  BY DEF Reports
<1>1. ReportsOf(p) /\ UNCHANGED <<lane, inbox>>
  BY DEF Reports, MergeStatus
<1>2. CASE p # q
  <2>1. status'[p] = status[p]
    BY <1>2 DEF MergeStatus, TypeOK, StatusOK
  <2> QED
    BY <1>1, <2>1, ReportsStutter
<1>3. CASE p = q
  <2> DEFINE S == {[printer |-> q, fault |-> f, on |-> f \in on] : f \in flags}
  <2>1. /\ status[p].toSend = <<>>
        /\ status'[p].observed /\ status'[p].toSend = SetToSeq(S)
        /\ status'[p].faults = (status[p].faults \ flags) \cup on
    BY <1>3 DEF MergeStatus, TypeOK, StatusOK
  <2>2. IsFiniteSet(S)
    <3>1. IsFiniteSet(flags)
      BY QueueAssumption, FS_Subset
    <3> DEFINE g == [f \in flags |-> [printer |-> q, fault |-> f, on |-> f \in on]]
    <3>2. g \in Surjection(flags, S)
      BY DEF Surjection
    <3> HIDE DEF g, S
    <3> QED
      BY <3>1, <3>2, FS_Surjection
  <2>3. \A e \in S : e.printer = p /\ e.fault \in Faults /\ e.on = (e.fault \in status'[p].faults)
    BY <2>1, <1>3
  <2>4. ASSUME NEW f \in flags PROVE \E e \in S : e.fault = f
    <3> DEFINE e == [printer |-> q, fault |-> f, on |-> f \in on]
    <3>1. e \in S /\ e.fault = f
      OBVIOUS
    <3> HIDE DEF e, S
    <3> QED
      BY <3>1
  <2> HIDE DEF S
  <2>5. /\ SetToSeq(S) \in Seq(S)
        /\ \A x \in S : \E i \in 1 .. Len(SetToSeq(S)) : SetToSeq(S)[i] = x
    BY <2>2, ReportNamesAll
  <2>6. \A i \in 1 .. Len(SetToSeq(S)) : SetToSeq(S)[i] \in S
    BY <2>5, ElementOfSeq
  <2>7. SentIsTrue(p)'
    BY <2>1, <2>3, <2>6 DEF SentIsTrue
  <2>8. \A f \in flags : Announced(p, f)'
    BY <2>1, <2>4, <2>5 DEF Announced
  <2>9. \A f \in Faults : ~Announced(p, f)
    BY <2>1, EmptySeq DEF Announced
  <2>10. \A f \in Faults : About(p, f)' = About(p, f)
    BY <1>1 DEF About
  <2>11. \A f \in Faults \ flags : f \in status'[p].faults <=> f \in status[p].faults
    BY <2>1
  <2>12. LastIsTrue(p)'
    <3> SUFFICES ASSUME NEW f \in Faults, About(p, f) # {}, ~Announced(p, f)'
                 PROVE  inbox.events[Max(About(p, f))].on = (f \in status'[p].faults)
      BY <1>1, <2>1, <2>10 DEF LastIsTrue
    <3>1. f \in Faults \ flags
      BY <2>8
    <3> QED
      BY <3>1, <2>9, <2>11, <1>1 DEF ReportsOf, LastIsTrue
  <2>13. SettledIsTrue(p)'
    <3> SUFFICES ASSUME NEW f \in Faults, lane[p].is = "ready", About(p, f) = {},
                        ~Announced(p, f)'
                 PROVE  f \in lane[p].faults <=> f \in status'[p].faults
      BY <1>1, <2>10 DEF SettledIsTrue
    <3>1. f \in Faults \ flags
      BY <2>8
    <3> QED
      BY <3>1, <2>9, <2>11, <1>1 DEF ReportsOf, SettledIsTrue
  <2>14. UnseenIsClean(p)'
    BY <2>1 DEF UnseenIsClean
  <2> QED
    BY <2>7, <2>12, <2>13, <2>14 DEF ReportsOf
<1> QED
  BY <1>2, <1>3

LEMMA DispatchReports ==
  ASSUME TypeOK, Reports, NEW q \in Printers, Dispatch(q)
  PROVE  Reports'
<1> DEFINE e == Head(status[q].toSend)
           s == status[q].toSend
<1>1. s \in Seq(Events) /\ s # <<>>
  BY DEF Dispatch, TypeOK, StatusOK
<1>2. /\ Len(s) \in Nat /\ Len(s) >= 1 /\ e = s[1]
      /\ Len(Tail(s)) = Len(s) - 1
      /\ \A i \in 1 .. Len(s) - 1 : Tail(s)[i] = s[i + 1] /\ i + 1 \in 1 .. Len(s)
      /\ \A i \in 1 .. Len(s) : i = 1 \/ i - 1 \in 1 .. Len(s) - 1
      /\ 1 \in 1 .. Len(s)
  <2>1. Len(s) \in Nat /\ Len(s) # 0
    BY <1>1, LenProperties, EmptySeq
  <2>2. Len(Tail(s)) = Len(s) - 1 /\ \A i \in 1 .. Len(Tail(s)) : Tail(s)[i] = s[i + 1]
    BY <1>1, HeadTailProperties
  <2>3. e = s[1]
    OBVIOUS
  <2> HIDE DEF s, e
  <2> QED
    BY <2>1, <2>2, <2>3
<1>3. /\ e.fault \in Faults /\ e.on = (e.fault \in status[q].faults)
      /\ status[q].observed
  BY <1>2 DEF Reports, ReportsOf, SentIsTrue
<1>4. PostEvent(q, e.fault, e.on)
  BY DEF Dispatch
<1>5. /\ status'[q] = [status[q] EXCEPT !.toSend = Tail(s)]
      /\ \A p \in Printers : p # q => status'[p] = status[p]
      /\ UNCHANGED lane
  BY DEF Dispatch, TypeOK, StatusOK
<1>6. /\ status'[q].toSend = Tail(s) /\ status'[q].observed
      /\ status'[q].faults = status[q].faults
  BY <1>3, <1>5 DEF TypeOK, StatusOK
<1> HIDE DEF e
<1>g. PICK g \in Faults : g = e.fault
  BY <1>3
<1>o. PICK on \in BOOLEAN : on = e.on
  <2>1. e \in Events
    BY <1>1, HeadTailProperties DEF e
  <2>2. e.on \in BOOLEAN
    BY <2>1 DEF Events
  <2> QED
    BY <2>2
<1>7. /\ \A p \in Printers : \A f \in Faults :
           (p # q \/ f # g) =>
             /\ About(p, f)' = About(p, f)
             /\ About(p, f) # {} => inbox'.events[Max(About(p, f))]
                                      = inbox.events[Max(About(p, f))]
      /\ About(q, g)' # {}
      /\ inbox'.events[Max(About(q, g)')].on = on
  <2>1. PostEvent(q, g, on) /\ g \in Faults \cup {"link"}
    BY <1>4, <1>g, <1>o
  <2> QED
    BY <2>1, EventPosted
<1> SUFFICES ASSUME NEW p \in Printers PROVE ReportsOf(p)'
  BY DEF Reports
<1>8. ReportsOf(p)
  BY DEF Reports
<1>9. \A f \in Faults : (p # q \/ f # g) => (Announced(p, f)' <=> Announced(p, f))
  <2> SUFFICES ASSUME NEW f \in Faults, p # q \/ f # g
               PROVE  Announced(p, f)' <=> Announced(p, f)
    OBVIOUS
  <2>1. CASE p # q
    BY <2>1, <1>5 DEF Announced
  <2>2. CASE p = q
    <3>1. Announced(p, f)' => Announced(p, f)
      BY <2>2, <1>2, <1>6 DEF Announced
    <3>2. ASSUME NEW i \in 1 .. Len(s), s[i].fault = f PROVE Announced(p, f)'
      <4>1. i # 1 /\ i - 1 \in 1 .. Len(s) - 1
        BY <3>2, <2>2, <1>2, <1>g
      <4>2. Tail(s)[i - 1] = s[i]
        BY <4>1, <1>2
      <4> QED
        BY <4>1, <4>2, <3>2, <2>2, <1>2, <1>6 DEF Announced
    <3> QED
      BY <3>1, <3>2, <2>2 DEF Announced
  <2> QED
    BY <2>1, <2>2
<1>10. SentIsTrue(p)'
  <2>1. CASE p # q
    BY <2>1, <1>5, <1>8 DEF ReportsOf, SentIsTrue
  <2>2. CASE p = q
    BY <2>2, <1>2, <1>6, <1>8 DEF ReportsOf, SentIsTrue
  <2> QED
    BY <2>1, <2>2
<1>11. status'[p].faults = status[p].faults /\ status'[p].observed = status[p].observed
  <2>1. CASE p # q
    BY <2>1, <1>5
  <2>2. CASE p = q
    BY <2>2, <1>3, <1>5 DEF TypeOK, StatusOK
  <2> QED
    BY <2>1, <2>2
<1>12. LastIsTrue(p)'
  <2> SUFFICES ASSUME NEW f \in Faults, About(p, f)' # {}
               PROVE  /\ status[p].observed
                      /\ \/ Announced(p, f)'
                         \/ inbox'.events[Max(About(p, f)')].on = (f \in status[p].faults)
    BY <1>11 DEF LastIsTrue
  <2>1. CASE p # q \/ f # g
    <3>1. /\ About(p, f)' = About(p, f) /\ About(p, f) # {}
          /\ inbox'.events[Max(About(p, f))] = inbox.events[Max(About(p, f))]
      BY <2>1, <1>7
    <3>2. inbox'.events[Max(About(p, f)')] = inbox.events[Max(About(p, f))]
      BY <3>1, Zenon
    <3> QED
      BY <2>1, <3>1, <3>2, <1>8, <1>9 DEF ReportsOf, LastIsTrue
  <2>2. CASE p = q /\ f = g
    <3>1. inbox'.events[Max(About(p, f)')].on = on
      BY <2>2, <1>7, Zenon
    <3> QED
      BY <2>2, <3>1, <1>3, <1>g, <1>o
  <2> QED
    BY <2>1, <2>2
<1>13. SettledIsTrue(p)'
  <2> SUFFICES ASSUME NEW f \in Faults, lane[p].is = "ready", About(p, f)' = {},
                      ~Announced(p, f)'
               PROVE  f \in lane[p].faults <=> f \in status[p].faults
    BY <1>5, <1>11 DEF SettledIsTrue
  <2>1. p # q \/ f # g
    BY <1>7, Zenon
  <2> QED
    BY <2>1, <1>7, <1>8, <1>9 DEF ReportsOf, SettledIsTrue
<1>14. UnseenIsClean(p)'
  BY <1>5, <1>8, <1>11 DEF ReportsOf, UnseenIsClean
<1> QED
  BY <1>10, <1>12, <1>13, <1>14 DEF ReportsOf

LEMMA LinkReports ==
  ASSUME TypeOK, Reports, NEW q \in Printers, ConnectionLost(q) \/ Connect(q)
  PROVE  Reports'
<1> SUFFICES ASSUME NEW p \in Printers PROVE ReportsOf(p)'
  BY DEF Reports
<1>1. ReportsOf(p) /\ UNCHANGED <<lane, status>>
  BY DEF Reports, ConnectionLost, Connect
<1>2. PICK on \in BOOLEAN : PostEvent(q, "link", on)
  BY DEF ConnectionLost, Connect
<1>3. \A f \in Faults :
        /\ About(p, f)' = About(p, f)
        /\ About(p, f) # {} => inbox'.events[Max(About(p, f))]
                                 = inbox.events[Max(About(p, f))]
        /\ Announced(p, f)' <=> Announced(p, f)
  <2>1. \A f \in Faults : f # "link"
    BY QueueAssumption
  <2>2. "link" \in Faults \cup {"link"}
    OBVIOUS
  <2> QED
    BY <2>1, <2>2, <1>1, <1>2, EventPosted DEF Announced
<1>4. SentIsTrue(p)'
  BY <1>1 DEF ReportsOf, SentIsTrue
<1>5. LastIsTrue(p)'
  BY <1>1, <1>3 DEF ReportsOf, LastIsTrue
<1>6. SettledIsTrue(p)'
  BY <1>1, <1>3 DEF ReportsOf, SettledIsTrue
<1>7. UnseenIsClean(p)'
  BY <1>1 DEF ReportsOf, UnseenIsClean
<1> QED
  BY <1>4, <1>5, <1>6, <1>7 DEF ReportsOf

-----------------------------------------------------------------------------
(* Every step keeps the invariant.                                         *)

LEMMA QuietStep ==
  ASSUME QInv, TypeOK', UNCHANGED <<index, engine, status>>,
         seen'.passes = seen.passes, seen'.unknown \in SUBSET seen.unknown,
         inbox'.events = inbox.events, inbox'.completions = inbox.completions,
         \A p \in Printers :
           /\ lane'[p].waiting = lane[p].waiting /\ lane'[p].faults = lane[p].faults
           /\ lane'[p].inFlight = lane[p].inFlight
           /\ lane'[p].is = "absent" => lane[p].is = "absent"
           /\ lane'[p].is = "ready" => lane[p].is = "ready"
           /\ p \in seen'.unknown /\ lane[p].blocked => lane'[p].blocked
  PROVE  QInv'
<1>1. KeysInv'
  BY KeysStutter DEF QInv, KeysInv
<1>2. seen.unknown \in SUBSET Printers
  BY DEF QInv, TypeOK, SeenOK
<1>3. FlightInv'
  BY <1>2, FlightStutter DEF QInv, FlightInv
<1>4. Reports'
  BY ReportsStutter DEF QInv, Reports
<1> QED
  BY <1>1, <1>3, <1>4 DEF QInv, KeysInv, FlightInv

LEMMA InitHolds ==
  ASSUME Init
  PROVE  QInv
<1>e. <<>> \in Seq(Keys) /\ <<>> \in Seq(Events) /\ <<>> \in Seq(Completion)
        /\ <<>> \in Seq(Item) /\ <<>> \in Seq(Outcomes)
  BY EmptySeq
<1>0. Len(<<>>) = 0 /\ DOMAIN <<>> = {}
  OBVIOUS
<1>1. TypeOK
  <2>1. NoLane \in LaneRecord /\ Len(NoLane.waiting) = 0
    BY <1>e, <1>0 DEF NoLane, LaneRecord
  <2>2. LaneOK
    BY <2>1, QueueAssumption DEF Init, LaneOK
  <2>3. InboxOK /\ ThreadOK /\ EngineOK /\ SeenOK
    BY <1>e DEF Init, InboxOK, ThreadOK, EngineOK, SeenOK
  <2>4. StatusOK
    BY <1>e DEF Init, StatusOK
  <2>5. IndexOK
    BY DEF Init, IndexOK, JobStates
  <2>6. OthersOK
    <3>1. turns \in 0 .. MaxTurns /\ unsignalled \in Nat
      BY QueueAssumption DEF Init
    <3>2. up \in [Printers -> BOOLEAN]
      BY DEF Init
    <3> QED
      BY <3>1, <3>2 DEF Init, OthersOK
  <2> QED
    BY <2>2, <2>3, <2>4, <2>5, <2>6 DEF TypeOK
<1>2. \A p \in Printers : /\ lane[p].waiting = <<>> /\ lane[p].is = "absent"
                          /\ lane[p].faults = {} /\ ~lane[p].inFlight
                          /\ engine[p] = <<>> /\ status[p].toSend = <<>>
                          /\ status[p].faults = {} /\ ~status[p].observed
  BY DEF Init, NoLane
<1>3. /\ inbox.events = <<>> /\ inbox.completions = <<>> /\ seen.unknown = {}
      /\ \A k \in Keys : seen.passes[k] = <<>> /\ index[k].state = "none"
  BY DEF Init
<1>4. \A k : ~Contains(<<>>, k)
  BY <1>0 DEF Contains
<1>5. IsInjective(<<>>)
  BY <1>0 DEF IsInjective
<1>6. HeldOnce
  BY <1>2, <1>4, <1>5 DEF HeldOnce, Held
<1>7. RunsOnce
  BY <1>0, <1>2 DEF RunsOnce, Runs
<1>8. IndexTellsPasses
  BY <1>3 DEF IndexTellsPasses
<1>9. AbsentIsIdle /\ UnknownIsHeard
  BY <1>2, <1>3 DEF AbsentIsIdle, UnknownIsHeard
<1>10. OneInFlight
  BY <1>0, <1>2, <1>3 DEF OneInFlight, Running, Posted
<1>11. Reports
  <2> SUFFICES ASSUME NEW p \in Printers PROVE ReportsOf(p)
    BY DEF Reports
  <2>1. \A f : About(p, f) = {} /\ ~Announced(p, f)
    BY <1>0, <1>2, <1>3 DEF About, Announced
  <2>2. SentIsTrue(p) /\ UnseenIsClean(p)
    BY <1>0, <1>2 DEF SentIsTrue, UnseenIsClean
  <2>3. LastIsTrue(p) /\ SettledIsTrue(p)
    BY <2>1, <1>2 DEF LastIsTrue, SettledIsTrue
  <2> QED
    BY <2>2, <2>3 DEF ReportsOf
<1> QED
  BY <1>1, <1>6, <1>7, <1>8, <1>9, <1>10, <1>11 DEF QInv

(* The queue's thread between two passes, a signal, stop(), a deadline.    *)
LEMMA ThreadKeeps ==
  ASSUME QInv, \/ RunRest \/ RunTimeout \/ Signal \/ Stop
               \/ \E k \in Keys : Deadline(k)
               \/ UNCHANGED vars
  PROVE  QInv'
<1>1. TypeOK'
  <2>1. CASE RunRest \/ RunTimeout \/ Signal \/ Stop
    BY <2>1, ThreadTypes DEF QInv
  <2>2. CASE \E k \in Keys : Deadline(k)
    BY <2>2, DeadlineTypes DEF QInv
  <2>3. CASE UNCHANGED vars
    BY <2>3 DEF QInv, vars, TypeOK, LaneOK, InboxOK, ThreadOK, StatusOK, IndexOK, EngineOK,
                SeenOK, OthersOK
  <2> QED
    BY <2>1, <2>2, <2>3
<1>2. UNCHANGED <<lane, index, engine, status, seen>>
  BY DEF RunRest, RunTimeout, Signal, Stop, Deadline, vars
<1>3. inbox'.events = inbox.events /\ inbox'.completions = inbox.completions
  <2>1. InboxOK
    BY DEF QInv, TypeOK
  <2>2. inbox' = inbox \/ \E b \in BOOLEAN : inbox' = [inbox EXCEPT !.pending = b]
    BY DEF RunRest, RunTimeout, Signal, Stop, Post, Deadline, vars
  <2> QED
    BY <2>1, <2>2 DEF InboxOK
<1> QED
  BY <1>1, <1>2, <1>3, QuietStep

(* pause(), resume() and unblock().                                        *)
LEMMA OperatorKeeps ==
  ASSUME QInv, NEW p \in Printers, Pause(p) \/ Resume(p) \/ Unblock(p)
  PROVE  QInv'
<1>1. TypeOK /\ TypeOK'
  BY OperatorTypes DEF QInv
<1>2. lane \in [Printers -> LaneRecord]
  BY <1>1 DEF TypeOK, LaneOK
<1>3. UNCHANGED <<index, engine, status, inbox>>
  BY DEF Pause, Resume, Unblock
<1>4. CASE Pause(p) \/ Resume(p)
  <2>1. UNCHANGED seen
    BY <1>4 DEF Pause, Resume
  <2>2. \A q \in Printers :
           /\ lane'[q].waiting = lane[q].waiting /\ lane'[q].faults = lane[q].faults
           /\ lane'[q].inFlight = lane[q].inFlight
           /\ lane'[q].is = "absent" => lane[q].is = "absent"
           /\ lane'[q].is = "ready" => lane[q].is = "ready"
           /\ lane[q].blocked => lane'[q].blocked
    <3>1. CASE Pause(p)
      BY <3>1, <1>2 DEF Pause, LaneRecord
    <3>2. CASE Resume(p)
      BY <3>2, <1>2 DEF Resume, LaneRecord
    <3> QED
      BY <3>1, <3>2, <1>4
  <2> QED
    BY <2>1, <2>2, <1>1, <1>3, QuietStep
<1>5. CASE Unblock(p)
  <2>1. seen'.passes = seen.passes /\ seen'.unknown = seen.unknown \ {p}
    BY <1>1, <1>5 DEF Unblock, TypeOK, SeenOK
  <2>2. \A q \in Printers :
           /\ lane'[q].waiting = lane[q].waiting /\ lane'[q].faults = lane[q].faults
           /\ lane'[q].inFlight = lane[q].inFlight
           /\ lane'[q].is = lane[q].is
           /\ q \in seen'.unknown /\ lane[q].blocked => lane'[q].blocked
    BY <2>1, <1>2, <1>5 DEF Unblock, LaneRecord
  <2> QED
    BY <2>1, <2>2, <1>1, <1>3, QuietStep
<1> QED
  BY <1>4, <1>5

(* The reader's thread and the link.                                       *)
LEMMA ReaderKeeps ==
  ASSUME QInv, NEW p \in Printers,
         \/ \E flags \in SUBSET Faults : \E on \in SUBSET flags : MergeStatus(p, flags, on)
         \/ Dispatch(p) \/ ConnectionLost(p) \/ Connect(p)
  PROVE  QInv'
<1>1. TypeOK /\ TypeOK'
  BY ReaderTypes DEF QInv
<1>2. UNCHANGED <<lane, index, engine, seen>>
  BY DEF MergeStatus, Dispatch, ConnectionLost, Connect
<1>3. inbox'.completions = inbox.completions
  BY <1>1 DEF MergeStatus, Dispatch, ConnectionLost, Connect, PostEvent, Post, TypeOK, InboxOK
<1>4. Reports'
  <2>1. CASE \E flags \in SUBSET Faults : \E on \in SUBSET flags : MergeStatus(p, flags, on)
    <3>1. PICK flags \in SUBSET Faults : \E on \in SUBSET flags : MergeStatus(p, flags, on)
      BY <2>1
    <3>2. PICK on \in SUBSET flags : MergeStatus(p, flags, on)
      BY <3>1
    <3> QED
      BY <3>2, MergeStatusReports DEF QInv
  <2>2. CASE Dispatch(p)
    BY <2>2, DispatchReports DEF QInv
  <2>3. CASE ConnectionLost(p) \/ Connect(p)
    BY <2>3, LinkReports DEF QInv
  <2> QED
    BY <2>1, <2>2, <2>3
<1>5. KeysInv'
  BY <1>2, KeysStutter DEF QInv, KeysInv
<1>6. FlightInv'
  <2>1. seen.unknown \in SUBSET Printers
    BY <1>1 DEF TypeOK, SeenOK
  <2> QED
    BY <2>1, <1>2, <1>3, FlightStutter DEF QInv, FlightInv
<1> QED
  BY <1>1, <1>4, <1>5, <1>6 DEF QInv, KeysInv, FlightInv

(* A pass of the pump, on the queue's thread or on a host's.               *)
LEMMA PassKeeps ==
  ASSUME QInv, RunPump \/ Tick
  PROVE  QInv'
<1>1. TypeOK /\ TypeOK'
  BY PassTypes DEF QInv
<1>2. UNCHANGED status /\ seen'.passes = seen.passes /\ seen'.unknown = seen.unknown
  BY <1>1 DEF RunPump, Tick, TypeOK, SeenOK
<1>3. CASE Pump
  <2>1. KeysInv'
    BY <1>1, <1>2, <1>3, PumpKeys DEF QInv, KeysInv
  <2>2. FlightInv'
    BY <1>1, <1>2, <1>3, PumpFlight DEF QInv, FlightInv
  <2>3. Reports'
    BY <1>1, <1>2, <1>3, PumpReports DEF QInv
  <2> QED
    BY <2>1, <2>2, <2>3, <1>1 DEF QInv, KeysInv, FlightInv
<1>4. CASE UNCHANGED <<lane, index, engine, inbox, overdue>>
  BY <1>1, <1>2, <1>4, QuietStep
<1> QED
  BY <1>3, <1>4 DEF RunPump, Tick

(* The calls that hand jobs to a lane or to a worker, and a job's ending.  *)
LEMMA JobKeeps ==
  ASSUME QInv, NEW p \in Printers,
         \/ \E k \in Keys : Enqueue(k, p) \/ PrintDirect(k, p)
         \/ \E outcome \in Outcomes : JobEnds(p, outcome)
  PROVE  QInv'
<1> USE DEF QInv
<1>1. ASSUME NEW k \in Keys, Enqueue(k, p) PROVE QInv'
  <2>1. KeysInv' /\ FlightInv' /\ Reports' /\ TypeOK'
    BY <1>1, EnqueueKeys, EnqueueFlight, EnqueueReports, EnqueueTypes DEF KeysInv, FlightInv
  <2> QED
    BY <2>1 DEF KeysInv, FlightInv
<1>2. ASSUME NEW k \in Keys, PrintDirect(k, p) PROVE QInv'
  <2>1. KeysInv' /\ FlightInv' /\ TypeOK'
    BY <1>2, PrintDirectKeys, PrintDirectFlight, PrintDirectTypes DEF KeysInv, FlightInv
  <2>2. Reports'
    <3>1. UNCHANGED <<lane, status, inbox>>
      BY <1>2 DEF PrintDirect
    <3> QED
      BY <3>1, ReportsStutter DEF Reports
  <2> QED
    BY <2>1, <2>2 DEF KeysInv, FlightInv
<1>3. ASSUME NEW outcome \in Outcomes, JobEnds(p, outcome) PROVE QInv'
  <2>1. KeysInv' /\ FlightInv' /\ TypeOK'
    BY <1>3, JobEndsKeys, JobEndsFlight, JobEndsTypes DEF KeysInv, FlightInv
  <2>2. Reports'
    <3>1. UNCHANGED <<lane, status>> /\ inbox'.events = inbox.events
      BY <1>3 DEF JobEnds, Post, TypeOK, InboxOK
    <3> QED
      BY <3>1, ReportsStutter DEF Reports
  <2> QED
    BY <2>1, <2>2 DEF KeysInv, FlightInv
<1> QED
  BY <1>1, <1>2, <1>3

LEMMA NextKeeps ==
  ASSUME QInv, [Next]_vars
  PROVE  QInv'
<1>1. CASE QueueThread \/ Tick \/ Signal \/ Stop \/ UNCHANGED vars
  BY <1>1, ThreadKeeps, PassKeeps DEF QueueThread
<1>2. CASE \E k \in Keys : Deadline(k)
  BY <1>2, ThreadKeeps
<1>3. CASE \E k \in Keys, p \in Printers : Enqueue(k, p) \/ PrintDirect(k, p)
  BY <1>3, JobKeeps
<1>4. ASSUME NEW p \in Printers, Pause(p) \/ Resume(p) \/ Unblock(p)
      PROVE  QInv'
  BY <1>4, OperatorKeeps
<1>5. ASSUME NEW p \in Printers,
             \/ \E flags \in SUBSET Faults \ {{}} : \E on \in SUBSET flags : MergeStatus(p, flags, on)
             \/ Dispatch(p) \/ ConnectionLost(p) \/ RefreshStatus(p) \/ Connect(p)
      PROVE  QInv'
  BY <1>5, ReaderKeeps DEF RefreshStatus
<1>6. ASSUME NEW p \in Printers, Worker(p) PROVE QInv'
  BY <1>6, ReaderKeeps, JobKeeps DEF Worker
<1> QED
  BY <1>1, <1>2, <1>3, <1>4, <1>5, <1>6 DEF Next

-----------------------------------------------------------------------------
(* Theorems.                                                               *)

(* The invariant holds of every state the queue reaches, for any printers, *)
(* keys, faults, policy and depth.                                         *)
THEOREM QueueInductive == Spec => []QInv
<1>1. Init => QInv
  BY InitHolds
<1>2. QInv /\ [Next]_vars => QInv'
  BY NextKeeps
<1> QED
  BY <1>1, <1>2, PTL DEF Spec

(* pumpLocked(), enqueue() and the core's threads agree on every lane: at  *)
(* most one drained job until its ending is applied, what the queue ended  *)
(* never reached a worker, and a lane owed no event has the last status.   *)
THEOREM LanesAreSound == Spec => []LaneIsSound
<1>1. QInv => EndedByQueueNeverSent
  <2> SUFFICES ASSUME QInv, NEW k \in Keys, index[k].state \in {"expired", "overflowed"}
               PROVE  /\ seen.passes[k] = <<>>
                      /\ \A p \in Printers :
                           /\ ~Contains(lane[p].waiting, k)
                           /\ \A i \in DOMAIN engine[p] : engine[p][i].key # k
    BY DEF EndedByQueueNeverSent
  <2>1. seen.passes[k] = <<>>
    BY DEF QInv, IndexTellsPasses
  <2>2. \A p \in Printers : ~Held(k, p) /\ ~Runs(k, p)
    BY DEF QInv, HeldOnce, RunsOnce
  <2>3. \A p \in Printers : DOMAIN engine[p] = 1 .. Len(engine[p])
    BY LenProperties DEF QInv, TypeOK, EngineOK
  <2> QED
    BY <2>1, <2>2, <2>3 DEF Held, Runs
<1>2. QInv => LaneAgreesWithStatus
  <2> SUFFICES ASSUME QInv, NEW p \in Printers, lane[p].is = "ready", inbox.events = <<>>,
                      status[p].toSend = <<>>
               PROVE  lane[p].faults \ {"link"} = status[p].faults
    BY DEF LaneAgreesWithStatus
  <2>1. \A f \in Faults : About(p, f) = {} /\ ~Announced(p, f)
    BY EmptySeq DEF About, Announced
  <2>2. \A f \in Faults : f \in lane[p].faults <=> f \in status[p].faults
    BY <2>1 DEF QInv, Reports, ReportsOf, SettledIsTrue
  <2>3. lane[p].faults \in SUBSET (Faults \cup {"link"}) /\ status[p].faults \in SUBSET Faults
    BY DEF QInv, TypeOK, LaneOK, LaneRecord, StatusOK
  <2> QED
    BY <2>2, <2>3, QueueAssumption
<1>3. QInv => LaneIsSound
  BY <1>1, <1>2 DEF QInv, LaneIsSound
<1> QED
  BY <1>3, QueueInductive, PTL

(* reserve() and submit() between them give a key at most one pass through *)
(* a worker that may have put it on paper, and none waits behind it.       *)
THEOREM KeysPassOnce == Spec => []OnePassPerKey
<1>1. QInv => OnePassPerKey
  <2> SUFFICES ASSUME QInv, NEW k \in Keys
               PROVE  LET passes == seen.passes[k]
                      IN /\ \A i \in 1 .. Len(passes) - 1 : passes[i] = "Failed"
                         /\ passes # <<>> /\ Last(passes) # "Failed"
                              => /\ ~\E p \in Printers : Contains(lane[p].waiting, k)
                                 /\ \A p \in Printers : \A i \in DOMAIN engine[p] :
                                      engine[p][i].key # k
    BY DEF OnePassPerKey
  <2>1. /\ seen.passes[k] \in Seq(Outcomes) /\ Len(seen.passes[k]) \in Nat
        /\ seen.passes[k] # <<>> => Len(seen.passes[k]) >= 1
        /\ index[k].state \in JobStates
        /\ \A p \in Printers : DOMAIN engine[p] = 1 .. Len(engine[p])
    BY LenProperties, EmptySeq DEF QInv, TypeOK, SeenOK, IndexOK, EngineOK
  <2>2. CASE index[k].state \in {"none", "held", "expired", "overflowed"}
    <3>1. seen.passes[k] = <<>>
      BY <2>2 DEF QInv, IndexTellsPasses
    <3> QED
      BY <3>1, EmptySeq
  <2>3. CASE index[k].state \in {"sent", "Failed"}
    <3>1. \A i \in 1 .. Len(seen.passes[k]) : seen.passes[k][i] = "Failed"
      BY <2>3 DEF QInv, IndexTellsPasses, OnlyFailed
    <3> QED
      BY <3>1, <2>1 DEF Last
  <2>4. CASE index[k].state \in {"Done", "Unknown"}
    <3>1. \A i \in 1 .. Len(seen.passes[k]) - 1 : seen.passes[k][i] = "Failed"
      BY <2>4 DEF QInv, IndexTellsPasses, OnlyFailed
    <3>2. \A p \in Printers : ~Held(k, p) /\ ~Runs(k, p)
      BY <2>4 DEF QInv, HeldOnce, RunsOnce
    <3> QED
      BY <3>1, <3>2, <2>1 DEF Held, Runs
  <2> QED
    BY <2>1, <2>2, <2>3, <2>4 DEF JobStates, Outcomes
<1> QED
  BY <1>1, QueueInductive, PTL

(* Only enqueue() on a drainable lane and a pass of the pump hand a worker *)
(* a job of the queue.                                                     *)
LEMMA WhatStarts ==
  ASSUME QInv, [Next]_vars, NEW p \in Printers, Starts(p)
  PROVE  \/ \E k \in Keys : /\ Reserved(k) /\ Drainable(Lane(p))
                            /\ Last(engine'[p]).key = k
         \/ \E n \in 1 .. Len(Left(p)) :
              Pump /\ StartsAt(p, n) /\ Last(engine'[p]).key = Left(p)[n]
<1>1. engine[p] \in Seq(Item) /\ Len(engine[p]) \in Nat /\ TypeOK
  BY LenProperties DEF QInv, TypeOK, EngineOK
<1>2. ASSUME NEW e \in Item, engine'[p] = Append(engine[p], e)
      PROVE  Last(engine'[p]) = e
  BY <1>1, <1>2, EngineAppend DEF Last
<1>3. engine'[p] # engine[p]
  BY <1>1 DEF Starts
<1>4. ASSUME NEW k \in Keys, NEW q \in Printers, Enqueue(k, q)
      PROVE  Reserved(k) /\ Drainable(Lane(p)) /\ Last(engine'[p]).key = k
  <2>1. /\ Reserved(k) /\ Drainable(Lane(q))
        /\ engine' = [engine EXCEPT ![q] = Append(@, Sent(k))]
    BY <1>3, <1>4 DEF Enqueue
  <2>2. q = p /\ engine'[p] = Append(engine[p], Sent(k))
    BY <2>1, <1>1, <1>3 DEF TypeOK, EngineOK
  <2>3. Sent(k) \in Item /\ Sent(k).key = k
    BY DEF Sent, Item
  <2> QED
    BY <2>1, <2>2, <2>3, <1>2
<1>5. ASSUME NEW k \in Keys, NEW q \in Printers, PrintDirect(k, q)
      PROVE  FALSE
  <2> DEFINE e == [key |-> k, drained |-> FALSE]
  <2>1. engine' = [engine EXCEPT ![q] = Append(@, e)] /\ e \in Item /\ ~e.drained
    BY <1>5 DEF PrintDirect, Item
  <2> HIDE DEF e
  <2>2. engine'[p] = Append(engine[p], e)
    BY <2>1, <1>1, <1>3 DEF TypeOK, EngineOK
  <2> QED
    BY <2>1, <2>2, <1>2 DEF Starts
<1>6. ASSUME NEW q \in Printers, NEW outcome \in Outcomes, JobEnds(q, outcome)
      PROVE  FALSE
  <2>1. engine[q] \in Seq(Item) /\ engine[q] # <<>> /\ engine' = [engine EXCEPT ![q] = Tail(@)]
    BY <1>1, <1>6, EndingIs
  <2>2. p = q /\ engine'[p] = Tail(engine[p])
    BY <2>1, <1>1, <1>3 DEF TypeOK, EngineOK
  <2>3. Len(engine'[p]) = Len(engine[p]) - 1
    BY <2>1, <2>2, EngineTail
  <2> QED
    BY <2>3, <1>1 DEF Starts
<1>7. CASE Pump
  <2>1. CASE StartsNone(p)
    BY <2>1, <1>1, <1>3, <1>7, PumpIs DEF StartsNone
  <2>2. ASSUME NEW n \in 1 .. Len(Left(p)), StartsAt(p, n)
        PROVE  Last(engine'[p]).key = Left(p)[n]
    <3>1. engine'[p] = Append(engine[p], Sent(Left(p)[n]))
      BY <2>2, <1>1, <1>7, PumpIs DEF StartsAt
    <3>2. Left(p)[n] \in Keys
      BY <1>1, DecidedIs, ElementOfSeq
    <3>3. Sent(Left(p)[n]) \in Item /\ Sent(Left(p)[n]).key = Left(p)[n]
      BY <3>2 DEF Sent, Item
    <3> QED
      BY <3>1, <3>3, <1>2
  <2> QED
    BY <2>1, <2>2, <1>1, <1>7, PumpedIs
<1>8. CASE QueueThread \/ Tick
  BY <1>3, <1>7, <1>8 DEF QueueThread, RunPump, RunRest, RunTimeout, Tick
<1>9. ~(Signal \/ Stop \/ UNCHANGED vars)
  BY <1>3 DEF Signal, Stop, vars
<1>10. ASSUME NEW k \in Keys PROVE ~Deadline(k)
  BY <1>3 DEF Deadline
<1>11. ASSUME NEW q \in Printers
       PROVE  ~(Pause(q) \/ Resume(q) \/ Unblock(q) \/ Dispatch(q) \/ ConnectionLost(q)
                  \/ RefreshStatus(q) \/ Connect(q)
                  \/ \E flags \in SUBSET Faults \ {{}} : \E on \in SUBSET flags :
                       MergeStatus(q, flags, on))
  BY <1>3 DEF Pause, Resume, Unblock, Dispatch, ConnectionLost, RefreshStatus, Connect,
              MergeStatus
<1>12. ASSUME NEW q \in Printers PROVE ~Worker(q)
  BY <1>6, <1>11 DEF Worker
<1> QED
  BY <1>4, <1>5, <1>8, <1>9, <1>10, <1>11, <1>12 DEF Next

(* Rule 2 of the queue: behind a job that ended Unknown neither enqueue()  *)
(* nor a pass starts anything until unblock(), even while the ending is    *)
(* still in the inbox.                                                     *)
THEOREM UnknownEndsDraining == Spec => UnknownStopsTheLane
<1>1. ASSUME QInv, [Next]_vars, NEW p \in seen.unknown PROVE ~Starts(p)
  <2> SUFFICES ASSUME Starts(p) PROVE FALSE
    OBVIOUS
  <2>1. TypeOK /\ p \in Printers
    BY <1>1 DEF QInv, TypeOK, SeenOK
  <2>2. lane[p].blocked \/ (lane[p].inFlight /\ lane[p].is # "absent"
           /\ \E i \in DOMAIN inbox.completions :
                inbox.completions[i] = [printer |-> p, state |-> "Unknown"])
    BY <1>1, <2>1, UnknownHolds DEF QInv, FlightInv
  <2>3. CASE \E k \in Keys : Reserved(k) /\ Drainable(Lane(p))
    BY <2>1, <2>2, <2>3, LaneIs DEF Drainable
  <2>4. CASE \E n \in 1 .. Len(Left(p)) : StartsAt(p, n)
    <3>1. ~Applied(p).blocked
      BY <2>1, <2>4, DecidedIs DEF StartsAt, Drainable
    <3> QED
      BY <3>1, <2>1, <2>2, AppliedIs
  <2> QED
    BY <1>1, <2>1, <2>3, <2>4, WhatStarts
<1>2. QInv /\ [Next]_vars => [\A p \in seen.unknown : ~Starts(p)]_vars
  BY <1>1
<1> QED
  BY <1>2, QueueInductive, PTL DEF Spec, UnknownStopsTheLane

(* selectLocked() with the pass around it: a job the pump starts leaves no *)
(* job behind that goes before it, by priority or by arrival.              *)
THEOREM DrainsInOrder == Spec => DrainInOrder
<1>1. ASSUME QInv, [Next]_vars, NEW p \in Printers, NEW i \in DOMAIN lane[p].waiting,
             Starts(p), Last(engine'[p]).key = lane[p].waiting[i],
             NEW j \in DOMAIN lane[p].waiting, Before(lane[p], j, i)
      PROVE  ~Contains(lane'[p].waiting, lane[p].waiting[j])
  <2> DEFINE w == lane[p].waiting
             t == Left(p)
  <2>1. TypeOK /\ HeldOnce
    BY <1>1 DEF QInv
  <2>2. /\ w \in Seq(Keys) /\ DOMAIN w = 1 .. Len(w) /\ Len(w) \in Nat
        /\ t \in Seq(Keys) /\ DOMAIN t = 1 .. Len(t) /\ Len(t) \in Nat
    BY <2>1, DecidedIs, LenProperties DEF TypeOK, LaneOK, LaneRecord
  <2>3. Held(w[i], p) /\ w[i] \in Keys
    BY <2>2 DEF Held, Contains
  <2>4. ~Reserved(w[i])
    BY <2>1, <2>3 DEF HeldOnce, Reserved
  <2>5. PICK n \in 1 .. Len(t) : Pump /\ StartsAt(p, n) /\ w[i] = t[n]
    BY <1>1, <2>4, WhatStarts
  <2>6. PICK h : Picks(h, t, w, Len(w), overdue)
    BY <2>2, WithoutPicks DEF Left
  <2>7. /\ h \in [1 .. Len(t) -> 1 .. Len(w)]
        /\ \A a, b \in 1 .. Len(t) : a < b => h[a] < h[b]
        /\ \A a \in 1 .. Len(t) : t[a] = w[h[a]]
        /\ \A m \in 1 .. Len(w) : w[m] \notin overdue => \E a \in 1 .. Len(t) : h[a] = m
    BY <2>6 DEF Picks
  <2> SUFFICES ASSUME Contains(lane'[p].waiting, w[j]) PROVE FALSE
    OBVIOUS
  <2>8. w[j] \notin overdue /\ w[j] # t[n]
    <3>1. Pumped(p).started = {t[n]}
      BY <2>5 DEF StartsAt
    <3>2. PICK x : x = w[j]
      OBVIOUS
    <3>3. Held(x, p)'
      BY <3>2 DEF Held
    <3>4. x \notin overdue /\ x \notin Pumped(p).started
      BY <3>3, <2>1, <2>5, PumpLane
    <3> QED
      BY <3>1, <3>2, <3>4
  <2>9. h[n] = i
    <3>1. w[h[n]] = w[i] /\ h[n] \in 1 .. Len(w)
      BY <2>5, <2>7
    <3> QED
      BY <3>1, <2>1, <2>2 DEF HeldOnce, IsInjective
  <2>10. PICK m \in 1 .. Len(t) : h[m] = j
    BY <2>2, <2>7, <2>8
  <2>11. t[m] = w[j] /\ m # n
    BY <2>7, <2>8, <2>10
  <2>12. Decided(p).waiting = t /\ t # <<>> /\ n = Select(Decided(p))
    BY <2>1, <2>5, DecidedIs DEF StartsAt
  <2>13. Before(Decided(p), n, m)
    BY <2>2, <2>11, <2>12, SelectIsFirst
  <2> HIDE DEF w, t
  <2>14. IF ByPriority /\ (w[i] \in Urgent) # (w[j] \in Urgent)
           THEN w[i] \in Urgent ELSE n < m
    BY <2>5, <2>11, <2>12, <2>13 DEF Before
  <2>15. IF ByPriority /\ (w[j] \in Urgent) # (w[i] \in Urgent)
           THEN w[j] \in Urgent ELSE j < i
    BY <1>1 DEF Before, w
  <2>16. n < m /\ j < i
    BY <2>14, <2>15
  <2>17. i < j
    BY <2>7, <2>9, <2>10, <2>16
  <2>18. i \in Nat /\ j \in Nat
    BY <2>2, <2>7, <2>9, <2>10
  <2> QED
    BY <2>16, <2>17, <2>18
<1>2. QInv /\ [Next]_vars =>
        [\A p \in Printers : \A i \in DOMAIN lane[p].waiting :
           (Starts(p) /\ Last(engine'[p]).key = lane[p].waiting[i])
             => \A j \in DOMAIN lane[p].waiting :
                  Before(lane[p], j, i) => ~Contains(lane'[p].waiting, lane[p].waiting[j])]_vars
  BY <1>1
<1> QED
  BY <1>2, QueueInductive, PTL DEF Spec, DrainInOrder

=============================================================================
