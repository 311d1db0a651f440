---------------------------- MODULE TimerProofs ----------------------------
(***************************************************************************)
(* The timers' invariants, for one application thread, the timer thread    *)
(* and the tick, when callbacks act on their own timers and detach none    *)
(* and the thread leaves the kinds of the timers alone: the lists are      *)
(* ordered, an activated timer is listed, fires in time and not after it   *)
(* was stopped, and the timer thread does not oversleep.                   *)
(***************************************************************************)
EXTENDS Timer, SequenceTheorems, WellFoundedInduction, TLAPS

Injective(l) == \A p, q \in DOMAIN l : l[p] = l[q] => p = q

Members(l) == {l[p] : p \in DOMAIN l}

\* A set of numbers that is not empty has a smallest one.
LEMMA SmallestExists ==
  ASSUME NEW G \in SUBSET Nat, G # {}
  PROVE  \E p \in G : \A q \in G : p <= q
<1> DEFINE R == OpToRel(<, Nat)
<1>1. IsWellFoundedOn(R, Nat)
  BY NatLessThanWellFounded
<1>2. \A x, y \in Nat : <<x, y>> \in R <=> x < y
  BY DEF OpToRel
<1> HIDE DEF R
<1>3. PICK x \in G : \A y \in G : <<y, x>> \notin R
  BY <1>1, WFMin
<1>4. ASSUME NEW q \in G PROVE x <= q
  <2>1. x \in Nat /\ q \in Nat
    OBVIOUS
  <2>2. ~ (q < x)
    BY <1>2, <1>3, <2>1
  <2> QED BY <2>1, <2>2
<1> QED BY <1>4

\* What SequencesExt!RemoveAt returns: the sequence without its i-th element.
LEMMA RemoveAtFacts ==
  ASSUME NEW T, NEW l \in Seq(T), NEW i \in DOMAIN l
  PROVE  LET r == RemoveAt(l, i)
         IN  /\ r \in Seq(T)
             /\ Len(r) = Len(l) - 1
             /\ \A j \in 1 .. Len(r) : r[j] = IF j < i THEN l[j] ELSE l[j + 1]
<1> DEFINE u == SubSeq(l, 1, i - 1)
           v == SubSeq(l, i + 1, Len(l))
<1>1. DOMAIN l = 1 .. Len(l) /\ Len(l) \in Nat
  OBVIOUS
<1>2. /\ u \in Seq(T) /\ Len(u) = i - 1
      /\ \A j \in 1 .. i - 1 : u[j] = l[j]
  BY <1>1
<1>3. /\ v \in Seq(T) /\ Len(v) = Len(l) - i
      /\ \A j \in 1 .. Len(l) - i : v[j] = l[i + j]
  BY <1>1
<1> HIDE DEF u, v
<1>4. /\ u \o v \in Seq(T) /\ Len(u \o v) = Len(u) + Len(v)
      /\ \A j \in 1 .. Len(u) + Len(v) :
           (u \o v)[j] = IF j <= Len(u) THEN u[j] ELSE v[j - Len(u)]
  BY <1>2, <1>3, ConcatProperties
<1>5. ASSUME NEW j \in 1 .. Len(l) - 1
      PROVE  (u \o v)[j] = IF j < i THEN l[j] ELSE l[j + 1]
  <2>1. CASE j < i
    BY <1>1, <1>2, <1>3, <1>4, <2>1
  <2>2. CASE j >= i
    <3>1. (u \o v)[j] = v[j - (i - 1)]
      BY SMTT(30), <1>1, <1>2, <1>3, <1>4, <2>2
    <3>2. j - (i - 1) \in 1 .. Len(l) - i /\ i + (j - (i - 1)) = j + 1
      BY <1>1, <2>2
    <3> QED BY <3>1, <3>2, <1>3, <2>2
  <2>3. j < i \/ j >= i
    BY <1>1
  <2> QED BY <2>1, <2>2, <2>3
<1>6. Len(u) + Len(v) = Len(l) - 1
  BY <1>1, <1>2, <1>3
<1> QED BY <1>4, <1>5, <1>6 DEF RemoveAt, u, v

\* What SequencesExt!InsertAt returns: the sequence with t before its i-th element.
LEMMA InsertAtFacts ==
  ASSUME NEW T, NEW l \in Seq(T), NEW t \in T, NEW i \in 1 .. Len(l) + 1
  PROVE  LET r == InsertAt(l, i, t)
         IN  /\ r \in Seq(T) /\ Len(r) = Len(l) + 1
             /\ \A j \in 1 .. Len(l) + 1 :
                  r[j] = IF j < i THEN l[j] ELSE IF j = i THEN t ELSE l[j - 1]
<1> DEFINE r == InsertAt(l, i, t)
<1>1. i \in 1 .. Len(l) + 1 /\ Len(l) \in Nat /\ DOMAIN l = 1 .. Len(l)
  OBVIOUS
<1> DEFINE a == SubSeq(l, 1, i - 1)
           b == SubSeq(l, i, Len(l))
<1>2. a \in Seq(T) /\ Len(a) = i - 1 /\ \A j \in 1 .. i - 1 : a[j] = l[j]
  BY <1>1
<1>3. /\ b \in Seq(T) /\ Len(b) = Len(l) - i + 1
      /\ \A j \in 1 .. Len(l) - i + 1 : b[j] = l[i + j - 1]
  BY <1>1
<1>4. r = a \o <<t>> \o b
  BY DEF InsertAt
<1> HIDE DEF a, b, r
<1>5. /\ a \o <<t>> \in Seq(T) /\ Len(a \o <<t>>) = i
      /\ \A j \in 1 .. i : (a \o <<t>>)[j] = IF j < i THEN l[j] ELSE t
  BY <1>1, <1>2
<1> DEFINE c == a \o <<t>>
<1>6. c \in Seq(T) /\ Len(c) = i /\ r = c \o b
      /\ \A j \in 1 .. i : c[j] = IF j < i THEN l[j] ELSE t
  BY <1>4, <1>5
<1> HIDE DEF c
<1>7. r \in Seq(T) /\ Len(r) = Len(l) + 1
  <2>1. c \in Seq(T) /\ b \in Seq(T) /\ r = c \o b
    BY <1>3, <1>6
  <2>2. r \in Seq(T) /\ Len(r) = Len(c) + Len(b)
    BY <2>1, ConcatProperties
  <2>3. Len(c) = i /\ Len(b) = Len(l) - i + 1 /\ i \in Nat /\ Len(l) \in Nat
    BY <1>1, <1>3, <1>6
  <2> QED BY <2>2, <2>3
<1>8. ASSUME NEW j \in 1 .. Len(l) + 1
      PROVE  r[j] = IF j < i THEN l[j] ELSE IF j = i THEN t ELSE l[j - 1]
  <2>1. r[j] = IF j <= i THEN c[j] ELSE b[j - i]
    BY <1>1, <1>3, <1>6, <1>8
  <2>2. CASE j <= i
    BY <1>1, <1>6, <1>8, <2>1, <2>2
  <2>3. CASE j > i
    <3>1. j - i \in 1 .. Len(l) - i + 1 /\ i + (j - i) - 1 = j - 1
      BY <1>1, <1>8, <2>3
    <3>2. b[j - i] = l[j - 1]
      BY <1>3, <3>1
    <3> QED BY <1>1, <2>1, <2>3, <3>2
  <2> QED BY <1>1, <1>8, <2>2, <2>3
<1> QED BY <1>7, <1>8 DEF r

Ordered(l, due) == \A p, q \in DOMAIN l : p < q => due[l[p]] <= due[l[q]]

\* Taking a timer out of a list (rt_list_remove) keeps the others, in their order.
LEMMA UnlinkedFacts ==
  ASSUME NEW T, NEW l \in Seq(T), NEW i, Injective(l)
  PROVE  LET r == Unlinked(l, i)
         IN  /\ r \in Seq(T) /\ Injective(r)
             /\ Members(r) = Members(l) \ {i}
             /\ \A due : Ordered(l, due) => Ordered(r, due)
<1>1. CASE ~ \E q \in DOMAIN l : l[q] = i
  BY <1>1 DEF Unlinked, Members
<1>2. CASE \E q \in DOMAIN l : l[q] = i
  <2> DEFINE k == CHOOSE q \in DOMAIN l : l[q] = i
             r == RemoveAt(l, k)
  <2>1. k \in DOMAIN l /\ l[k] = i
    BY <1>2
  <2>2. Unlinked(l, i) = r
    BY <1>2 DEF Unlinked
  <2>3. r \in Seq(T) /\ Len(r) = Len(l) - 1
    BY <2>1, RemoveAtFacts
  <2>4. \A j \in 1 .. Len(r) : r[j] = IF j < k THEN l[j] ELSE l[j + 1]
    BY <2>1, RemoveAtFacts
  <2> HIDE DEF k, r
  <2>5. /\ DOMAIN r = 1 .. Len(l) - 1 /\ DOMAIN l = 1 .. Len(l)
        /\ Len(l) \in Nat /\ k \in 1 .. Len(l)
    BY <2>1, <2>3
  <2> DEFINE f(j) == IF j < k THEN j ELSE j + 1
  <2>6. ASSUME NEW j \in DOMAIN r
        PROVE  f(j) \in DOMAIN l /\ f(j) # k /\ r[j] = l[f(j)]
    BY <2>3, <2>4, <2>5
  <2>7. ASSUME NEW j1 \in DOMAIN r, NEW j2 \in DOMAIN r, j1 < j2
        PROVE  f(j1) < f(j2)
    BY <2>5, <2>7
  <2>8. ASSUME NEW j \in DOMAIN l, j # k
        PROVE  \E m \in DOMAIN r : r[m] = l[j]
    <3>1. CASE j < k
      BY <2>3, <2>4, <2>5, <3>1
    <3>2. CASE j > k
      <4>1. j - 1 \in DOMAIN r /\ r[j - 1] = l[j]
        BY <2>3, <2>4, <2>5, <3>2
      <4> QED BY <4>1
    <3> QED BY <2>5, <2>8, <3>1, <3>2
  <2>9. \A j \in DOMAIN r : j \in Int
    BY <2>5
  <2> HIDE DEF f
  <2>10. Injective(r)
    <3>1. ASSUME NEW j1 \in DOMAIN r, NEW j2 \in DOMAIN r, r[j1] = r[j2], j1 < j2
          PROVE  FALSE
      <4>1. f(j1) = f(j2)
        BY <2>6, <3>1 DEF Injective
      <4>2. f(j1) < f(j2) /\ f(j1) \in Nat
        BY <2>5, <2>6, <2>7, <3>1
      <4> QED BY <4>1, <4>2
    <3> QED BY <2>9, <3>1 DEF Injective
  <2>11. Members(r) = Members(l) \ {i}
    <3>1. ASSUME NEW x \in Members(r) PROVE x \in Members(l) \ {i}
      BY <2>1, <2>6 DEF Members, Injective
    <3>2. ASSUME NEW x \in Members(l) \ {i} PROVE x \in Members(r)
      BY <2>1, <2>8 DEF Members
    <3> QED BY <3>1, <3>2
  <2>12. ASSUME NEW due, Ordered(l, due) PROVE Ordered(r, due)
    BY <2>6, <2>7, <2>12 DEF Ordered
  <2> QED BY <2>2, <2>3, <2>10, <2>11, <2>12
<1> QED BY <1>1, <1>2

\* The place that the j-th timer had before one was put at place k.
From(j, k) == IF j < k THEN j ELSE j - 1

LEMMA InsertPlaces ==
  ASSUME NEW T, NEW l \in Seq(T), NEW i \in T, NEW k \in 1 .. Len(l) + 1
  PROVE  LET r == InsertAt(l, k, i)
         IN  /\ r \in Seq(T) /\ DOMAIN r = 1 .. Len(l) + 1 /\ r[k] = i
             /\ \A j \in DOMAIN r : j # k => /\ From(j, k) \in DOMAIN l
                                           /\ r[j] = l[From(j, k)]
             /\ \A j \in DOMAIN l : \E m \in DOMAIN r : r[m] = l[j]
<1> DEFINE r == InsertAt(l, k, i)
<1>1. r \in Seq(T) /\ Len(r) = Len(l) + 1
  BY InsertAtFacts
<1>2. \A j \in 1 .. Len(l) + 1 :
        r[j] = IF j < k THEN l[j] ELSE IF j = k THEN i ELSE l[j - 1]
  BY InsertAtFacts
<1> HIDE DEF r
<1>3. /\ DOMAIN l = 1 .. Len(l) /\ Len(l) \in Nat
      /\ DOMAIN r = 1 .. Len(l) + 1
  BY <1>1
<1>4. r[k] = i
  BY <1>2, <1>3
<1>5. ASSUME NEW j \in DOMAIN r, j # k
      PROVE  From(j, k) \in DOMAIN l /\ r[j] = l[From(j, k)]
  BY <1>2, <1>3, <1>5 DEF From
<1>6. ASSUME NEW j \in DOMAIN l
      PROVE  \E m \in DOMAIN r : r[m] = l[j]
  <2>1. CASE j < k
    BY <1>2, <1>3, <2>1
  <2>2. CASE j >= k
    <3>1. j + 1 \in DOMAIN r /\ r[j + 1] = l[j]
      BY <1>2, <1>3, <2>2
    <3> QED BY <3>1
  <2> QED BY <1>3, <2>1, <2>2
<1> QED BY <1>1, <1>3, <1>4, <1>5, <1>6 DEF r

\* A list of members of T is a sequence over T.
LEMMA SeqOfMembers ==
  ASSUME NEW S, NEW T, NEW l \in Seq(S), \A x \in Members(l) : x \in T
  PROVE  l \in Seq(T)
<1>1. \A p \in 1 .. Len(l) : l[p] \in T
  BY DEF Members
<1> QED BY <1>1

\* Putting a timer into a list it is not in adds it to the members.
LEMMA InsertedFacts ==
  ASSUME NEW T, NEW l \in Seq(T), NEW i \in T, NEW k \in 1 .. Len(l) + 1,
         Injective(l), i \notin Members(l)
  PROVE  LET r == InsertAt(l, k, i)
         IN  /\ r \in Seq(T) /\ Injective(r)
             /\ Members(r) = Members(l) \cup {i}
<1> DEFINE r == InsertAt(l, k, i)
<1>1. /\ r \in Seq(T) /\ DOMAIN r = 1 .. Len(l) + 1 /\ r[k] = i
      /\ DOMAIN l = 1 .. Len(l) /\ Len(l) \in Nat
  BY InsertPlaces
<1>2. \A j \in DOMAIN r : j # k => From(j, k) \in DOMAIN l /\ r[j] = l[From(j, k)]
  BY InsertPlaces
<1>3. \A j \in DOMAIN l : \E m \in DOMAIN r : r[m] = l[j]
  BY InsertPlaces
<1> HIDE DEF r
<1>4. \A j \in DOMAIN l : l[j] # i
  BY DEF Members
<1>5. ASSUME NEW j1 \in DOMAIN r, NEW j2 \in DOMAIN r, j1 # k, j2 # k,
             From(j1, k) = From(j2, k)
      PROVE  j1 = j2
  BY <1>1, <1>5 DEF From
<1>6. Injective(r)
  <2>1. ASSUME NEW j1 \in DOMAIN r, NEW j2 \in DOMAIN r, r[j1] = r[j2]
        PROVE  j1 = j2
    <3>1. CASE j1 = k \/ j2 = k
      BY <1>1, <1>2, <1>4, <2>1, <3>1
    <3>2. CASE j1 # k /\ j2 # k
      <4>1. From(j1, k) = From(j2, k)
        BY <1>2, <2>1, <3>2 DEF Injective
      <4> QED BY <1>5, <3>2, <4>1
    <3> QED BY <3>1, <3>2
  <2> QED BY <2>1 DEF Injective
<1>7. k \in DOMAIN r
  BY <1>1
<1>8. Members(r) = Members(l) \cup {i}
  <2>1. ASSUME NEW x \in Members(r) PROVE x \in Members(l) \cup {i}
    BY <1>1, <1>2 DEF Members
  <2>2. ASSUME NEW x \in Members(l) \cup {i} PROVE x \in Members(r)
    BY <1>1, <1>3, <1>7 DEF Members
  <2> QED BY <2>1, <2>2
<1> QED BY <1>1, <1>6, <1>8 DEF r

\* The order is kept when nothing before the place is due later and nothing after
\* it is due earlier.
LEMMA InsertedOrder ==
  ASSUME NEW T, NEW l \in Seq(T), NEW i \in T, NEW k \in 1 .. Len(l) + 1,
         NEW due \in [T -> Int], Ordered(l, due),
         \A p \in DOMAIN l : p < k => due[l[p]] <= due[i],
         \A p \in DOMAIN l : p >= k => due[i] <= due[l[p]]
  PROVE  Ordered(InsertAt(l, k, i), due)
<1> DEFINE r == InsertAt(l, k, i)
<1>1. /\ DOMAIN r = 1 .. Len(l) + 1 /\ r[k] = i
      /\ DOMAIN l = 1 .. Len(l) /\ Len(l) \in Nat
  <2> HIDE DEF r
  <2>1. /\ DOMAIN r = 1 .. Len(l) + 1 /\ r[k] = i
    BY InsertPlaces DEF r
  <2> QED BY <2>1
<1>2. \A j \in DOMAIN r : j # k => From(j, k) \in DOMAIN l /\ r[j] = l[From(j, k)]
  BY InsertPlaces
<1> HIDE DEF r
<1>3. ASSUME NEW j1 \in DOMAIN r, NEW j2 \in DOMAIN r, j1 < j2
      PROVE  due[r[j1]] <= due[r[j2]]
  <2>1. CASE j1 = k
    <3>1. From(j2, k) >= k /\ j2 # k
      BY <1>1, <1>3, <2>1 DEF From
    <3> QED BY <1>1, <1>2, <2>1, <3>1
  <2>2. CASE j2 = k
    <3>1. From(j1, k) < k /\ j1 # k
      BY <1>1, <1>3, <2>2 DEF From
    <3> QED BY <1>1, <1>2, <2>2, <3>1
  <2>3. CASE j1 # k /\ j2 # k
    <3>1. From(j1, k) < From(j2, k)
      BY <1>1, <1>3, <2>3 DEF From
    <3> QED BY <1>2, <2>3, <3>1 DEF Ordered
  <2> QED BY <2>1, <2>2, <2>3
<1> QED BY <1>3 DEF Ordered, r

-----------------------------------------------------------------------------
(***************************************************************************)
(* Ticks modulo TickMax + 1.                                               *)
(***************************************************************************)
\* The timeout and the ticks that are left say the same at time now.
Synced(now, timeout, due) ==
  /\ timeout \in 0 .. TickMax
  /\ - MaxLate <= due /\ due + MaxLate < Half
  /\ \/ timeout = now + due
     \/ timeout = now + due - (TickMax + 1)
     \/ timeout = now + due + (TickMax + 1)

LEMMA Constants ==
  /\ TickMax \in Nat /\ Half \in Nat /\ MaxLate \in Nat
  /\ 2 * Half <= TickMax /\ MaxLate < Half
<1>1. Time[ThreadTimer] \in Delay
  BY TimerAssumption DEF Timer
<1>2. /\ Time[ThreadTimer] \in Nat \ {0}
      /\ Time[ThreadTimer] + MaxLate < Half
  BY <1>1, TimerAssumption
<1>3. TickMax \in Nat /\ Half \in Nat /\ MaxLate \in Nat /\ 2 * Half <= TickMax
  BY TimerAssumption DEF Half
<1> QED BY <1>2, <1>3

LEMMA ModFacts ==
  ASSUME NEW n \in Nat \ {0}, NEW x \in Int
  PROVE  /\ x \in 0 .. n - 1 => x % n = x
         /\ x \in n .. 2 * n - 1 => x % n = x - n
         /\ x \in - n .. - 1 => x % n = x + n
  OBVIOUS

LEMMA MinusFacts ==
  ASSUME NEW a \in 0 .. TickMax, NEW b \in 0 .. TickMax
  PROVE  Minus(a, b) = IF a >= b THEN a - b ELSE a - b + TickMax + 1
<1> DEFINE n == TickMax + 1
           x == a - b
<1>1. Minus(a, b) = x % n
  BY DEF Minus
<1>2. n \in Nat \ {0} /\ x \in Int /\ n = TickMax + 1 /\ x = a - b
  BY Constants
<1>3. /\ a >= b => x \in 0 .. n - 1
      /\ ~ (a >= b) => x \in - n .. - 1
  BY Constants
<1> HIDE DEF n, x
<1>4. /\ a >= b => x % n = x
      /\ ~ (a >= b) => x % n = x + n
  BY <1>2, <1>3, ModFacts
<1>5. x + n = a - b + TickMax + 1
  BY <1>2, Constants
<1> QED BY <1>1, <1>2, <1>4, <1>5, Zenon

LEMMA AddFacts ==
  ASSUME NEW a \in 0 .. TickMax, NEW b \in 0 .. TickMax
  PROVE  Add(a, b) = IF a + b <= TickMax THEN a + b ELSE a + b - (TickMax + 1)
<1> DEFINE n == TickMax + 1
           x == a + b
<1>1. Add(a, b) = x % n
  BY DEF Add
<1>2. n \in Nat \ {0} /\ x \in Int /\ n = TickMax + 1 /\ x = a + b
  BY Constants
<1>3. /\ a + b <= TickMax => x \in 0 .. n - 1
      /\ ~ (a + b <= TickMax) => x \in n .. 2 * n - 1
  BY Constants
<1> HIDE DEF n, x
<1>4. /\ a + b <= TickMax => x % n = x
      /\ ~ (a + b <= TickMax) => x % n = x - n
  BY <1>2, <1>3, ModFacts
<1>5. x - n = a + b - (TickMax + 1)
  BY <1>2, Constants
<1> QED BY <1>1, <1>2, <1>4, <1>5, Zenon

\* Two timeouts that are in step with the time compare as the ticks that are left.
LEMMA Compares ==
  ASSUME NEW now \in 0 .. TickMax, NEW m1, NEW m2, NEW d1 \in Int, NEW d2 \in Int,
         Synced(now, m1, d1), Synced(now, m2, d2)
  PROVE  Minus(m2, m1) # 0 /\ Minus(m2, m1) < Half <=> d1 < d2
<1>1. /\ m1 \in 0 .. TickMax /\ m2 \in 0 .. TickMax
      /\ - MaxLate <= d1 /\ d1 + MaxLate < Half
      /\ - MaxLate <= d2 /\ d2 + MaxLate < Half
      /\ m2 - m1 \in {d2 - d1, d2 - d1 - (TickMax + 1), d2 - d1 + (TickMax + 1),
                      d2 - d1 - 2 * (TickMax + 1), d2 - d1 + 2 * (TickMax + 1)}
  BY Constants DEF Synced
<1>2. Minus(m2, m1) = IF m2 >= m1 THEN m2 - m1 ELSE m2 - m1 + TickMax + 1
  BY <1>1, MinusFacts
<1> QED BY <1>1, <1>2, Constants

\* The test that a timeout has passed is the test that no ticks are left.
LEMMA Passes ==
  ASSUME NEW now \in 0 .. TickMax, NEW m, NEW d \in Int, Synced(now, m, d)
  PROVE  Minus(now, m) < Half <=> d <= 0
<1>1. /\ m \in 0 .. TickMax /\ - MaxLate <= d /\ d + MaxLate < Half
      /\ m - now \in {d, d - (TickMax + 1), d + (TickMax + 1)}
  BY Constants DEF Synced
<1>2. Minus(now, m) = IF now >= m THEN now - m ELSE now - m + TickMax + 1
  BY <1>1, MinusFacts
<1> QED BY <1>1, <1>2, Constants

\* A timeout set d ticks ahead is in step, and stays so from tick to tick.
LEMMA SetAhead ==
  ASSUME NEW now \in 0 .. TickMax, NEW d \in Nat, d + MaxLate < Half
  PROVE  Synced(now, Add(now, d), d)
<1>1. d \in 0 .. TickMax
  BY Constants
<1>2. Add(now, d) = IF now + d <= TickMax THEN now + d ELSE now + d - (TickMax + 1)
  BY <1>1, AddFacts
<1> QED BY <1>2, Constants DEF Synced

LEMMA StaysSynced ==
  ASSUME NEW now \in 0 .. TickMax, NEW m, NEW d \in Int, Synced(now, m, d),
         d > - MaxLate
  PROVE  Add(now, 1) \in 0 .. TickMax /\ Synced(Add(now, 1), m, d - 1)
<1>1. 1 \in 0 .. TickMax
  BY Constants
<1>2. Add(now, 1) = IF now + 1 <= TickMax THEN now + 1 ELSE now + 1 - (TickMax + 1)
  BY <1>1, AddFacts
<1> QED BY <1>2, Constants DEF Synced

-----------------------------------------------------------------------------
\* Callbacks act on their own timers and detach none.
OwnCallbacks ==
  \A o \in Ops : o[1] = "app" \/ (o[1] = o[3] /\ o[2] # "detach")

\* The application's thread does not change the kind of a timer: a tick may fire the
\* timer between the read and the write of its flag, and the write would mark a timer
\* that is in no list as activated again.
FixedKinds == \A o \in Ops : o[1] = "app" => o[2] # "set_kind"

Record ==
  [hard : Seq(Hard \cup {ThreadTimer}), soft : Seq(Soft),
   thread : {"READY", "SUSPEND"},
   timeout : [Timer -> Int], active : [Timer -> BOOLEAN],
   init : [Timer -> Delay], periodic : [Timer -> BOOLEAN],
   there : [Timer -> BOOLEAN], due : [Timer -> Int],
   quiet : [Timer -> BOOLEAN], blind : BOOLEAN]

Lists(now, v) ==
  /\ v \in Record
  /\ Injective(v.hard) /\ Injective(v.soft)
  /\ Ordered(v.hard, v.due) /\ Ordered(v.soft, v.due)
  /\ \A i \in Listed(v) : Synced(now, v.timeout[i], v.due[i])

-----------------------------------------------------------------------------
(***************************************************************************)
(* What the critical sections do to the lists.                             *)
(***************************************************************************)
\* The fields of timer j are the same.
SameTimer(v, w, j) ==
  /\ w.timeout[j] = v.timeout[j] /\ w.due[j] = v.due[j]
  /\ w.active[j] = v.active[j] /\ w.there[j] = v.there[j]
  /\ w.quiet[j] = v.quiet[j]
  /\ j \in Members(w.hard) <=> j \in Members(v.hard)
  /\ j \in Members(w.soft) <=> j \in Members(v.soft)

\* Of the two lists at most the one of timer i is changed, and only as to i.
Spares(v, w, i) ==
  /\ \A j \in Timer \ {i} : SameTimer(v, w, j)
  /\ i \in Soft => w.hard = v.hard
  /\ i \notin Soft => w.soft = v.soft
  /\ w.periodic[ThreadTimer] = v.periodic[ThreadTimer]

SameThread(v, w) == w.thread = v.thread /\ w.blind = v.blind

LEMMA ListedIs ==
  ASSUME NEW v
  PROVE  Listed(v) = Members(v.hard) \cup Members(v.soft)
  BY DEF Listed, Members

LEMMA MembersIn ==
  ASSUME NEW v \in Record
  PROVE  /\ Members(v.hard) \subseteq Hard \cup {ThreadTimer}
         /\ Members(v.soft) \subseteq Soft
         /\ Listed(v) \subseteq Timer
         /\ Members(v.hard) \cap Members(v.soft) = {}
<1>1. v.hard \in Seq(Hard \cup {ThreadTimer}) /\ v.soft \in Seq(Soft)
  BY DEF Record
<1>2. /\ Members(v.hard) \subseteq Hard \cup {ThreadTimer}
      /\ Members(v.soft) \subseteq Soft
  BY <1>1 DEF Members
<1> QED BY <1>2, ListedIs, TimerAssumption DEF Timer

LEMMA SparesTwice ==
  ASSUME NEW u, NEW v, NEW w, NEW i, Spares(u, v, i), Spares(v, w, i)
  PROVE  Spares(u, w, i)
  BY DEF Spares, SameTimer

LEMMA NotMember ==
  ASSUME NEW l, NEW i, i \notin Members(l)
  PROVE  Unlinked(l, i) = l
  BY DEF Members, Unlinked

\* The record's fields may be replaced by others of their types.
LEMMA WithLists ==
  ASSUME NEW v \in Record, NEW h \in Seq(Hard \cup {ThreadTimer}),
         NEW q \in Seq(Soft), NEW d \in [Timer -> Int], NEW m \in [Timer -> Int]
  PROVE  [v EXCEPT !.hard = h, !.soft = q, !.due = d, !.timeout = m] \in Record
  BY DEF Record

LEMMA WithTimes ==
  ASSUME NEW v \in Record, NEW d \in [Timer -> Int], NEW m \in [Timer -> Int]
  PROVE  [v EXCEPT !.timeout = m, !.due = d] \in Record
  BY DEF Record

LEMMA WithActive ==
  ASSUME NEW v \in Record, NEW h \in Seq(Hard \cup {ThreadTimer}),
         NEW q \in Seq(Soft), NEW a \in [Timer -> BOOLEAN]
  PROVE  [v EXCEPT !.hard = h, !.soft = q, !.active = a] \in Record
  BY DEF Record

LEMMA WithFlags ==
  ASSUME NEW v \in Record, NEW a \in [Timer -> BOOLEAN]
  PROVE  [v EXCEPT !.active = a] \in Record /\ [v EXCEPT !.quiet = a] \in Record
  BY DEF Record

LEMMA RemoveFields ==
  ASSUME NEW v \in Record, NEW i \in Timer
  PROVE  LET w == _rt_timer_remove(v, i)
         IN  /\ w.hard = Unlinked(v.hard, i) /\ w.soft = Unlinked(v.soft, i)
             /\ w.due = [v.due EXCEPT ![i] = 0]
             /\ w.timeout \in [Timer -> Int]
             /\ \A j \in Timer \ {i} : w.timeout[j] = v.timeout[j]
             /\ w.thread = v.thread /\ w.active = v.active /\ w.init = v.init
             /\ w.periodic = v.periodic /\ w.there = v.there
             /\ w.quiet = v.quiet /\ w.blind = v.blind
             /\ w.hard \in Seq(Hard \cup {ThreadTimer}) /\ w.soft \in Seq(Soft) =>
                  w \in Record
<1> DEFINE w == _rt_timer_remove(v, i)
<1>1. w.hard = Unlinked(v.hard, i) /\ w.soft = Unlinked(v.soft, i)
  BY DEF Record, _rt_timer_remove
<1>2. /\ w.thread = v.thread /\ w.active = v.active /\ w.init = v.init
      /\ w.periodic = v.periodic /\ w.there = v.there
      /\ w.quiet = v.quiet /\ w.blind = v.blind
  BY DEF Record, _rt_timer_remove
<1>3. w.due = [v.due EXCEPT ![i] = 0]
  BY DEF Record, _rt_timer_remove
<1>4. /\ w.timeout = [v.timeout EXCEPT ![i] = IF i = tt.n THEN @ ELSE 0]
  BY DEF Record, _rt_timer_remove
<1>5. v.timeout \in [Timer -> Int]
  BY DEF Record
<1>6. w.timeout \in [Timer -> Int]
  BY <1>4, <1>5
<1>7. \A j \in Timer \ {i} : w.timeout[j] = v.timeout[j]
  BY <1>4, <1>5
<1>8. ASSUME /\ Unlinked(v.hard, i) \in Seq(Hard \cup {ThreadTimer})
             /\ Unlinked(v.soft, i) \in Seq(Soft)
      PROVE  w \in Record
  <2>1. w = [v EXCEPT !.hard = Unlinked(v.hard, i), !.soft = Unlinked(v.soft, i),
                      !.due = w.due, !.timeout = w.timeout]
    BY <1>3, <1>4 DEF Record, _rt_timer_remove
  <2>2. w.due \in [Timer -> Int]
    BY <1>3 DEF Record
  <2> DEFINE h == Unlinked(v.hard, i)
             q == Unlinked(v.soft, i)
             d == w.due
             m == w.timeout
  <2>3. /\ h \in Seq(Hard \cup {ThreadTimer}) /\ q \in Seq(Soft)
        /\ d \in [Timer -> Int] /\ m \in [Timer -> Int]
        /\ w = [v EXCEPT !.hard = h, !.soft = q, !.due = d, !.timeout = m]
    BY <1>6, <1>8, <2>1, <2>2
  <2> HIDE DEF h, q, d, m, w
  <2>4. [v EXCEPT !.hard = h, !.soft = q, !.due = d, !.timeout = m] \in Record
    BY <2>3, WithLists
  <2> QED BY <2>3, <2>4
<1> QED BY <1>1, <1>2, <1>3, <1>6, <1>7, <1>8

Removed(now, v, w, i) ==
  /\ Lists(now, w) /\ Spares(v, w, i) /\ SameThread(v, w)
  /\ i \notin Listed(w) /\ Members(w.soft) = Members(v.soft) \ {i}
  /\ w.active = v.active /\ w.quiet = v.quiet /\ w.there = v.there
  /\ w.periodic = v.periodic /\ w.init = v.init

\* _rt_timer_remove takes the timer out of its list.
LEMMA RemoveOK ==
  ASSUME NEW now, NEW v, NEW i \in Timer, Lists(now, v)
  PROVE  Removed(now, v, _rt_timer_remove(v, i), i)
<1> DEFINE w == _rt_timer_remove(v, i)
<1>1. v \in Record
  BY DEF Lists
<1>2. /\ w.hard = Unlinked(v.hard, i) /\ w.soft = Unlinked(v.soft, i)
      /\ w.due = [v.due EXCEPT ![i] = 0] /\ w.timeout \in [Timer -> Int]
      /\ \A j \in Timer \ {i} : w.timeout[j] = v.timeout[j]
  BY <1>1, RemoveFields
<1>3. /\ w.thread = v.thread /\ w.active = v.active /\ w.init = v.init
      /\ w.periodic = v.periodic /\ w.there = v.there
      /\ w.quiet = v.quiet /\ w.blind = v.blind
  BY <1>1, RemoveFields
<1>4. w.hard \in Seq(Hard \cup {ThreadTimer}) /\ w.soft \in Seq(Soft) => w \in Record
  BY <1>1, RemoveFields
<1> HIDE DEF w
<1>5. v.hard \in Seq(Hard \cup {ThreadTimer}) /\ v.soft \in Seq(Soft)
      /\ v.due \in [Timer -> Int]
  BY <1>1 DEF Record
<1>6. /\ Injective(v.hard) /\ Injective(v.soft)
      /\ Ordered(v.hard, v.due) /\ Ordered(v.soft, v.due)
  BY DEF Lists
<1>7. /\ w.hard \in Seq(Hard \cup {ThreadTimer}) /\ Injective(w.hard)
      /\ Members(w.hard) = Members(v.hard) \ {i} /\ Ordered(w.hard, v.due)
  BY <1>2, <1>5, <1>6, UnlinkedFacts
<1>8. /\ w.soft \in Seq(Soft) /\ Injective(w.soft)
      /\ Members(w.soft) = Members(v.soft) \ {i} /\ Ordered(w.soft, v.due)
  BY <1>2, <1>5, <1>6, UnlinkedFacts
<1>9. w \in Record
  BY <1>4, <1>7, <1>8
<1>10. Listed(w) = Listed(v) \ {i}
  BY <1>7, <1>8, ListedIs
<1>11. \A j \in Timer \ {i} : w.due[j] = v.due[j]
  BY <1>2, <1>5
<1>12. Members(w.hard) \subseteq Timer \ {i} /\ Members(w.soft) \subseteq Timer \ {i}
  BY <1>7, <1>8, <1>9, MembersIn, ListedIs
<1>13. Ordered(w.hard, w.due) /\ Ordered(w.soft, w.due)
  <2>1. /\ \A p \in DOMAIN w.hard : w.due[w.hard[p]] = v.due[w.hard[p]]
        /\ \A p \in DOMAIN w.soft : w.due[w.soft[p]] = v.due[w.soft[p]]
    BY <1>11, <1>12 DEF Members
  <2> QED BY <1>7, <1>8, <2>1 DEF Ordered
<1>14. Lists(now, w)
  <2>1. ASSUME NEW j \in Listed(w)
        PROVE  Synced(now, w.timeout[j], w.due[j])
    <3>1. j \in Listed(v) /\ j \in Timer /\ j # i
      BY <1>9, <1>10, MembersIn
    <3> QED BY <1>2, <1>11, <3>1 DEF Lists
  <2> QED BY <1>7, <1>8, <1>9, <1>13, <2>1 DEF Lists
<1>15. Spares(v, w, i)
  <2>1. \A j \in Timer \ {i} : SameTimer(v, w, j)
    BY <1>2, <1>3, <1>7, <1>8, <1>11 DEF SameTimer
  <2>2. i \in Soft => w.hard = v.hard
    BY <1>1, <1>2, MembersIn, NotMember, TimerAssumption
  <2>3. i \notin Soft => w.soft = v.soft
    BY <1>1, <1>2, MembersIn, NotMember
  <2> QED BY <1>3, <2>1, <2>2, <2>3 DEF Spares
<1>16. i \notin Listed(w) /\ SameThread(v, w)
  BY <1>3, <1>10 DEF SameThread
<1> QED BY <1>3, <1>8, <1>14, <1>15, <1>16 DEF w, Removed

\* A change of flags of timer i that leaves the lists and the times alone.
LEMMA FlagsOK ==
  ASSUME NEW now, NEW v, NEW w, NEW i, Lists(now, v), w \in Record,
         w.hard = v.hard, w.soft = v.soft, w.due = v.due, w.timeout = v.timeout,
         \A j \in Timer \ {i} : /\ w.active[j] = v.active[j]
                                /\ w.there[j] = v.there[j]
                                /\ w.quiet[j] = v.quiet[j],
         w.periodic[ThreadTimer] = v.periodic[ThreadTimer]
  PROVE  Lists(now, w) /\ Spares(v, w, i) /\ Listed(w) = Listed(v)
<1>1. Listed(w) = Listed(v)
  BY DEF Listed
<1>2. Lists(now, w)
  BY <1>1 DEF Lists
<1>3. Spares(v, w, i)
  BY DEF Spares, SameTimer
<1> QED BY <1>1, <1>2, <1>3

LEMMA DeactivatedOK ==
  ASSUME NEW now, NEW v, NEW i \in Timer, Lists(now, v)
  PROVE  LET w == Deactivated(v, i)
         IN  /\ Lists(now, w) /\ Spares(v, w, i) /\ SameThread(v, w)
             /\ Listed(w) = Listed(v) /\ w.soft = v.soft /\ ~ w.active[i]
             /\ w.quiet = v.quiet /\ w.there = v.there
             /\ w.timeout = v.timeout /\ w.due = v.due
             /\ w.periodic = v.periodic /\ w.init = v.init
<1> DEFINE a == [v.active EXCEPT ![i] = FALSE]
           w == [v EXCEPT !.active = a]
<1>1. v \in Record /\ v.active \in [Timer -> BOOLEAN]
  BY DEF Lists, Record
<1>2. Deactivated(v, i) = w
  BY <1>1 DEF Deactivated, Record
<1>3. a \in [Timer -> BOOLEAN] /\ ~ a[i] /\ \A j \in Timer \ {i} : a[j] = v.active[j]
  BY <1>1
<1> HIDE DEF a
<1>4. w \in Record
  BY <1>1, <1>3, WithFlags
<1>5. /\ w.active = a /\ w.hard = v.hard /\ w.soft = v.soft /\ w.due = v.due
      /\ w.timeout = v.timeout /\ w.there = v.there /\ w.quiet = v.quiet
      /\ w.periodic = v.periodic /\ w.init = v.init
      /\ w.thread = v.thread /\ w.blind = v.blind
  BY <1>1 DEF Record
<1> HIDE DEF w
<1>6. Lists(now, w) /\ Spares(v, w, i) /\ Listed(w) = Listed(v)
  BY <1>3, <1>4, <1>5, FlagsOK
<1> QED BY <1>2, <1>3, <1>5, <1>6 DEF SameThread

QuietSet(now, v, w, i, b) ==
  /\ Lists(now, w) /\ Spares(v, w, i) /\ SameThread(v, w)
  /\ Listed(w) = Listed(v) /\ w.soft = v.soft /\ w.quiet[i] = b
  /\ w.active = v.active /\ w.there = v.there
  /\ w.timeout = v.timeout /\ w.due = v.due
  /\ w.periodic = v.periodic /\ w.init = v.init

LEMMA QuietOK ==
  ASSUME NEW now, NEW v, NEW i \in Timer, NEW b \in BOOLEAN, Lists(now, v)
  PROVE  QuietSet(now, v, [v EXCEPT !.quiet[i] = b], i, b)
<1> DEFINE a == [v.quiet EXCEPT ![i] = b]
           w == [v EXCEPT !.quiet = a]
<1>1. v \in Record /\ v.quiet \in [Timer -> BOOLEAN]
  BY DEF Lists, Record
<1>2. [v EXCEPT !.quiet[i] = b] = w
  BY <1>1 DEF Record
<1>3. a \in [Timer -> BOOLEAN] /\ a[i] = b /\ \A j \in Timer \ {i} : a[j] = v.quiet[j]
  BY <1>1
<1> HIDE DEF a
<1>4. w \in Record
  BY <1>1, <1>3, WithFlags
<1>5. /\ w.quiet = a /\ w.hard = v.hard /\ w.soft = v.soft /\ w.due = v.due
      /\ w.timeout = v.timeout /\ w.there = v.there /\ w.active = v.active
      /\ w.periodic = v.periodic /\ w.init = v.init
      /\ w.thread = v.thread /\ w.blind = v.blind
  BY <1>1 DEF Record
<1> HIDE DEF w
<1>6. Lists(now, w) /\ Spares(v, w, i) /\ Listed(w) = Listed(v)
  BY <1>3, <1>4, <1>5, FlagsOK
<1> QED BY <1>2, <1>3, <1>5, <1>6 DEF SameThread, QuietSet

\* The timeout of a timer that is in no list is set d ticks ahead.
LEMMA TimeoutOK ==
  ASSUME NEW v, NEW i \in Timer, NEW d \in Nat, d + MaxLate < Half,
         tick \in 0 .. TickMax, Lists(tick, v), i \notin Listed(v)
  PROVE  LET w == StartTimeout(v, i, d)
         IN  /\ Lists(tick, w) /\ Spares(v, w, i) /\ SameThread(v, w)
             /\ Listed(w) = Listed(v) /\ w.soft = v.soft
             /\ Synced(tick, w.timeout[i], w.due[i]) /\ w.due[i] = d
             /\ w.active = v.active /\ w.there = v.there /\ w.quiet = v.quiet
             /\ w.periodic = v.periodic /\ w.init = v.init
<1> DEFINE m == [v.timeout EXCEPT ![i] = Add(tick, d)]
           e == [v.due EXCEPT ![i] = d]
           w == [v EXCEPT !.timeout = m, !.due = e]
<1>1. /\ v \in Record /\ v.timeout \in [Timer -> Int] /\ v.due \in [Timer -> Int]
  BY DEF Lists, Record
<1>2. StartTimeout(v, i, d) = w
  BY <1>1 DEF StartTimeout, Record
<1>3. Synced(tick, Add(tick, d), d)
  BY SetAhead
<1>4. Add(tick, d) \in Int
  BY <1>3 DEF Synced
<1>5. /\ m \in [Timer -> Int] /\ m[i] = Add(tick, d)
      /\ e \in [Timer -> Int] /\ e[i] = d
      /\ \A j \in Timer \ {i} : m[j] = v.timeout[j] /\ e[j] = v.due[j]
  BY <1>1, <1>4
<1> HIDE DEF m, e
<1>6. w \in Record
  BY <1>1, <1>5, WithTimes
<1>7. /\ w.timeout = m /\ w.due = e /\ w.hard = v.hard /\ w.soft = v.soft
      /\ w.there = v.there /\ w.active = v.active /\ w.quiet = v.quiet
      /\ w.periodic = v.periodic /\ w.init = v.init
      /\ w.thread = v.thread /\ w.blind = v.blind
  BY <1>1 DEF Record
<1> HIDE DEF w
<1>8. Listed(w) = Listed(v) /\ Listed(v) \subseteq Timer \ {i}
  BY <1>1, <1>7, MembersIn DEF Listed
<1>9. \A j \in Listed(v) : w.timeout[j] = v.timeout[j] /\ w.due[j] = v.due[j]
  BY <1>5, <1>7, <1>8
<1>10. Lists(tick, w)
  <2>1. /\ \A p \in DOMAIN v.hard : w.due[v.hard[p]] = v.due[v.hard[p]]
        /\ \A p \in DOMAIN v.soft : w.due[v.soft[p]] = v.due[v.soft[p]]
    BY <1>9 DEF Listed
  <2>2. Ordered(w.hard, w.due) /\ Ordered(w.soft, w.due)
    BY <1>7, <2>1 DEF Lists, Ordered
  <2> QED BY <1>6, <1>7, <1>8, <1>9, <2>2 DEF Lists
<1>11. Spares(v, w, i)
  BY <1>5, <1>7 DEF Spares, SameTimer
<1> QED BY <1>2, <1>3, <1>5, <1>7, <1>8, <1>10, <1>11 DEF SameThread

\* The search of rt_timer_start for the timer's place keeps the list in order.
LEMMA PlaceOK ==
  ASSUME NEW T, NEW l \in Seq(T), NEW i \in T, Injective(l), i \notin Members(l),
         NEW v, v.due \in [T -> Int], Ordered(l, v.due),
         \A p \in DOMAIN l : IsBefore(v, i, l[p]) <=> v.due[i] < v.due[l[p]]
  PROVE  LET r == Place(v, l, i)
         IN  /\ r \in Seq(T) /\ Injective(r)
             /\ Members(r) = Members(l) \cup {i} /\ Ordered(r, v.due)
<1> DEFINE later == {p \in DOMAIN l : IsBefore(v, i, l[p])}
           first == CHOOSE p \in later : \A q \in later : p <= q
           k == IF later = {} THEN Len(l) + 1 ELSE first
<1>1. DOMAIN l = 1 .. Len(l) /\ Len(l) \in Nat /\ \A p \in DOMAIN l : l[p] \in T
  OBVIOUS
<1>2. Place(v, l, i) = InsertAt(l, k, i)
  BY DEF Place
<1>3. later # {} => first \in later /\ \A q \in later : first <= q
  <2>1. later \in SUBSET Nat
    BY <1>1
  <2> HIDE DEF later
  <2> QED BY <2>1, SmallestExists
<1>4. \A p \in DOMAIN l : p \in later <=> v.due[i] < v.due[l[p]]
  OBVIOUS
<1>5. later \subseteq DOMAIN l
  OBVIOUS
<1> HIDE DEF later, first
<1>6. k \in 1 .. Len(l) + 1
  BY <1>1, <1>3, <1>5
<1>7. ASSUME NEW p \in DOMAIN l, p < k
      PROVE  v.due[l[p]] <= v.due[i]
  <2>1. p \notin later
    BY <1>1, <1>3, <1>5, <1>7
  <2> QED BY <1>1, <1>4, <2>1
<1>8. ASSUME NEW p \in DOMAIN l, p >= k
      PROVE  v.due[i] <= v.due[l[p]]
  <2>1. later # {} /\ k = first /\ first \in DOMAIN l
    BY <1>1, <1>3, <1>5, <1>8
  <2>2. v.due[i] < v.due[l[first]]
    BY <1>3, <1>4, <2>1
  <2>3. v.due[l[first]] <= v.due[l[p]]
    <3>1. first = p \/ first < p
      BY <1>1, <1>8, <2>1
    <3> QED BY <1>1, <2>1, <3>1 DEF Ordered
  <2> QED BY <1>1, <2>1, <2>2, <2>3
<1> HIDE DEF k
<1>9. Ordered(InsertAt(l, k, i), v.due)
  BY <1>6, <1>7, <1>8, InsertedOrder
<1>10. /\ InsertAt(l, k, i) \in Seq(T) /\ Injective(InsertAt(l, k, i))
       /\ Members(InsertAt(l, k, i)) = Members(l) \cup {i}
  BY <1>6, InsertedFacts
<1> QED BY <1>2, <1>9, <1>10

\* The insertion puts a timer that is in no list into its list.
LEMMA InsertOK ==
  ASSUME NEW now \in 0 .. TickMax, NEW v, NEW i \in Timer, Lists(now, v),
         i \notin Listed(v), Synced(now, v.timeout[i], v.due[i])
  PROVE  LET w == StartInsert(v, i)
         IN  /\ Lists(now, w) /\ Spares(v, w, i) /\ SameThread(v, w)
             /\ Listed(w) = Listed(v) \cup {i} /\ w.active[i]
             /\ w.there = v.there /\ w.quiet = v.quiet
             /\ w.timeout = v.timeout /\ w.due = v.due
             /\ w.periodic = v.periodic /\ w.init = v.init
<1> DEFINE a == [v.active EXCEPT ![i] = TRUE]
           h == IF i \in Soft THEN v.hard ELSE Place(v, v.hard, i)
           q == IF i \in Soft THEN Place(v, v.soft, i) ELSE v.soft
           w == [v EXCEPT !.hard = h, !.soft = q, !.active = a]
<1>1. /\ v \in Record /\ v.active \in [Timer -> BOOLEAN]
      /\ v.hard \in Seq(Hard \cup {ThreadTimer}) /\ v.soft \in Seq(Soft)
      /\ v.due \in [Timer -> Int]
  BY DEF Lists, Record
<1>2. StartInsert(v, i) = w
  BY <1>1 DEF StartInsert, Record
<1>3. \A j \in Listed(v) : IsBefore(v, i, j) <=> v.due[i] < v.due[j]
  <2> SUFFICES ASSUME NEW j \in Listed(v)
               PROVE  IsBefore(v, i, j) <=> v.due[i] < v.due[j]
    OBVIOUS
  <2>1. Synced(now, v.timeout[j], v.due[j]) /\ j \in Timer
    BY <1>1, MembersIn DEF Lists
  <2>2. v.due[i] \in Int /\ v.due[j] \in Int
    BY <1>1, <2>1
  <2> QED BY <2>1, <2>2, Compares DEF IsBefore
<1>4. a \in [Timer -> BOOLEAN] /\ a[i] /\ \A j \in Timer \ {i} : a[j] = v.active[j]
  BY <1>1
<1>5. /\ i \notin Members(v.hard) /\ i \notin Members(v.soft)
      /\ Injective(v.hard) /\ Injective(v.soft)
      /\ Ordered(v.hard, v.due) /\ Ordered(v.soft, v.due)
      /\ Members(v.hard) \subseteq Timer /\ Members(v.soft) \subseteq Timer
  BY <1>1, ListedIs, MembersIn DEF Lists
<1>6. v.hard \in Seq(Timer) /\ v.soft \in Seq(Timer)
  BY <1>1 DEF Timer
<1>7. /\ Place(v, v.hard, i) \in Seq(Timer) /\ Injective(Place(v, v.hard, i))
      /\ Members(Place(v, v.hard, i)) = Members(v.hard) \cup {i}
      /\ Ordered(Place(v, v.hard, i), v.due)
  <2>1. \A p \in DOMAIN v.hard : IsBefore(v, i, v.hard[p]) <=> v.due[i] < v.due[v.hard[p]]
    BY <1>3 DEF Listed
  <2> QED BY <1>1, <1>5, <1>6, <2>1, PlaceOK
<1>8. /\ Place(v, v.soft, i) \in Seq(Timer) /\ Injective(Place(v, v.soft, i))
      /\ Members(Place(v, v.soft, i)) = Members(v.soft) \cup {i}
      /\ Ordered(Place(v, v.soft, i), v.due)
  <2>1. \A p \in DOMAIN v.soft : IsBefore(v, i, v.soft[p]) <=> v.due[i] < v.due[v.soft[p]]
    BY <1>3 DEF Listed
  <2> QED BY <1>1, <1>5, <1>6, <2>1, PlaceOK
<1>9. /\ Injective(h) /\ Injective(q) /\ Ordered(h, v.due) /\ Ordered(q, v.due)
      /\ Members(h) = IF i \in Soft THEN Members(v.hard) ELSE Members(v.hard) \cup {i}
      /\ Members(q) = IF i \in Soft THEN Members(v.soft) \cup {i} ELSE Members(v.soft)
      /\ i \in Soft => h = v.hard
      /\ i \notin Soft => q = v.soft
  BY <1>5, <1>7, <1>8
<1>10. h \in Seq(Hard \cup {ThreadTimer}) /\ q \in Seq(Soft)
  <2>1. ASSUME i \notin Soft
        PROVE  Place(v, v.hard, i) \in Seq(Hard \cup {ThreadTimer})
    <3>1. \A x \in Members(Place(v, v.hard, i)) : x \in Hard \cup {ThreadTimer}
      BY <1>1, <1>7, <2>1, MembersIn DEF Timer
    <3> QED BY <1>7, <3>1, SeqOfMembers
  <2>2. ASSUME i \in Soft
        PROVE  Place(v, v.soft, i) \in Seq(Soft)
    <3>1. \A x \in Members(Place(v, v.soft, i)) : x \in Soft
      BY <1>1, <1>8, <2>2, MembersIn
    <3> QED BY <1>8, <3>1, SeqOfMembers
  <2> QED BY <1>1, <2>1, <2>2
<1> HIDE DEF a, h, q
<1>11. w \in Record
  BY <1>1, <1>4, <1>10, WithActive
<1>12. /\ w.active = a /\ w.hard = h /\ w.soft = q /\ w.due = v.due
       /\ w.timeout = v.timeout /\ w.there = v.there /\ w.quiet = v.quiet
       /\ w.periodic = v.periodic /\ w.init = v.init
       /\ w.thread = v.thread /\ w.blind = v.blind
  BY <1>1 DEF Record
<1> HIDE DEF w
<1>13. Listed(w) = Listed(v) \cup {i}
  BY <1>9, <1>12, ListedIs
<1>14. Lists(now, w)
  BY <1>9, <1>11, <1>12, <1>13 DEF Lists
<1>15. Spares(v, w, i)
  BY <1>4, <1>9, <1>12 DEF Spares, SameTimer
<1> QED BY <1>2, <1>4, <1>12, <1>13, <1>14, <1>15 DEF SameThread

\* A timer that is stopped leaves its list.
LEMMA StopOK ==
  ASSUME NEW now, NEW v, NEW i \in Timer, Lists(now, v)
  PROVE  LET w == rt_timer_stop(v, i)
         IN  /\ Lists(now, w) /\ Spares(v, w, i) /\ SameThread(v, w)
             /\ ~ w.active[i] /\ w.there = v.there
             /\ w.periodic = v.periodic /\ w.init = v.init
             /\ v.active[i] => i \notin Listed(w) /\ w.quiet[i]
             /\ ~ v.active[i] => w = v
<1>1. CASE ~ v.active[i]
  BY <1>1 DEF rt_timer_stop, Spares, SameTimer, SameThread
<1>2. CASE v.active[i]
  <2> DEFINE r == _rt_timer_remove(v, i)
             a == Deactivated(r, i)
             w == [a EXCEPT !.quiet[i] = TRUE]
  <2>1. rt_timer_stop(v, i) = w
    BY <1>2 DEF rt_timer_stop
  <2>2. /\ Lists(now, r) /\ Spares(v, r, i) /\ SameThread(v, r) /\ i \notin Listed(r)
        /\ r.there = v.there /\ r.periodic = v.periodic /\ r.init = v.init
    BY RemoveOK DEF Removed
  <2> HIDE DEF r
  <2>3. /\ Lists(now, a) /\ Spares(r, a, i) /\ SameThread(r, a) /\ ~ a.active[i]
        /\ Listed(a) = Listed(r)
        /\ a.there = r.there /\ a.periodic = r.periodic /\ a.init = r.init
    BY <2>2, DeactivatedOK
  <2> HIDE DEF a
  <2>4. /\ Lists(now, w) /\ Spares(a, w, i) /\ SameThread(a, w) /\ w.quiet[i] = TRUE
        /\ Listed(w) = Listed(a) /\ w.active = a.active
        /\ w.there = a.there /\ w.periodic = a.periodic /\ w.init = a.init
    <3>1. QuietSet(now, a, w, i, TRUE)
      BY <2>3, QuietOK
    <3> QED BY <3>1 DEF QuietSet
  <2> HIDE DEF w
  <2>5. Spares(v, w, i)
    BY <2>2, <2>3, <2>4, SparesTwice
  <2> QED BY <1>2, <2>1, <2>2, <2>3, <2>4, <2>5 DEF SameThread
<1> QED BY <1>1, <1>2

LEMMA UnlinkOK ==
  ASSUME NEW now, NEW v, NEW i \in Timer, Lists(now, v)
  PROVE  LET w == StartUnlink(v, i)
         IN  /\ Lists(now, w) /\ Spares(v, w, i) /\ SameThread(v, w)
             /\ i \notin Listed(w) /\ ~ w.active[i]
             /\ Members(w.soft) = Members(v.soft) \ {i}
             /\ w.quiet = v.quiet /\ w.there = v.there
             /\ w.periodic = v.periodic /\ w.init = v.init
<1> DEFINE r == _rt_timer_remove(v, i)
           w == Deactivated(r, i)
<1>1. /\ Lists(now, r) /\ Spares(v, r, i) /\ SameThread(v, r) /\ i \notin Listed(r)
      /\ Members(r.soft) = Members(v.soft) \ {i} /\ r.quiet = v.quiet
      /\ r.there = v.there /\ r.periodic = v.periodic /\ r.init = v.init
  <2>1. Removed(now, v, r, i)
    BY RemoveOK
  <2> HIDE DEF r
  <2> QED BY <2>1 DEF Removed
<1> HIDE DEF r
<1>2. /\ Lists(now, w) /\ Spares(r, w, i) /\ SameThread(r, w) /\ ~ w.active[i]
      /\ Listed(w) = Listed(r) /\ w.soft = r.soft /\ w.quiet = r.quiet
      /\ w.there = r.there /\ w.periodic = r.periodic /\ w.init = r.init
  BY <1>1, DeactivatedOK
<1> HIDE DEF w
<1>3. Spares(v, w, i)
  BY <1>1, <1>2, SparesTwice
<1> QED BY <1>1, <1>2, <1>3 DEF SameThread, StartUnlink, r, w

\* rt_timer_start of a hard timer, or of the thread timer.
LEMMA StartOK ==
  ASSUME tick \in 0 .. TickMax, NEW v, NEW i \in Timer \ Soft, Lists(tick, v),
         NEW d \in Nat, d + MaxLate < Half
  PROVE  LET w == rt_timer_start(v, i, d)
         IN  /\ Lists(tick, w) /\ Spares(v, w, i) /\ SameThread(v, w)
             /\ i \in Listed(w) /\ w.active[i] /\ w.due[i] = d
             /\ w.quiet = v.quiet /\ w.there = v.there
             /\ w.periodic = v.periodic /\ w.init = v.init
<1> DEFINE u == StartUnlink(v, i)
           m == StartTimeout(u, i, d)
           w == StartInsert(m, i)
<1>1. rt_timer_start(v, i, d) = w
  BY DEF rt_timer_start, StartWake
<1>2. /\ Lists(tick, u) /\ Spares(v, u, i) /\ SameThread(v, u) /\ i \notin Listed(u)
      /\ u.quiet = v.quiet /\ u.there = v.there
      /\ u.periodic = v.periodic /\ u.init = v.init
  BY UnlinkOK
<1> HIDE DEF u
<1>3. /\ Lists(tick, m) /\ Spares(u, m, i) /\ SameThread(u, m)
      /\ Listed(m) = Listed(u)
      /\ Synced(tick, m.timeout[i], m.due[i]) /\ m.due[i] = d
      /\ m.there = u.there /\ m.quiet = u.quiet
      /\ m.periodic = u.periodic /\ m.init = u.init
  BY <1>2, TimeoutOK
<1> HIDE DEF m
<1>4. /\ Lists(tick, w) /\ Spares(m, w, i) /\ SameThread(m, w)
      /\ Listed(w) = Listed(m) \cup {i} /\ w.active[i]
      /\ w.there = m.there /\ w.quiet = m.quiet /\ w.due = m.due
      /\ w.periodic = m.periodic /\ w.init = m.init
  BY <1>2, <1>3, InsertOK
<1> HIDE DEF w
<1>5. Spares(v, w, i)
  BY <1>2, <1>3, <1>4, SparesTwice
<1> QED BY <1>1, <1>2, <1>3, <1>4, <1>5 DEF SameThread

\* After the callback of a hard timer: it is listed if it is activated.
LEMMA FinishOK ==
  ASSUME tick \in 0 .. TickMax, NEW v, NEW i \in Timer \ Soft, Lists(tick, v)
  PROVE  LET w == Finish(v, i)
         IN  /\ Lists(tick, w) /\ Spares(v, w, i) /\ SameThread(v, w)
             /\ w.active[i] => i \in Listed(w) /\ v.active[i]
             /\ i \in Listed(w) => i \in Listed(v) \/ w.active[i]
             /\ w.quiet = v.quiet /\ w.there = v.there /\ w.periodic = v.periodic
<1>1. v.init[i] \in Delay
  BY DEF Lists, Record
<1>2. v.init[i] \in Nat /\ v.init[i] + MaxLate < Half
  BY <1>1, TimerAssumption
<1>3. CASE v.periodic[i] /\ v.active[i]
  BY <1>2, <1>3, StartOK DEF Finish
<1>4. CASE ~ (v.periodic[i] /\ v.active[i])
  BY <1>4, DeactivatedOK DEF Finish
<1> QED BY <1>3, <1>4

\* rt_timer_control changes the time or the kind of a timer, and nothing else.
Tuned(now, v, w, i) ==
  /\ Lists(now, w) /\ Spares(v, w, i) /\ SameThread(v, w)
  /\ Listed(w) = Listed(v) /\ w.soft = v.soft /\ w.hard = v.hard
  /\ w.active = v.active /\ w.quiet = v.quiet /\ w.there = v.there
  /\ w.timeout = v.timeout /\ w.due = v.due

LEMMA ControlOK ==
  ASSUME NEW now, NEW v, NEW i \in Hard \cup Soft, Lists(now, v),
         NEW d \in Delay, NEW b \in BOOLEAN
  PROVE  Tuned(now, v, rt_timer_control(v, i, d, b), i)
<1> DEFINE e == [v.init EXCEPT ![i] = d]
           a == [v.periodic EXCEPT ![i] = b]
           w == [v EXCEPT !.init = e, !.periodic = a]
<1>1. /\ v \in Record /\ v.init \in [Timer -> Delay]
      /\ v.periodic \in [Timer -> BOOLEAN]
  BY DEF Lists, Record
<1>2. rt_timer_control(v, i, d, b) = w
  BY <1>1 DEF rt_timer_control, Record
<1>3. i \in Timer /\ ThreadTimer \in Timer /\ i # ThreadTimer
  BY TimerAssumption DEF Timer
<1>4. /\ e \in [Timer -> Delay] /\ a \in [Timer -> BOOLEAN]
      /\ a[ThreadTimer] = v.periodic[ThreadTimer]
  BY <1>1, <1>3
<1> HIDE DEF a, e
<1>5. w \in Record
  BY <1>1, <1>4 DEF Record
<1>6. /\ w.quiet = v.quiet /\ w.hard = v.hard /\ w.soft = v.soft /\ w.due = v.due
      /\ w.timeout = v.timeout /\ w.there = v.there /\ w.active = v.active
      /\ w.periodic = a /\ w.thread = v.thread /\ w.blind = v.blind
  BY <1>1 DEF Record
<1> HIDE DEF w
<1>7. Lists(now, w) /\ Spares(v, w, i) /\ Listed(w) = Listed(v)
  BY <1>4, <1>5, <1>6, FlagsOK
<1> QED BY <1>2, <1>6, <1>7 DEF SameThread, Tuned

\* rt_timer_detach takes the timer out of its list for good, whatever it was doing.
Detached(now, v, w, i) ==
  /\ Lists(now, w) /\ Spares(v, w, i) /\ SameThread(v, w)
  /\ i \notin Listed(w) /\ ~ w.there[i] /\ w.quiet[i]
  /\ Members(w.soft) \subseteq Members(v.soft)

LEMMA DetachOK ==
  ASSUME NEW now, NEW v, NEW i \in Hard \cup Soft, Lists(now, v)
  PROVE  Detached(now, v, rt_timer_detach(v, i), i)
<1> DEFINE r == _rt_timer_remove(v, i)
           e == [r.there EXCEPT ![i] = FALSE]
           a == [r.quiet EXCEPT ![i] = TRUE]
           w == [r EXCEPT !.there = e, !.quiet = a]
<1>1. i \in Timer
  BY DEF Timer
<1>2. Removed(now, v, r, i)
  BY <1>1, RemoveOK
<1>3. rt_timer_detach(v, i) = [r EXCEPT !.there[i] = FALSE, !.quiet[i] = TRUE]
  BY DEF rt_timer_detach
<1> HIDE DEF r
<1>4. Lists(now, r)
  BY <1>2 DEF Removed
<1>5. /\ r \in Record /\ r.there \in [Timer -> BOOLEAN]
      /\ r.quiet \in [Timer -> BOOLEAN]
  BY <1>4 DEF Lists, Record
<1>6. rt_timer_detach(v, i) = w
  BY <1>3, <1>5 DEF Record
<1>7. /\ e \in [Timer -> BOOLEAN] /\ a \in [Timer -> BOOLEAN] /\ ~ e[i] /\ a[i]
      /\ \A j \in Timer \ {i} : e[j] = r.there[j] /\ a[j] = r.quiet[j]
  BY <1>1, <1>5
<1> HIDE DEF a, e
<1>8. w \in Record
  BY <1>5, <1>7 DEF Record
<1>9. /\ w.quiet = a /\ w.hard = r.hard /\ w.soft = r.soft /\ w.due = r.due
      /\ w.timeout = r.timeout /\ w.there = e /\ w.active = r.active
      /\ w.periodic = r.periodic /\ w.thread = r.thread /\ w.blind = r.blind
  BY <1>5 DEF Record
<1> HIDE DEF w
<1>10. Lists(now, w) /\ Spares(r, w, i) /\ Listed(w) = Listed(r)
  BY <1>4, <1>7, <1>8, <1>9, FlagsOK
<1>11. Spares(v, w, i)
  <2>1. Spares(v, r, i)
    BY <1>2 DEF Removed
  <2> QED BY <1>10, <2>1, SparesTwice
<1> QED BY <1>2, <1>6, <1>7, <1>9, <1>10, <1>11 DEF SameThread, Detached, Removed

\* rt_timer_init of a timer that was detached.
Fresh(now, v, w, i) ==
  /\ Lists(now, w) /\ Spares(v, w, i) /\ SameThread(v, w)
  /\ i \notin Listed(w) /\ w.there[i] /\ ~ w.active[i] /\ ~ w.quiet[i]
  /\ w.soft = v.soft

LEMMA InitOK ==
  ASSUME NEW now, NEW v, NEW i \in Hard \cup Soft, Lists(now, v), i \notin Listed(v)
  PROVE  Fresh(now, v, rt_timer_init(v, i), i)
<1> DEFINE u == Deactivated(v, i)
           r == rt_timer_control(u, i, Time[i], i \in Periodic)
           e == [r.there EXCEPT ![i] = TRUE]
           a == [r.quiet EXCEPT ![i] = FALSE]
           m == [r.timeout EXCEPT ![i] = 0]
           w == [r EXCEPT !.there = e, !.timeout = m, !.quiet = a]
<1>1. i \in Timer
  BY DEF Timer
<1>2. /\ Lists(now, u) /\ Spares(v, u, i) /\ SameThread(v, u)
      /\ Listed(u) = Listed(v) /\ ~ u.active[i] /\ u.soft = v.soft
  BY <1>1, DeactivatedOK
<1> HIDE DEF u
<1>3. Tuned(now, u, r, i)
  <2>1. Time[i] \in Delay /\ (i \in Periodic) \in BOOLEAN
    BY <1>1, TimerAssumption
  <2> QED BY <1>2, <2>1, ControlOK
<1>4. rt_timer_init(v, i) =
        [r EXCEPT !.there[i] = TRUE, !.timeout[i] = 0, !.quiet[i] = FALSE]
  BY DEF rt_timer_init, u
<1> HIDE DEF r
<1>5. /\ Lists(now, r) /\ Listed(r) = Listed(v) /\ r.soft = v.soft
      /\ Spares(u, r, i) /\ SameThread(u, r) /\ r.active = u.active
  BY <1>2, <1>3 DEF Tuned
<1>6. /\ r \in Record /\ r.there \in [Timer -> BOOLEAN]
      /\ r.quiet \in [Timer -> BOOLEAN] /\ r.timeout \in [Timer -> Int]
  BY <1>5 DEF Lists, Record
<1>7. rt_timer_init(v, i) = w
  BY <1>4, <1>6 DEF Record
<1>8. /\ e \in [Timer -> BOOLEAN] /\ a \in [Timer -> BOOLEAN] /\ e[i] /\ ~ a[i]
      /\ m \in [Timer -> Int]
      /\ \A j \in Timer \ {i} : /\ e[j] = r.there[j] /\ a[j] = r.quiet[j]
                               /\ m[j] = r.timeout[j]
  BY <1>1, <1>6
<1> HIDE DEF a, e, m
<1>9. w \in Record
  BY <1>6, <1>8 DEF Record
<1>10. /\ w.quiet = a /\ w.hard = r.hard /\ w.soft = r.soft /\ w.due = r.due
       /\ w.timeout = m /\ w.there = e /\ w.active = r.active
       /\ w.periodic = r.periodic /\ w.thread = r.thread /\ w.blind = r.blind
  BY <1>6 DEF Record
<1> HIDE DEF w
<1>11. Listed(w) = Listed(r)
  BY <1>10 DEF Listed
<1>12. Lists(now, w)
  <2>1. \A j \in Listed(w) : w.timeout[j] = r.timeout[j]
    <3>1. i \notin Listed(r) /\ Listed(r) \subseteq Timer
      BY <1>5, <1>6, MembersIn
    <3> QED BY <1>8, <1>10, <1>11, <3>1
  <2> QED BY <1>5, <1>9, <1>10, <1>11, <2>1 DEF Lists
<1>13. Spares(r, w, i)
  BY <1>8, <1>10 DEF Spares, SameTimer
<1>14. Spares(v, w, i)
  BY <1>2, <1>5, <1>13, SparesTwice
<1> QED BY <1>2, <1>5, <1>7, <1>8, <1>10, <1>11, <1>12, <1>14 DEF SameThread, Fresh

\* The calls that are one critical section.
LEMMA AtomicOK ==
  ASSUME NEW now, NEW v, NEW i \in Hard \cup Soft, Lists(now, v), NEW op,
         ~ v.there[i] => i \notin Listed(v), NEW w \in AtomicOp(v, op, i)
  PROVE  \/ v.there[i] /\ Tuned(now, v, w, i)
         \/ op = "detach" /\ v.there[i] /\ Detached(now, v, w, i)
         \/ op = "detach" /\ ~ v.there[i] /\ Fresh(now, v, w, i)
<1>1. v.init[i] \in Delay /\ v.periodic[i] \in BOOLEAN
  BY DEF Lists, Record, Timer
<1>2. CASE op = "set_time" /\ v.there[i]
  <2>1. PICK d \in Delay : w = rt_timer_control(v, i, d, v.periodic[i])
    BY <1>2 DEF AtomicOp
  <2> QED BY <1>1, <1>2, <2>1, ControlOK
<1>3. CASE op = "detach" /\ v.there[i]
  <2>1. w = rt_timer_detach(v, i)
    BY <1>3 DEF AtomicOp
  <2> QED BY <1>3, <2>1, DetachOK
<1>4. CASE op = "detach" /\ ~ v.there[i]
  <2>1. w = rt_timer_init(v, i)
    BY <1>4 DEF AtomicOp
  <2> QED BY <1>4, <2>1, InitOK
<1>5. (op = "set_time" /\ v.there[i]) \/ op = "detach"
  BY DEF AtomicOp
<1> QED BY <1>2, <1>3, <1>4, <1>5

\* The callback of a hard timer, if it acts on its own timer.
LEMMA CallbackOK ==
  ASSUME OwnCallbacks, tick \in 0 .. TickMax, NEW r, NEW h \in Hard,
         Lists(tick, r), r.there[h], ~ r.quiet[h], NEW v \in Callback(h, r)
  PROVE  /\ Lists(tick, v) /\ Spares(r, v, h) /\ SameThread(r, v) /\ v.there[h]
         /\ v.quiet[h] => h \notin Listed(v) /\ ~ v.active[h]
<1>1. h \in Timer \ Soft /\ h # "app" /\ h \in Hard \cup Soft
  BY TimerAssumption DEF Timer
<1>2. \A o \in Ops : o[1] = h => o[3] = h /\ o[2] # "detach"
  BY <1>1 DEF OwnCallbacks
<1>3. CASE v = r
  BY <1>3 DEF Spares, SameTimer, SameThread
<1>4. CASE v \in Atomic(h, r)
  <2>1. PICK o \in Ops : o[1] = h /\ v \in AtomicOp(r, o[2], o[3])
    BY <1>4 DEF Atomic
  <2>2. o[3] = h /\ o[2] # "detach"
    BY <1>2, <2>1
  <2>3. Tuned(tick, r, v, h)
    BY <1>1, <2>1, <2>2, AtomicOK
  <2> QED BY <2>3 DEF Tuned
<1>5. ASSUME NEW o \in Ops, o[1] = h,
             v = rt_timer_start(Wanted(r, o[3]), o[3], r.init[o[3]])
      PROVE  /\ Lists(tick, v) /\ Spares(r, v, h) /\ SameThread(r, v) /\ v.there[h]
             /\ ~ v.quiet[h]
  <2> DEFINE u == Wanted(r, h)
  <2>1. o[3] = h
    BY <1>2, <1>5
  <2>2. r.init[h] \in Nat /\ r.init[h] + MaxLate < Half
    <3>1. r.init[h] \in Delay
      BY <1>1 DEF Lists, Record
    <3> QED BY <3>1, TimerAssumption
  <2>3. QuietSet(tick, r, u, h, FALSE)
    BY <1>1, QuietOK DEF Wanted
  <2> HIDE DEF u
  <2>4. /\ Lists(tick, u) /\ Spares(r, u, h) /\ SameThread(r, u)
        /\ u.there = r.there /\ ~ u.quiet[h]
    BY <2>3 DEF QuietSet
  <2>5. v = rt_timer_start(u, h, r.init[h])
    BY <1>5, <2>1 DEF u
  <2>6. /\ Lists(tick, v) /\ Spares(u, v, h) /\ SameThread(u, v)
        /\ v.there = u.there /\ v.quiet = u.quiet
    BY <1>1, <2>2, <2>4, <2>5, StartOK
  <2>7. Spares(r, v, h)
    BY <2>4, <2>6, SparesTwice
  <2> QED BY <2>4, <2>6, <2>7 DEF SameThread
<1>6. ASSUME NEW o \in Ops, o[1] = h, v = rt_timer_stop(r, o[3])
      PROVE  /\ Lists(tick, v) /\ Spares(r, v, h) /\ SameThread(r, v) /\ v.there[h]
             /\ v.quiet[h] => h \notin Listed(v) /\ ~ v.active[h]
  <2>1. o[3] = h
    BY <1>2, <1>6
  <2> QED BY <1>1, <1>6, <2>1, StopOK
<1>7. ASSUME NEW o \in Ops, o[1] = h, NEW b \in BOOLEAN,
             v = rt_timer_control(r, o[3], r.init[o[3]], b)
      PROVE  /\ Lists(tick, v) /\ Spares(r, v, h) /\ SameThread(r, v) /\ v.there[h]
             /\ ~ v.quiet[h]
  <2>1. o[3] = h /\ r.init[h] \in Delay
    BY <1>1, <1>2, <1>7 DEF Lists, Record
  <2>2. Tuned(tick, r, v, h)
    BY <1>1, <1>7, <2>1, ControlOK
  <2> QED BY <2>2 DEF Tuned
<1>8. \/ v = r \/ v \in Atomic(h, r)
      \/ \E o \in Ops : /\ o[1] = h
                        /\ v = rt_timer_start(Wanted(r, o[3]), o[3], r.init[o[3]])
      \/ \E o \in Ops : o[1] = h /\ v = rt_timer_stop(r, o[3])
      \/ \E o \in Ops, b \in BOOLEAN :
           o[1] = h /\ v = rt_timer_control(r, o[3], r.init[o[3]], b)
  BY DEF Callback
<1> QED BY <1>3, <1>4, <1>5, <1>6, <1>7, <1>8

\* The timer thread is made ready or suspended.
ThreadIs(now, v, w, x, b) ==
  /\ Lists(now, w) /\ Spares(v, w, ThreadTimer)
  /\ Listed(w) = Listed(v) /\ w.hard = v.hard /\ w.soft = v.soft
  /\ w.thread = x /\ w.blind = b
  /\ w.active = v.active /\ w.quiet = v.quiet /\ w.there = v.there
  /\ w.timeout = v.timeout /\ w.due = v.due
  /\ w.periodic = v.periodic

LEMMA ThreadSet ==
  ASSUME NEW now, NEW v, Lists(now, v), NEW x \in {"READY", "SUSPEND"},
         NEW b \in BOOLEAN
  PROVE  ThreadIs(now, v, [v EXCEPT !.thread = x, !.blind = b], x, b)
<1> DEFINE w == [v EXCEPT !.thread = x, !.blind = b]
<1>1. v \in Record
  BY DEF Lists
<1>2. w \in Record
  BY <1>1 DEF Record
<1>3. /\ w.quiet = v.quiet /\ w.hard = v.hard /\ w.soft = v.soft /\ w.due = v.due
      /\ w.timeout = v.timeout /\ w.there = v.there /\ w.active = v.active
      /\ w.periodic = v.periodic /\ w.thread = x /\ w.blind = b
  BY <1>1 DEF Record
<1> HIDE DEF w
<1>4. Lists(now, w) /\ Spares(v, w, ThreadTimer) /\ Listed(w) = Listed(v)
  BY <1>2, <1>3, FlagsOK
<1> QED BY <1>3, <1>4 DEF w, ThreadIs

-----------------------------------------------------------------------------
(***************************************************************************)
(* The inductive invariant.                                                *)
(***************************************************************************)
Threads == {"app", "tt"}

InStart(c, i) == c.t = i /\ c.at \in {"timeout", "insert"}

\* What the thread timer, the application's timers and the calls about them agree
\* on.
TimerOK(now, v, c, t, i) ==
  /\ v.active[i] /\ v.there[i] =>
       i \in Listed(v) \/ t.t = i
       \/ \E a \in Threads : c[a].t = i /\ c[a].at \in {"remove", "clear"}
  /\ v.quiet[i] => /\ i \notin Listed(v) /\ (v.there[i] => ~ v.active[i])
                   /\ \A a \in Threads : ~ InStart(c[a], i)
  /\ ~ v.there[i] => /\ i \notin Listed(v) /\ v.quiet[i] /\ t.t # i
                     /\ \A a \in Threads : c[a].t # i
  /\ t.n = i => i \in Members(v.soft) /\ t.t # i /\ c["tt"].t # i
  /\ InStart(c["app"], i) \/ (c["app"].t = i /\ c["app"].at = "clear") =>
       i \notin Listed(v) /\ t.t # i /\ c["tt"].t # i
  /\ InStart(c["tt"], i) \/ (c["tt"].t = i /\ c["tt"].at = "clear") =>
       i \notin Listed(v)
  /\ \A a \in Threads : c[a].t = i /\ c[a].at = "insert" =>
       Synced(now, v.timeout[i], v.due[i])

\* Only the timer thread's callback is changing the kind of a timer, of the one it
\* holds, and the flag has not changed since it was read.
StoreOK(v, c, t) ==
  \A a \in Threads : c[a].at = "store" =>
    a = "tt" /\ c[a].t = t.t /\ c[a].active = v.active[t.t]

Idle(c, t) == c["tt"] = NoCall /\ t.n = Nil /\ t.t = Nil

First(v) == v.soft[1]

ThreadOK(now, v, c, t) ==
  /\ v.thread = "SUSPEND" => t.at = "check" /\ Idle(c, t)
  /\ t.at \in {"suspend", "delta", "delay"} => Idle(c, t)
  /\ t.at = "suspend" => v.soft = << >> \/ v.timeout[First(v)] = TickMax
  /\ t.at = "delta" => v.soft # << >> /\ t.val = v.timeout[First(v)]
  /\ t.at = "delay" => /\ v.soft # << >> /\ t.cur \in 0 .. TickMax
                       /\ t.val = v.due[First(v)] + Minus(now, t.cur)
                       /\ t.val >= 0 /\ t.val + MaxLate < Half

Awaited(v, c, t) ==
  v.thread = "SUSPEND" /\ v.soft # << >> /\ ~ v.blind
    /\ ~ (c["app"].at = "wake" /\ c["app"].t \in Soft) =>
  /\ ThreadTimer \in Members(v.hard)
  /\ v.due[ThreadTimer] <= (IF v.due[First(v)] > 0 THEN v.due[First(v)] ELSE 0) + t.val

CallRange ==
  [at : {"timeout", "insert", "wake", "remove", "clear"}, t : Hard \cup Soft]
    \cup [at : {"store"}, t : Hard \cup Soft, active : BOOLEAN, periodic : BOOLEAN]
    \cup {NoCall}

CallType(c) == c \in [Threads -> CallRange]

TTType(t) ==
  /\ t \in [at : {"next", "suspend", "delta", "delay", "check", "loop",
                  "callback", "finish"},
            val : Int, cur : Int, n : Soft \cup {Nil}, t : Soft \cup {Nil}]
  /\ t.t # Nil <=> t.at \in {"callback", "finish"}
  /\ t.at = "next" => t.n = Nil

Good(now, v, c, t) ==
  /\ now \in 0 .. TickMax
  /\ ~ v.periodic[ThreadTimer] /\ v.there[ThreadTimer]
  /\ Lists(now, v)
  /\ CallType(c) /\ TTType(t)
  /\ \A i \in Timer : TimerOK(now, v, c, t, i)
  /\ StoreOK(v, c, t)
  /\ ThreadOK(now, v, c, t)
  /\ Awaited(v, c, t)

Inv == Good(tick, s, call, tt)

LEMMA StoresTimer ==
  ASSUME NEW c, CallType(c), NEW a \in Threads, c[a].at = "store"
  PROVE  c[a].t \in Hard \cup Soft /\ c[a].periodic \in BOOLEAN
<1>1. c[a] \in CallRange
  BY DEF CallType
<1>2. c[a] # NoCall
  BY DEF NoCall
<1> QED BY <1>1, <1>2 DEF CallRange

\* Nothing that concerns timer j happens to the calls and the timer thread.
SameFor(c, t, c2, t2, j) ==
  /\ \A a \in Threads : c[a].t = j \/ c2[a].t = j => c2[a] = c[a]
  /\ t2.t = j <=> t.t = j
  /\ t2.n = j => t.n = j

\* A timer that a step does not touch stays as it should be.
LEMMA OthersOK ==
  ASSUME NEW now, NEW v, NEW c, NEW t, NEW w, NEW c2, NEW t2, NEW j,
         TimerOK(now, v, c, t, j), SameTimer(v, w, j), SameFor(c, t, c2, t2, j)
  PROVE  TimerOK(now, w, c2, t2, j)
<1>1. /\ j \in Listed(w) <=> j \in Listed(v)
      /\ j \in Members(w.soft) <=> j \in Members(v.soft)
      /\ w.active[j] = v.active[j] /\ w.there[j] = v.there[j]
      /\ w.quiet[j] = v.quiet[j]
      /\ w.timeout[j] = v.timeout[j] /\ w.due[j] = v.due[j]
  BY ListedIs DEF SameTimer
<1>2. \A a \in Threads : c[a].t = j \/ c2[a].t = j => c2[a] = c[a]
  BY DEF SameFor
<1>3. "app" \in Threads /\ "tt" \in Threads
  BY DEF Threads
<1>4. w.active[j] /\ w.there[j] =>
        j \in Listed(w) \/ t2.t = j
        \/ \E a \in Threads : c2[a].t = j /\ c2[a].at \in {"remove", "clear"}
  BY <1>1, <1>2 DEF TimerOK, SameFor
<1>5. w.quiet[j] => /\ j \notin Listed(w) /\ (w.there[j] => ~ w.active[j])
                    /\ \A a \in Threads : ~ InStart(c2[a], j)
  BY <1>1, <1>2 DEF TimerOK, InStart
<1>6. ~ w.there[j] => /\ j \notin Listed(w) /\ w.quiet[j] /\ t2.t # j
                      /\ \A a \in Threads : c2[a].t # j
  BY <1>1, <1>2 DEF TimerOK, SameFor
<1>7. t2.n = j => j \in Members(w.soft) /\ t2.t # j /\ c2["tt"].t # j
  BY <1>1, <1>2, <1>3 DEF TimerOK, SameFor
<1>8. InStart(c2["app"], j) \/ (c2["app"].t = j /\ c2["app"].at = "clear") =>
        j \notin Listed(w) /\ t2.t # j /\ c2["tt"].t # j
  BY <1>1, <1>2, <1>3 DEF TimerOK, SameFor, InStart
<1>9. InStart(c2["tt"], j) \/ (c2["tt"].t = j /\ c2["tt"].at = "clear") =>
        j \notin Listed(w)
  BY <1>1, <1>2, <1>3 DEF TimerOK, SameFor, InStart
<1>10. \A a \in Threads : c2[a].t = j /\ c2[a].at = "insert" =>
         Synced(now, w.timeout[j], w.due[j])
  BY <1>1, <1>2 DEF TimerOK
<1> QED BY <1>4, <1>5, <1>6, <1>7, <1>8, <1>9, <1>10 DEF TimerOK

\* A step that touches timer i only.
LEMMA TouchOK ==
  ASSUME NEW now, NEW v, NEW c, NEW t, NEW w, NEW c2, NEW t2, NEW i \in Timer,
         Good(now, v, c, t), Lists(now, w), Spares(v, w, i),
         w.there[ThreadTimer], CallType(c2), TTType(t2),
         \A j \in Timer \ {i} : SameFor(c, t, c2, t2, j),
         TimerOK(now, w, c2, t2, i), StoreOK(w, c2, t2),
         ThreadOK(now, w, c2, t2), Awaited(w, c2, t2)
  PROVE  Good(now, w, c2, t2)
<1>1. ASSUME NEW j \in Timer PROVE TimerOK(now, w, c2, t2, j)
  <2>1. CASE j = i
    BY <2>1
  <2>2. CASE j # i
    BY <2>2, OthersOK DEF Good, Spares
  <2> QED BY <2>1, <2>2
<1>2. now \in 0 .. TickMax /\ ~ w.periodic[ThreadTimer]
  BY DEF Good, Spares
<1> QED BY <1>1, <1>2 DEF Good

\* A step that leaves the soft timers and the timer thread alone.
LEMMA SoftSame ==
  ASSUME NEW v, NEW w, NEW i, Spares(v, w, i), i \notin Soft
  PROVE  /\ w.soft = v.soft
         /\ \A j \in Soft : w.timeout[j] = v.timeout[j] /\ w.due[j] = v.due[j]
  BY DEF Spares, SameTimer, Timer

LEMMA FirstIs ==
  ASSUME NEW now, NEW v, Lists(now, v), v.soft # << >>
  PROVE  /\ First(v) \in Soft /\ First(v) \in Members(v.soft)
         /\ First(v) = Head(v.soft) /\ 1 \in DOMAIN v.soft
         /\ First(v) \in Listed(v)
<1>1. v.soft \in Seq(Soft)
  BY DEF Lists, Record
<1>2. 1 \in DOMAIN v.soft /\ v.soft[1] \in Soft /\ Head(v.soft) = v.soft[1]
  BY <1>1
<1> QED BY <1>2, ListedIs DEF First, Members

LEMMA ThreadKept ==
  ASSUME NEW now, NEW v, NEW c, NEW t, NEW w, NEW c2, NEW i,
         Lists(now, v), ThreadOK(now, v, c, t), Spares(v, w, i), i \notin Soft,
         SameThread(v, w) \/ w.thread = "READY", c2["tt"] = c["tt"]
  PROVE  ThreadOK(now, w, c2, t)
<1>1. /\ w.soft = v.soft
      /\ \A j \in Soft : w.timeout[j] = v.timeout[j] /\ w.due[j] = v.due[j]
  BY SoftSame
<1>2. w.thread = "SUSPEND" => v.thread = "SUSPEND"
  BY DEF SameThread
<1>3. v.soft # << >> => First(v) \in Soft /\ First(w) = First(v)
  BY <1>1, FirstIs DEF First
<1>4. Idle(c2, t) <=> Idle(c, t)
  BY DEF Idle
<1>5. w.thread = "SUSPEND" => t.at = "check" /\ Idle(c2, t)
  BY <1>2, <1>4 DEF ThreadOK
<1>6. t.at \in {"suspend", "delta", "delay"} => Idle(c2, t)
  BY <1>4 DEF ThreadOK
<1>7. t.at = "suspend" => w.soft = << >> \/ w.timeout[First(w)] = TickMax
  BY <1>1, <1>3 DEF ThreadOK
<1>8. t.at = "delta" => w.soft # << >> /\ t.val = w.timeout[First(w)]
  BY <1>1, <1>3 DEF ThreadOK
<1>9. t.at = "delay" => /\ w.soft # << >> /\ t.cur \in 0 .. TickMax
                        /\ t.val = w.due[First(w)] + Minus(now, t.cur)
                        /\ t.val >= 0 /\ t.val + MaxLate < Half
  BY <1>1, <1>3 DEF ThreadOK
<1> QED BY <1>5, <1>6, <1>7, <1>8, <1>9 DEF ThreadOK

\* While the timer thread runs and computes nothing from the soft list, it is free.
LEMMA ThreadFree ==
  ASSUME NEW now, NEW w, NEW c2, NEW t2, w.thread = "READY",
         t2.at \notin {"suspend", "delta", "delay"}
  PROVE  ThreadOK(now, w, c2, t2) /\ Awaited(w, c2, t2)
  BY DEF ThreadOK, Awaited

\* The soft timers that are left are due no earlier than the first one was.
LEMMA AwaitedKept ==
  ASSUME NEW now, NEW v, NEW c, NEW t, NEW w, NEW c2,
         Lists(now, v), Lists(now, w), TTType(t), Awaited(v, c, t), SameThread(v, w),
         Members(w.soft) \subseteq Members(v.soft),
         \A j \in Members(w.soft) : w.due[j] = v.due[j],
         SameTimer(v, w, ThreadTimer),
         c["app"].at = "wake" /\ c["app"].t \in Soft =>
           c2["app"].at = "wake" /\ c2["app"].t \in Soft
  PROVE  Awaited(w, c2, t)
<1> SUFFICES ASSUME w.thread = "SUSPEND", w.soft # << >>, ~ w.blind,
                    ~ (c2["app"].at = "wake" /\ c2["app"].t \in Soft)
             PROVE  /\ ThreadTimer \in Members(w.hard)
                    /\ w.due[ThreadTimer] <=
                         (IF w.due[First(w)] > 0 THEN w.due[First(w)] ELSE 0) + t.val
  BY DEF Awaited
<1>1. First(w) \in Members(v.soft) /\ w.due[First(w)] = v.due[First(w)]
  BY FirstIs
<1>2. v.soft # << >>
  BY <1>1 DEF Members
<1>3. v.due[First(v)] <= v.due[First(w)]
  <2>1. PICK p \in DOMAIN v.soft : v.soft[p] = First(w)
    BY <1>1 DEF Members
  <2>2. 1 \in DOMAIN v.soft /\ p \in Nat /\ p >= 1 /\ v.due[v.soft[1]] \in Int
    <3>1. v.soft \in Seq(Soft) /\ v.due \in [Timer -> Int]
      BY DEF Lists, Record
    <3> QED BY <1>2, <3>1, FirstIs DEF First, Timer
  <2>3. CASE p = 1
    BY <2>1, <2>2, <2>3 DEF First
  <2>4. CASE p > 1
    BY <2>1, <2>2, <2>4 DEF First, Lists, Ordered
  <2> QED BY <2>2, <2>3, <2>4
<1>4. /\ ThreadTimer \in Members(v.hard)
      /\ v.due[ThreadTimer] <=
           (IF v.due[First(v)] > 0 THEN v.due[First(v)] ELSE 0) + t.val
  BY <1>2 DEF Awaited, SameThread
<1>5. /\ v.due[ThreadTimer] \in Int /\ v.due[First(v)] \in Int
      /\ v.due[First(w)] \in Int /\ t.val \in Int
  <2>1. v.due \in [Timer -> Int] /\ t.val \in Int
    BY DEF Lists, Record, TTType
  <2>2. ThreadTimer \in Timer /\ First(v) \in Timer /\ First(w) \in Timer
    BY <1>2, FirstIs DEF Timer
  <2> QED BY <2>1, <2>2
<1> QED BY <1>1, <1>3, <1>4, <1>5 DEF SameTimer

-----------------------------------------------------------------------------
(***************************************************************************)
(* The initial state and the tick interrupt.                               *)
(***************************************************************************)
LEMMA EmptyList ==
  ASSUME NEW due
  PROVE  /\ Injective(<< >>) /\ Ordered(<< >>, due) /\ Members(<< >>) = {}
  BY DEF Injective, Ordered, Members

LEMMA InitGood ==
  ASSUME TimerInit
  PROVE  Inv
<1>1. /\ tick = 0 /\ s.hard = << >> /\ s.soft = << >> /\ s.thread = "READY"
      /\ s.active = [i \in Timer |-> FALSE]
      /\ s.periodic = [i \in Timer |-> i \in Periodic]
      /\ s.there = [i \in Timer |-> TRUE] /\ s.quiet = [i \in Timer |-> FALSE]
      /\ tt = Thinks
  BY DEF TimerInit
<1>2. call = [a \in Threads |-> NoCall]
  BY DEF TimerInit, Threads
<1>3. s \in Record
  BY TimerAssumption DEF TimerInit, Record
<1>4. Listed(s) = {} /\ Members(s.hard) = {} /\ Members(s.soft) = {}
  BY <1>1, EmptyList, ListedIs
<1>5. Lists(tick, s)
  BY <1>1, <1>3, <1>4, EmptyList DEF Lists
<1>6. CallType(call) /\ \A a \in Threads : call[a] = NoCall
  BY <1>2 DEF CallType, CallRange
<1>7. TTType(tt)
  BY <1>1 DEF TTType, Thinks
<1>8. ASSUME NEW i \in Timer PROVE TimerOK(tick, s, call, tt, i)
  <2>1. i # Nil /\ ~ s.active[i] /\ s.there[i] /\ ~ s.quiet[i]
    BY <1>1, TimerAssumption
  <2>2. tt.t # i /\ tt.n # i /\ \A a \in Threads : call[a].t # i
    BY <1>1, <1>6, <2>1 DEF Thinks, NoCall
  <2>3. call["app"].t # i /\ call["tt"].t # i
    BY <2>2 DEF Threads
  <2> QED BY <1>4, <2>1, <2>2, <2>3 DEF TimerOK, InStart
<1>9. ThreadOK(tick, s, call, tt) /\ Awaited(s, call, tt)
  BY <1>1, ThreadFree DEF Thinks
<1>10. StoreOK(s, call, tt)
  BY <1>6 DEF StoreOK, NoCall
<1>11. tick \in 0 .. TickMax
  BY <1>1, Constants
<1>12. ~ s.periodic[ThreadTimer] /\ s.there[ThreadTimer]
  BY <1>1, TimerAssumption DEF Timer
<1> QED BY <1>5, <1>6, <1>7, <1>8, <1>9, <1>10, <1>11, <1>12 DEF Inv, Good

\* A step that touches neither the calls nor the timer that the timer thread holds.
LEMMA StoreKept ==
  ASSUME NEW now, NEW v, NEW c, NEW t, NEW w, NEW t2, NEW i, Good(now, v, c, t),
         Spares(v, w, i), i \notin Soft, t2.t = t.t
  PROVE  StoreOK(w, c, t2)
<1> SUFFICES ASSUME NEW a \in Threads, c[a].at = "store"
             PROVE  a = "tt" /\ c[a].t = t2.t /\ c[a].active = w.active[t2.t]
  BY DEF StoreOK
<1>1. /\ a = "tt" /\ c[a].t = t.t /\ c[a].active = v.active[t.t]
      /\ CallType(c) /\ TTType(t)
  BY DEF Good, StoreOK
<1>2. t.t \in Hard \cup Soft
  BY <1>1, StoresTimer
<1>3. t.t \in Soft /\ t.t \in Timer /\ t.t # i
  BY <1>1, <1>2, TimerAssumption DEF TTType, Timer
<1> QED BY <1>1, <1>3 DEF Spares, SameTimer

\* A hard timer, or the thread timer, fires.
LEMMA FireOK ==
  ASSUME NEW now, NEW v, NEW c, NEW t, NEW w, NEW i \in Timer \ Soft,
         Good(now, v, c, t), i \in Listed(v), Lists(now, w), Spares(v, w, i),
         (SameThread(v, w) /\ i # ThreadTimer) \/ w.thread = "READY",
         w.there[i], w.active[i] => i \in Listed(w),
         w.quiet[i] => i \notin Listed(w) /\ ~ w.active[i]
  PROVE  Good(now, w, c, t)
<1>1. TimerOK(now, v, c, t, i) /\ Lists(now, v)
  BY DEF Good
<1>2. i \notin Members(v.soft)
  BY <1>1, MembersIn DEF Lists
<1>3. TimerOK(now, w, c, t, i)
  <2>1. /\ ~ InStart(c["app"], i) /\ ~ (c["app"].t = i /\ c["app"].at = "clear")
        /\ ~ InStart(c["tt"], i) /\ ~ (c["tt"].t = i /\ c["tt"].at = "clear")
        /\ t.n # i
    BY <1>1, <1>2 DEF TimerOK
  <2>2. \A a \in Threads : ~ InStart(c[a], i)
    BY <2>1 DEF Threads
  <2> QED BY <2>1, <2>2 DEF TimerOK, InStart
<1>4. \A j \in Timer \ {i} : SameFor(c, t, c, t, j)
  BY DEF SameFor
<1>5. ThreadOK(now, w, c, t)
  BY <1>1, ThreadKept DEF Good
<1>6. Awaited(w, c, t)
  <2>1. CASE w.thread = "READY"
    BY <2>1 DEF Awaited
  <2>2. CASE SameThread(v, w) /\ i # ThreadTimer
    <3>1. /\ w.soft = v.soft
          /\ \A j \in Soft : w.timeout[j] = v.timeout[j] /\ w.due[j] = v.due[j]
      BY SoftSame
    <3>2. SameTimer(v, w, ThreadTimer)
      BY <2>2 DEF Spares, Timer
    <3>3. \A j \in Members(w.soft) : w.due[j] = v.due[j]
      BY <1>1, <3>1, MembersIn DEF Lists
    <3> QED BY <1>1, <2>2, <3>1, <3>2, <3>3, AwaitedKept DEF Good
  <2> QED BY <2>1, <2>2
<1>7. w.there[ThreadTimer]
  BY DEF Spares, SameTimer, Good, Timer
<1>8. StoreOK(w, c, t)
  BY StoreKept
<1> QED BY <1>3, <1>4, <1>5, <1>6, <1>7, <1>8, TouchOK DEF Good

LEMMA HeadIs ==
  ASSUME NEW now, NEW v, Lists(now, v), v.hard # << >>
  PROVE  /\ Head(v.hard) \in Timer \ Soft /\ Head(v.hard) \in Listed(v)
         /\ Head(v.hard) \in Hard \cup {ThreadTimer}
         /\ Head(v.hard) = v.hard[1] /\ 1 \in DOMAIN v.hard
<1>1. v.hard \in Seq(Hard \cup {ThreadTimer})
  BY DEF Lists, Record
<1>2. /\ 1 \in DOMAIN v.hard /\ v.hard[1] \in Hard \cup {ThreadTimer}
      /\ Head(v.hard) = v.hard[1]
  BY <1>1
<1> QED BY <1>2, TimerAssumption DEF Listed, Timer

\* The thread timer is not periodic: it makes the timer thread ready, once.
LEMMA ThreadFires ==
  ASSUME NEW now, NEW r, Lists(now, r), ~ r.periodic[ThreadTimer], r.there[ThreadTimer],
         ThreadTimer \notin Listed(r)
  PROVE  LET w == Finish(rt_thread_timeout(r), ThreadTimer)
         IN  /\ Lists(now, w) /\ Spares(r, w, ThreadTimer) /\ w.thread = "READY"
             /\ w.there[ThreadTimer] /\ ~ w.active[ThreadTimer]
             /\ ThreadTimer \notin Listed(w)
<1> DEFINE u == [r EXCEPT !.thread = "READY", !.blind = r.blind]
           w == Deactivated(u, ThreadTimer)
<1>1. r \in Record /\ r.blind \in BOOLEAN
  BY DEF Lists, Record
<1>2. rt_thread_timeout(r) = u
  BY <1>1 DEF rt_thread_timeout, Record
<1>3. /\ Lists(now, u) /\ Spares(r, u, ThreadTimer) /\ Listed(u) = Listed(r)
      /\ u.thread = "READY" /\ u.there = r.there /\ u.periodic = r.periodic
  <2>1. ThreadIs(now, r, u, "READY", r.blind)
    BY <1>1, ThreadSet
  <2> HIDE DEF u
  <2> QED BY <2>1 DEF ThreadIs
<1>4. Finish(u, ThreadTimer) = w
  BY <1>3 DEF Finish
<1> HIDE DEF u
<1>5. /\ Lists(now, w) /\ Spares(u, w, ThreadTimer) /\ SameThread(u, w)
      /\ Listed(w) = Listed(u) /\ ~ w.active[ThreadTimer] /\ w.there = u.there
  BY <1>3, DeactivatedOK DEF Timer
<1> HIDE DEF w
<1>6. Spares(r, w, ThreadTimer)
  BY <1>3, <1>5, SparesTwice
<1> QED BY <1>2, <1>3, <1>4, <1>5, <1>6 DEF SameThread

LEMMA CheckFireGood ==
  ASSUME OwnCallbacks, Inv, CheckFire
  PROVE  Inv'
<1> DEFINE i == Head(s.hard)
           r == _rt_timer_remove(s, i)
<1>1. s.hard # << >> /\ tick' = tick /\ call' = call /\ tt' = tt
  BY DEF CheckFire, HardPassed
<1>2. \/ i = ThreadTimer /\ s' = Finish(rt_thread_timeout(r), i)
      \/ i # ThreadTimer /\ \E v \in Callback(i, r) : s' = Finish(v, i)
  BY DEF CheckFire
<1>3. /\ Lists(tick, s) /\ tick \in 0 .. TickMax /\ TimerOK(tick, s, call, tt, i)
      /\ ~ s.periodic[ThreadTimer] /\ i \in Timer \ Soft /\ i \in Listed(s)
      /\ i \in Hard \cup {ThreadTimer}
  BY <1>1, HeadIs DEF Inv, Good
<1>4. Removed(tick, s, r, i)
  BY <1>3, RemoveOK
<1>5. s.there[i] /\ ~ s.quiet[i]
  BY <1>3 DEF TimerOK
<1> HIDE DEF r, i
<1>6. /\ Lists(tick, r) /\ Spares(s, r, i) /\ SameThread(s, r) /\ i \notin Listed(r)
      /\ r.there[i] /\ ~ r.quiet[i] /\ r.periodic = s.periodic
  BY <1>4, <1>5 DEF Removed
<1>7. CASE i = ThreadTimer
  <2>1. s' = Finish(rt_thread_timeout(r), ThreadTimer)
    BY <1>2, <1>7
  <2>2. /\ Lists(tick, s') /\ Spares(r, s', ThreadTimer) /\ s'.thread = "READY"
        /\ s'.there[ThreadTimer] /\ ~ s'.active[ThreadTimer]
        /\ ThreadTimer \notin Listed(s')
    BY <1>3, <1>6, <1>7, <2>1, ThreadFires
  <2>3. Spares(s, s', i)
    BY <1>6, <1>7, <2>2, SparesTwice
  <2> QED BY <1>1, <1>3, <1>7, <2>2, <2>3, FireOK DEF Inv
<1>8. CASE i # ThreadTimer
  <2>1. PICK v \in Callback(i, r) : s' = Finish(v, i)
    BY <1>2, <1>8
  <2>2. /\ Lists(tick, v) /\ Spares(r, v, i) /\ SameThread(r, v) /\ v.there[i]
        /\ v.quiet[i] => i \notin Listed(v) /\ ~ v.active[i]
    BY <1>3, <1>6, <1>8, CallbackOK
  <2>3. /\ Lists(tick, s') /\ Spares(v, s', i) /\ SameThread(v, s')
        /\ s'.active[i] => i \in Listed(s') /\ v.active[i]
        /\ i \in Listed(s') => i \in Listed(v) \/ s'.active[i]
        /\ s'.quiet = v.quiet /\ s'.there = v.there
    BY <1>3, <2>1, <2>2, FinishOK
  <2>4. Spares(s, s', i)
    BY <1>6, <2>2, <2>3, SparesTwice
  <2>5. SameThread(s, s')
    BY <1>6, <2>2, <2>3 DEF SameThread
  <2> QED BY <1>1, <1>3, <1>8, <2>2, <2>3, <2>4, <2>5, FireOK DEF Inv
<1> QED BY <1>7, <1>8

\* The time that has passed since b grows by one tick, until it wraps.
LEMMA MinusTick ==
  ASSUME NEW a \in 0 .. TickMax, NEW b \in 0 .. TickMax, Minus(a, b) < TickMax
  PROVE  Minus(Add(a, 1), b) = Minus(a, b) + 1 /\ Minus(a, b) \in Nat
<1>1. 1 \in 0 .. TickMax
  BY Constants
<1>2. Add(a, 1) = IF a + 1 <= TickMax THEN a + 1 ELSE a + 1 - (TickMax + 1)
  BY <1>1, AddFacts
<1>3. Minus(a, b) = IF a >= b THEN a - b ELSE a - b + TickMax + 1
  BY MinusFacts
<1>4. Add(a, 1) \in 0 .. TickMax
  BY <1>2, Constants
<1>5. Minus(Add(a, 1), b) = IF Add(a, 1) >= b THEN Add(a, 1) - b
                            ELSE Add(a, 1) - b + TickMax + 1
  BY <1>4, MinusFacts
<1> HIDE DEF Minus, Add
<1> QED BY <1>2, <1>3, <1>4, <1>5, Constants

LEMMA TickGood ==
  ASSUME Inv, Tick
  PROVE  Inv'
<1> DEFINE f == [i \in Timer |->
                   IF i \in Listed(s) \cup Pending THEN s.due[i] - 1 ELSE s.due[i]]
           On(i) == i \in Listed(s) \cup Pending
<1>1. /\ \A i \in Timer : s.due[i] > - MaxLate
      /\ tick' = Add(tick, 1) /\ call' = call /\ tt' = tt
      /\ s' = [s EXCEPT !.due = f]
  BY DEF Tick
<1>2. /\ Lists(tick, s) /\ tick \in 0 .. TickMax /\ s \in Record
      /\ s.due \in [Timer -> Int] /\ CallType(call) /\ TTType(tt)
      /\ \A i \in Timer : TimerOK(tick, s, call, tt, i)
      /\ ThreadOK(tick, s, call, tt) /\ Awaited(s, call, tt)
  BY DEF Inv, Good, Lists, Record
<1>3. /\ f \in [Timer -> Int]
      /\ \A i \in Timer : f[i] = IF On(i) THEN s.due[i] - 1 ELSE s.due[i]
  BY <1>2
<1> HIDE DEF f
<1>4. /\ s' \in Record /\ s'.due = f /\ s'.hard = s.hard /\ s'.soft = s.soft
      /\ s'.timeout = s.timeout /\ s'.active = s.active /\ s'.there = s.there
      /\ s'.quiet = s.quiet /\ s'.periodic = s.periodic
      /\ s'.thread = s.thread /\ s'.blind = s.blind
  BY <1>1, <1>2, <1>3 DEF Record
<1>5. /\ Listed(s') = Listed(s)
      /\ Members(s'.hard) = Members(s.hard) /\ Members(s'.soft) = Members(s.soft)
      /\ Listed(s) \subseteq Timer
  BY <1>2, <1>4, ListedIs, MembersIn
<1>6. tick' \in 0 .. TickMax
  <2>1. 1 \in 0 .. TickMax
    BY Constants
  <2>2. Add(tick, 1) = IF tick + 1 <= TickMax THEN tick + 1
                       ELSE tick + 1 - (TickMax + 1)
    BY <1>2, <2>1, AddFacts
  <2> QED BY <1>1, <1>2, <2>2, Constants
<1>7. ASSUME NEW i \in Timer, On(i), Synced(tick, s.timeout[i], s.due[i])
      PROVE  Synced(tick', s'.timeout[i], s'.due[i])
  <2>1. s.due[i] \in Int /\ s.due[i] > - MaxLate
    BY <1>1, <1>2
  <2>2. Synced(Add(tick, 1), s.timeout[i], s.due[i] - 1)
    BY <1>2, <1>7, <2>1, StaysSynced
  <2> QED BY <1>1, <1>3, <1>4, <1>7, <2>2
<1>8. /\ \A p \in DOMAIN s.hard : /\ f[s.hard[p]] = s.due[s.hard[p]] - 1
                                  /\ s.due[s.hard[p]] \in Int
      /\ \A p \in DOMAIN s.soft : /\ f[s.soft[p]] = s.due[s.soft[p]] - 1
                                  /\ s.due[s.soft[p]] \in Int
  <2>1. /\ \A p \in DOMAIN s.hard : s.hard[p] \in Listed(s)
        /\ \A p \in DOMAIN s.soft : s.soft[p] \in Listed(s)
    BY DEF Listed
  <2> QED BY <1>2, <1>3, <1>5, <2>1
<1>9. Lists(tick', s')
  <2>1. Ordered(s'.hard, s'.due)
    BY <1>2, <1>4, <1>8 DEF Lists, Ordered
  <2>2. Ordered(s'.soft, s'.due)
    BY <1>2, <1>4, <1>8 DEF Lists, Ordered
  <2>3. ASSUME NEW i \in Listed(s') PROVE Synced(tick', s'.timeout[i], s'.due[i])
    BY <1>2, <1>5, <1>7 DEF Lists
  <2> QED BY <1>2, <1>4, <2>1, <2>2, <2>3 DEF Lists
<1>10. ASSUME NEW i \in Timer PROVE TimerOK(tick', s', call', tt', i)
  <2>1. ASSUME NEW a \in Threads, call[a].t = i, call[a].at = "insert"
        PROVE  Synced(tick', s'.timeout[i], s'.due[i])
    <3>1. i \in Pending
      BY <2>1 DEF Pending, Threads
    <3>2. Synced(tick, s.timeout[i], s.due[i])
      BY <1>2, <2>1 DEF TimerOK
    <3> QED BY <1>7, <3>1, <3>2
  <2>2. TimerOK(tick, s, call, tt, i)
    BY <1>2
  <2> QED BY <1>1, <1>4, <1>5, <2>1, <2>2 DEF TimerOK
<1>11. s.soft # << >> => /\ First(s') = First(s) /\ First(s) \in Timer
                         /\ s'.due[First(s)] = s.due[First(s)] - 1
                         /\ s.due[First(s)] \in Int
                         /\ s.due[First(s)] >= - MaxLate
  <2> SUFFICES ASSUME s.soft # << >>
               PROVE  /\ First(s') = First(s) /\ First(s) \in Timer
                      /\ s'.due[First(s)] = s.due[First(s)] - 1
                      /\ s.due[First(s)] \in Int
                      /\ s.due[First(s)] >= - MaxLate
    OBVIOUS
  <2>1. First(s) \in Listed(s) /\ First(s) \in Timer
    BY <1>2, <1>5, FirstIs
  <2>2. Synced(tick, s.timeout[First(s)], s.due[First(s)])
    BY <1>2, <2>1 DEF Lists
  <2> QED BY <1>2, <1>3, <1>4, <2>1, <2>2, Constants DEF First, Synced
<1>12. ThreadOK(tick', s', call', tt')
  <2>1. ASSUME tt.at = "delay"
        PROVE  tt.val = s'.due[First(s')] + Minus(tick', tt.cur)
    <3>1. /\ s.soft # << >> /\ tt.cur \in 0 .. TickMax
          /\ tt.val = s.due[First(s)] + Minus(tick, tt.cur)
          /\ tt.val + MaxLate < Half /\ tt.val \in Int
      BY <1>2, <2>1 DEF ThreadOK, TTType
    <3>2. Minus(tick, tt.cur) = IF tick >= tt.cur THEN tick - tt.cur
                                ELSE tick - tt.cur + TickMax + 1
      BY <1>2, <3>1, MinusFacts
    <3>3. Minus(tick, tt.cur) < TickMax
      BY SMTT(60), <1>2, <1>11, <3>1, <3>2, Constants
    <3>4. Minus(Add(tick, 1), tt.cur) = Minus(tick, tt.cur) + 1
          /\ Minus(tick, tt.cur) \in Nat
      BY <1>2, <3>1, <3>3, MinusTick
    <3> QED BY <1>1, <1>11, <3>1, <3>4
  <2> QED BY <1>1, <1>2, <1>4, <1>11, <2>1 DEF ThreadOK
<1>13. Awaited(s', call', tt')
  <2> SUFFICES ASSUME s.thread = "SUSPEND", s.soft # << >>, ~ s.blind,
                      ~ (call["app"].at = "wake" /\ call["app"].t \in Soft)
               PROVE  /\ ThreadTimer \in Members(s.hard)
                      /\ s'.due[ThreadTimer] <=
                           (IF s'.due[First(s)] > 0 THEN s'.due[First(s)] ELSE 0)
                           + tt.val
    BY <1>1, <1>4, <1>5, <1>11 DEF Awaited
  <2>1. /\ ThreadTimer \in Members(s.hard)
        /\ s.due[ThreadTimer] <=
             (IF s.due[First(s)] > 0 THEN s.due[First(s)] ELSE 0) + tt.val
    BY <1>2 DEF Awaited
  <2>2. ThreadTimer \in Timer /\ ThreadTimer \in Listed(s)
    BY <2>1, ListedIs DEF Timer
  <2>3. s'.due[ThreadTimer] = s.due[ThreadTimer] - 1 /\ s.due[ThreadTimer] \in Int
    BY <1>2, <1>3, <1>4, <2>2
  <2>4. tt.val \in Int
    BY <1>2 DEF TTType
  <2> QED BY <1>11, <2>1, <2>3, <2>4
<1>14. ~ s'.periodic[ThreadTimer] /\ s'.there[ThreadTimer]
  BY <1>4 DEF Inv, Good
<1>15. CallType(call') /\ TTType(tt')
  BY <1>1, <1>2
<1>16. StoreOK(s', call', tt')
  BY <1>1, <1>4 DEF Inv, Good, StoreOK
<1> QED BY <1>6, <1>9, <1>10, <1>12, <1>13, <1>14, <1>15, <1>16 DEF Inv, Good

-----------------------------------------------------------------------------
(***************************************************************************)
(* Calls made by a thread.                                                 *)
(***************************************************************************)
LEMMA CallFacts ==
  ASSUME NEW c, CallType(c), NEW a \in Threads
  PROVE  /\ c \in [Threads -> CallRange]
         /\ c[a] \in CallRange
         /\ c[a].at = "none" => c[a] = NoCall
         /\ c[a].at # "none" => c[a].t \in Hard \cup Soft
         /\ c[a].at = "none" => c[a].t = Nil
<1>1. c \in [Threads -> CallRange]
  BY DEF CallType
<1>2. c[a] \in CallRange
  BY <1>1
<1>3. CASE c[a] = NoCall
  BY <1>1, <1>2, <1>3 DEF NoCall
<1>4. CASE c[a] \in [at : {"timeout", "insert", "wake", "remove", "clear"},
                     t : Hard \cup Soft]
  <2>1. c[a].at # "none" /\ c[a].t \in Hard \cup Soft
    BY <1>4
  <2> QED BY <1>1, <1>2, <2>1
<1>5. CASE c[a] \in [at : {"store"}, t : Hard \cup Soft,
                     active : BOOLEAN, periodic : BOOLEAN]
  <2>1. c[a].at # "none" /\ c[a].t \in Hard \cup Soft
    BY <1>5
  <2> QED BY <1>1, <1>2, <2>1
<1> QED BY <1>2, <1>3, <1>4, <1>5 DEF CallRange

\* A thread's call about timer i goes on: the other timers are not concerned.
Moved(c, c2, a, x, i, t) ==
  /\ CallType(c2) /\ c2[a] = x
  /\ \A b \in Threads \ {a} : c2[b] = c[b]
  /\ \A j \in Timer \ {i} : SameFor(c, t, c2, t, j)

LEMMA CallMoves ==
  ASSUME NEW c, CallType(c), NEW a \in Threads, NEW i \in Timer, NEW x \in CallRange,
         c[a].t \in {i, Nil}, x.t \in {i, Nil}, NEW t
  PROVE  Moved(c, [c EXCEPT ![a] = x], a, x, i, t)
<1> DEFINE c2 == [c EXCEPT ![a] = x]
<1>1. c \in [Threads -> CallRange]
  BY CallFacts
<1>2. /\ c2 \in [Threads -> CallRange] /\ c2[a] = x
      /\ \A b \in Threads \ {a} : c2[b] = c[b]
  BY <1>1
<1> HIDE DEF c2
<1>3. CallType(c2)
  BY <1>2 DEF CallType
<1>4. ASSUME NEW j \in Timer \ {i} PROVE SameFor(c, t, c2, t, j)
  <2>1. j # Nil /\ c[a].t # j /\ c2[a].t # j
    BY <1>2, TimerAssumption
  <2> QED BY <1>2, <2>1 DEF SameFor
<1> QED BY <1>2, <1>3, <1>4 DEF c2, Moved

\* The application moves only while the timer thread is suspended and idle.
LEMMA AppThread ==
  ASSUME NEW now, NEW v, NEW c, NEW t, NEW w, NEW c2,
         ThreadOK(now, v, c, t), v.thread = "SUSPEND", c2["tt"] = c["tt"]
  PROVE  ThreadOK(now, w, c2, t) /\ Idle(c, t) /\ t.at = "check"
<1>1. Idle(c, t) /\ t.at = "check"
  BY DEF ThreadOK
<1>2. Idle(c2, t)
  BY <1>1 DEF Idle
<1> QED BY <1>1, <1>2 DEF ThreadOK

\* A call about timer i keeps the timer thread's sleep short enough.
LEMMA AppAwaits ==
  ASSUME NEW now, NEW v, NEW c, NEW t, NEW w, NEW c2, NEW i \in Hard \cup Soft,
         Good(now, v, c, t), Lists(now, w), Spares(v, w, i), SameThread(v, w),
         i \in Soft => i \notin Members(w.soft),
         ~ (c["app"].at = "wake" /\ c["app"].t \in Soft)
  PROVE  Awaited(w, c2, t)
<1>1. i # ThreadTimer /\ ThreadTimer \in Timer
  BY TimerAssumption DEF Timer
<1>2. SameTimer(v, w, ThreadTimer)
  BY <1>1 DEF Spares
<1>3. Lists(now, v) /\ v \in Record /\ w \in Record /\ TTType(t) /\ Awaited(v, c, t)
  BY DEF Good, Lists
<1>4. ASSUME NEW j \in Members(w.soft)
      PROVE  j \in Members(v.soft) /\ w.due[j] = v.due[j]
  <2>1. j \in Soft /\ j \in Timer /\ j # i
    BY <1>3, MembersIn, TimerAssumption DEF Timer
  <2> QED BY <2>1 DEF Spares, SameTimer
<1> QED BY <1>2, <1>3, <1>4, AwaitedKept

\* One step of a call by thread a.
LEMMA CallFrame ==
  ASSUME NEW a \in Threads, NEW i \in Hard \cup Soft, NEW x \in CallRange, NEW w,
         Inv, Runs(a), call[a].t \in {i, Nil}, x.t \in {i, Nil},
         a = "tt" => call[a].t = i \/ tt.t = i,
         x.at = "store" => a = "tt" /\ x.t = tt.t /\ x.active = w.active[tt.t],
         Lists(tick, w), Spares(s, w, i), SameThread(s, w),
         TimerOK(tick, w, [call EXCEPT ![a] = x], tt, i),
         a = "app" => Awaited(w, [call EXCEPT ![a] = x], tt)
  PROVE  Good(tick, w, [call EXCEPT ![a] = x], tt)
<1> DEFINE c2 == [call EXCEPT ![a] = x]
<1>1. /\ Good(tick, s, call, tt) /\ CallType(call) /\ TTType(tt)
      /\ ThreadOK(tick, s, call, tt)
  BY DEF Inv, Good
<1>2. i \in Timer /\ i # ThreadTimer /\ ThreadTimer \in Timer /\ i # Nil
  BY TimerAssumption DEF Timer
<1>3. /\ CallType(c2) /\ c2[a] = x /\ \A b \in Threads \ {a} : c2[b] = call[b]
      /\ \A j \in Timer \ {i} : SameFor(call, tt, c2, tt, j)
  <2>1. Moved(call, c2, a, x, i, tt)
    BY <1>1, <1>2, CallMoves
  <2> HIDE DEF c2
  <2> QED BY <2>1 DEF Moved
<1> HIDE DEF c2
<1>4. w.there[ThreadTimer]
  BY <1>1, <1>2 DEF Spares, SameTimer, Good
<1>5. ThreadOK(tick, w, c2, tt) /\ Awaited(w, c2, tt)
  <2>1. CASE a = "app"
    <3>1. s.thread = "SUSPEND" /\ c2["tt"] = call["tt"]
      BY <1>3, <2>1 DEF Runs, Threads
    <3> QED BY <1>1, <2>1, <3>1, AppThread DEF c2
  <2>2. CASE a = "tt"
    <3>1. w.thread = "READY"
      BY <2>2 DEF Runs, SameThread
    <3>2. ~ Idle(call, tt)
      BY <1>2, <2>2 DEF Idle, NoCall
    <3> QED BY <1>1, <3>1, <3>2, ThreadFree DEF ThreadOK
  <2> QED BY <2>1, <2>2 DEF Threads
<1>6. TimerOK(tick, w, c2, tt, i)
  BY DEF c2
<1>7. StoreOK(w, c2, tt)
  <2>1. ASSUME NEW b \in Threads \ {a} PROVE call[b].at # "store"
    <3>1. b = "tt" => s.thread = "SUSPEND"
      BY <2>1 DEF Runs, Threads
    <3>2. b = "tt" => call[b] = NoCall
      BY <1>1, <3>1 DEF ThreadOK, Idle
    <3> QED BY <1>1, <3>2 DEF Good, StoreOK, NoCall
  <2> QED BY <1>3, <2>1 DEF StoreOK
<1>8. Good(tick, w, c2, tt)
  BY <1>1, <1>2, <1>3, <1>4, <1>5, <1>6, <1>7, TouchOK
<1> QED BY <1>8 DEF c2

\* What thread a knows of timer i, which its call is about: the other thread is
\* neither starting nor stopping it.
Own(c, t, a, i) ==
  /\ t.n # i
  /\ \A b \in Threads \ {a} : ~ InStart(c[b], i) /\ ~ (c[b].t = i /\ c[b].at = "clear")
  /\ a = "app" => t.t # i /\ c["tt"].t # i

LEMMA CallOwns ==
  ASSUME NEW a \in Threads, NEW i \in Hard \cup Soft, Inv, Runs(a),
         call[a].t = i
  PROVE  /\ Own(call, tt, a, i) /\ s.there[i]
         /\ InStart(call[a], i) => i \notin Listed(s) /\ ~ s.quiet[i]
         /\ call[a].at = "clear" => i \notin Listed(s)
<1>1. TimerOK(tick, s, call, tt, i) /\ ThreadOK(tick, s, call, tt)
  BY DEF Inv, Good, Timer
<1>2. i # Nil
  BY TimerAssumption DEF Timer
<1>3. Own(call, tt, a, i)
  <2>1. CASE a = "app"
    <3>1. Idle(call, tt)
      BY <1>1, <2>1 DEF Runs, ThreadOK
    <3>2. call["tt"].t = Nil /\ tt.n = Nil /\ tt.t = Nil
      BY <3>1 DEF Idle, NoCall
    <3> QED BY <1>2, <2>1, <3>2 DEF Own, Threads, InStart
  <2>2. CASE a = "tt"
    BY <1>1, <2>2 DEF Own, Threads, TimerOK
  <2> QED BY <2>1, <2>2 DEF Threads
<1>4. s.there[i] /\ (InStart(call[a], i) => ~ s.quiet[i])
  BY <1>1 DEF TimerOK
<1>5. InStart(call[a], i) \/ call[a].at = "clear" => i \notin Listed(s)
  BY <1>1 DEF TimerOK, Threads
<1> QED BY <1>3, <1>4, <1>5

\* After a step of that thread the timer is as the step has left it.
Leaves(now, w, c, t, a, i, c2) ==
  /\ Own(c, t, a, i) /\ w.there[i]
  /\ \A b \in Threads \ {a} : c2[b] = c[b]
  /\ \/ ~ w.active[i] \/ i \in Listed(w) \/ t.t = i
     \/ \E b \in Threads : c2[b].t = i /\ c2[b].at \in {"remove", "clear"}
  /\ w.quiet[i] => i \notin Listed(w) /\ ~ w.active[i] /\ ~ InStart(c2[a], i)
  /\ InStart(c2[a], i) \/ (c2[a].t = i /\ c2[a].at = "clear") => i \notin Listed(w)
  /\ c2[a].t = i /\ c2[a].at = "insert" => Synced(now, w.timeout[i], w.due[i])

LEMMA OwnOK ==
  ASSUME NEW now, NEW w, NEW c, NEW t, NEW a \in Threads, NEW i, NEW c2,
         Leaves(now, w, c, t, a, i, c2)
  PROVE  TimerOK(now, w, c2, t, i)
<1>1. \A b \in Threads \ {a} : ~ InStart(c2[b], i) /\ ~ (c2[b].t = i /\ c2[b].at = "clear")
  BY DEF Own, Leaves
<1>2. t.n # i
  BY DEF Own, Leaves
<1>3. InStart(c2["app"], i) \/ (c2["app"].t = i /\ c2["app"].at = "clear") =>
        i \notin Listed(w) /\ t.t # i /\ c2["tt"].t # i
  <2>1. CASE a = "app"
    BY <2>1 DEF Own, Threads, Leaves
  <2>2. CASE a = "tt"
    BY <1>1, <2>2 DEF Threads
  <2> QED BY <2>1, <2>2 DEF Threads
<1>4. InStart(c2["tt"], i) \/ (c2["tt"].t = i /\ c2["tt"].at = "clear") =>
        i \notin Listed(w)
  BY <1>1 DEF Threads, Leaves
<1>5. \A b \in Threads : c2[b].t = i /\ c2[b].at = "insert" =>
        Synced(now, w.timeout[i], w.due[i])
  BY <1>1 DEF InStart, Leaves
<1>6. w.quiet[i] => \A b \in Threads : ~ InStart(c2[b], i)
  BY <1>1 DEF Leaves
<1> QED BY <1>2, <1>3, <1>4, <1>5, <1>6 DEF TimerOK, Leaves

LEMMA GotoIs ==
  ASSUME NEW a \in Threads, NEW l, Goto(a, l), CallType(call), call[a].at # "none"
  PROVE  /\ l # "none" /\ call[a].at # "store" =>
              call' = [call EXCEPT ![a] = [at |-> l, t |-> call[a].t]]
         /\ l = "none" => call' = [call EXCEPT ![a] = NoCall]
         /\ l \in {"timeout", "insert", "wake", "remove", "clear"} =>
              [at |-> l, t |-> call[a].t] \in CallRange
<1>1. /\ call[a] \in CallRange /\ call[a] # NoCall /\ call \in [Threads -> CallRange]
      /\ call[a].t \in Hard \cup Soft
  BY CallFacts DEF NoCall
<1>2. call[a].at # "store" => [call[a] EXCEPT !.at = l] = [at |-> l, t |-> call[a].t]
  <2> SUFFICES ASSUME call[a].at # "store"
               PROVE  [call[a] EXCEPT !.at = l] = [at |-> l, t |-> call[a].t]
    OBVIOUS
  <2>1. call[a] \in [at : {"timeout", "insert", "wake", "remove", "clear"},
                     t : Hard \cup Soft]
    <3>1. call[a] \notin [at : {"store"}, t : Hard \cup Soft,
                          active : BOOLEAN, periodic : BOOLEAN]
      OBVIOUS
    <3> QED BY <1>1, <3>1 DEF CallRange
  <2> QED BY <2>1
<1>3. l = "none" => call' = [call EXCEPT ![a] = NoCall]
  BY DEF Goto
<1>4. l # "none" /\ call[a].at # "store" =>
        call' = [call EXCEPT ![a] = [at |-> l, t |-> call[a].t]]
  BY <1>1, <1>2 DEF Goto
<1> QED BY <1>1, <1>3, <1>4 DEF CallRange

\* rt_timer_start computes the timeout.
LEMMA StepTimeout ==
  ASSUME NEW a \in Threads, NEW i, Inv, InCall(a, "timeout"), i = call[a].t,
         s' = StartTimeout(s, i, s.init[i]), Goto(a, "insert"),
         UNCHANGED <<tick, isr, tt>>
  PROVE  Inv'
<1> DEFINE x == [at |-> "insert", t |-> i]
           w == StartTimeout(s, i, s.init[i])
           c2 == [call EXCEPT ![a] = x]
<1>1. /\ Runs(a) /\ call[a].at = "timeout" /\ CallType(call) /\ Lists(tick, s)
      /\ tick \in 0 .. TickMax /\ Good(tick, s, call, tt)
      /\ s.init \in [Timer -> Delay]
  BY DEF InCall, Inv, Good, Lists, Record
<1>2. /\ i \in Hard \cup Soft /\ i \in Timer /\ call \in [Threads -> CallRange]
      /\ call[a] \in CallRange
  BY <1>1, CallFacts DEF Timer
<1>3. call' = c2 /\ x \in CallRange
  BY <1>1, <1>2, GotoIs
<1>4. /\ Own(call, tt, a, i) /\ s.there[i] /\ i \notin Listed(s) /\ ~ s.quiet[i]
  BY <1>1, <1>2, CallOwns DEF InStart
<1>5. s.init[i] \in Nat /\ s.init[i] + MaxLate < Half
  <2>1. s.init[i] \in Delay
    BY <1>1, <1>2
  <2> QED BY <2>1, TimerAssumption
<1>6. /\ Lists(tick, w) /\ Spares(s, w, i) /\ SameThread(s, w)
      /\ Listed(w) = Listed(s) /\ w.soft = s.soft
      /\ Synced(tick, w.timeout[i], w.due[i])
      /\ w.active = s.active /\ w.there = s.there /\ w.quiet = s.quiet
  <2> DEFINE d == s.init[i]
             u == StartTimeout(s, i, d)
  <2>1. w = u
    OBVIOUS
  <2>2. d \in Nat /\ d + MaxLate < Half
    BY <1>5
  <2> HIDE DEF d
  <2>3. /\ Lists(tick, u) /\ Spares(s, u, i) /\ SameThread(s, u)
        /\ Listed(u) = Listed(s) /\ u.soft = s.soft
        /\ Synced(tick, u.timeout[i], u.due[i])
        /\ u.active = s.active /\ u.there = s.there /\ u.quiet = s.quiet
    BY <1>1, <1>2, <1>4, <2>2, TimeoutOK
  <2> HIDE DEF u, w
  <2> QED BY <2>1, <2>3
<1> HIDE DEF w
<1>7. /\ \A b \in Threads \ {a} : c2[b] = call[b]
      /\ c2[a] = x
  BY <1>2
<1>8. \/ ~ w.active[i] \/ i \in Listed(w) \/ tt.t = i
      \/ \E b \in Threads : c2[b].t = i /\ c2[b].at \in {"remove", "clear"}
  BY <1>1, <1>2, <1>4, <1>6, <1>7 DEF Good, TimerOK
<1>9. TimerOK(tick, w, c2, tt, i)
  <2>1. w.there[i] /\ ~ w.quiet[i] /\ i \notin Listed(w)
    BY <1>4, <1>6
  <2> HIDE DEF c2
  <2>2. Leaves(tick, w, call, tt, a, i, c2)
    BY <1>4, <1>6, <1>7, <1>8, <2>1 DEF Leaves
  <2> QED BY <2>2, OwnOK
<1>10. a = "app" => Awaited(w, c2, tt)
  <2>1. i \notin Members(w.soft)
    BY <1>4, <1>6, ListedIs
  <2> QED BY <1>1, <1>2, <1>6, <2>1, AppAwaits
<1>11. Good(tick, w, c2, tt)
  BY <1>1, <1>2, <1>3, <1>6, <1>9, <1>10, CallFrame
<1> QED BY <1>3, <1>11 DEF Inv, w

\* rt_timer_start inserts the timer.
LEMMA StepInsert ==
  ASSUME NEW a \in Threads, NEW i, Inv, InCall(a, "insert"), i = call[a].t,
         s' = StartInsert(s, i), Goto(a, "wake"), UNCHANGED <<tick, isr, tt>>
  PROVE  Inv'
<1> DEFINE x == [at |-> "wake", t |-> i]
           w == StartInsert(s, i)
           c2 == [call EXCEPT ![a] = x]
<1>1. /\ Runs(a) /\ call[a].at = "insert" /\ CallType(call) /\ Lists(tick, s)
      /\ tick \in 0 .. TickMax /\ Good(tick, s, call, tt)
  BY DEF InCall, Inv, Good
<1>2. /\ i \in Hard \cup Soft /\ i \in Timer /\ call \in [Threads -> CallRange]
      /\ call[a] \in CallRange
  BY <1>1, CallFacts DEF Timer
<1>3. call' = c2 /\ x \in CallRange
  BY <1>1, <1>2, GotoIs
<1>4. /\ Own(call, tt, a, i) /\ s.there[i] /\ i \notin Listed(s) /\ ~ s.quiet[i]
  BY <1>1, <1>2, CallOwns DEF InStart
<1>5. Synced(tick, s.timeout[i], s.due[i])
  BY <1>1, <1>2 DEF Good, TimerOK
<1>6. /\ Lists(tick, w) /\ Spares(s, w, i) /\ SameThread(s, w)
      /\ Listed(w) = Listed(s) \cup {i}
      /\ w.there = s.there /\ w.quiet = s.quiet
  BY <1>1, <1>2, <1>4, <1>5, InsertOK
<1> HIDE DEF w
<1>7. /\ \A b \in Threads \ {a} : c2[b] = call[b]
      /\ c2[a] = x
  BY <1>2
<1>8. TimerOK(tick, w, c2, tt, i)
  <2>1. w.there[i] /\ ~ w.quiet[i] /\ i \in Listed(w)
    BY <1>4, <1>6
  <2>2. ~ InStart(c2[a], i) /\ c2[a].at = "wake"
    BY <1>7 DEF InStart
  <2> HIDE DEF c2
  <2>3. Leaves(tick, w, call, tt, a, i, c2)
    BY <1>4, <1>6, <1>7, <2>1, <2>2 DEF Leaves
  <2> QED BY <2>3, OwnOK
<1>9. a = "app" => Awaited(w, c2, tt)
  <2>1. ASSUME a = "app", i \notin Soft PROVE Awaited(w, c2, tt)
    BY <1>1, <1>2, <1>6, <2>1, AppAwaits
  <2>2. ASSUME a = "app", i \in Soft PROVE Awaited(w, c2, tt)
    BY <1>7, <2>2 DEF Awaited
  <2> QED BY <2>1, <2>2
<1>10. Good(tick, w, c2, tt)
  BY <1>1, <1>2, <1>3, <1>6, <1>8, <1>9, CallFrame
<1> QED BY <1>3, <1>10 DEF Inv, w

\* The thread timer is stopped, and the timer thread is given a new state.
Stopped(now, v, x, b, w) ==
  /\ Lists(now, w) /\ Spares(v, w, ThreadTimer) /\ w.there[ThreadTimer]
  /\ w.thread = x /\ w.blind = b /\ w.soft = v.soft
  /\ ~ w.active[ThreadTimer]
  /\ w.quiet[ThreadTimer] => ThreadTimer \notin Listed(w)

LEMMA StopThread ==
  ASSUME NEW now, NEW v, NEW c, NEW t, NEW x \in {"READY", "SUSPEND"}, NEW b \in BOOLEAN,
         Good(now, v, c, t)
  PROVE  Stopped(now, v, x, b,
                 [rt_timer_stop(v, ThreadTimer) EXCEPT !.thread = x, !.blind = b])
<1> DEFINE u == rt_timer_stop(v, ThreadTimer)
           w == [u EXCEPT !.thread = x, !.blind = b]
<1>1. /\ Lists(now, v) /\ TimerOK(now, v, c, t, ThreadTimer) /\ v.there[ThreadTimer]
      /\ ThreadTimer \in Timer /\ ThreadTimer \notin Soft
  BY TimerAssumption DEF Good, Timer
<1>2. /\ Lists(now, u) /\ Spares(v, u, ThreadTimer) /\ ~ u.active[ThreadTimer]
      /\ u.there = v.there
      /\ v.active[ThreadTimer] => ThreadTimer \notin Listed(u)
      /\ ~ v.active[ThreadTimer] => u = v
  BY <1>1, StopOK
<1> HIDE DEF u
<1>3. ThreadIs(now, u, w, x, b)
  BY <1>2, ThreadSet
<1> HIDE DEF w
<1>4. /\ Lists(now, w) /\ Spares(u, w, ThreadTimer) /\ Listed(w) = Listed(u)
      /\ w.thread = x /\ w.blind = b /\ w.active = u.active /\ w.quiet = u.quiet
      /\ w.there = u.there
  BY <1>3 DEF ThreadIs
<1>5. Spares(v, w, ThreadTimer)
  BY <1>2, <1>4, SparesTwice
<1>6. w.soft = v.soft
  BY <1>1, <1>5 DEF Spares
<1>7. w.quiet[ThreadTimer] => ThreadTimer \notin Listed(w)
  BY <1>1, <1>2, <1>4 DEF TimerOK
<1> QED BY <1>1, <1>2, <1>4, <1>5, <1>6, <1>7 DEF u, w, Stopped

\* A step of the timer thread, or about its timer, that leaves the calls alone.
LEMMA ThreadTouch ==
  ASSUME NEW now, NEW v, NEW c, NEW t, NEW w, NEW t2, Good(now, v, c, t),
         Lists(now, w), Spares(v, w, ThreadTimer), w.there[ThreadTimer], TTType(t2),
         t2.t = t.t, t2.n \in {t.n, Nil},
         w.active[ThreadTimer] => ThreadTimer \in Listed(w),
         w.quiet[ThreadTimer] => ThreadTimer \notin Listed(w) /\ ~ w.active[ThreadTimer],
         ThreadOK(now, w, c, t2), Awaited(w, c, t2)
  PROVE  Good(now, w, c, t2)
<1>1. CallType(c) /\ TTType(t) /\ ThreadTimer \in Timer /\ ThreadTimer \notin Soft
      /\ ThreadTimer \notin Hard \cup Soft /\ ThreadTimer # Nil
  BY TimerAssumption DEF Good, Timer
<1>2. \A a \in Threads : c[a].t # ThreadTimer
  BY <1>1, CallFacts
<1>3. c["app"].t # ThreadTimer /\ c["tt"].t # ThreadTimer
  BY <1>2 DEF Threads
<1>4. t2.n # ThreadTimer /\ t2.t # ThreadTimer
  BY <1>1 DEF TTType
<1>5. TimerOK(now, w, c, t2, ThreadTimer)
  BY <1>2, <1>3, <1>4 DEF TimerOK, InStart
<1>6. ASSUME NEW j \in Timer \ {ThreadTimer} PROVE SameFor(c, t, c, t2, j)
  <2>1. j # Nil
    BY TimerAssumption
  <2> QED BY <2>1 DEF SameFor
<1>7. StoreOK(w, c, t2)
  BY <1>1, StoreKept
<1> QED BY <1>1, <1>5, <1>6, <1>7, TouchOK

\* The end of rt_timer_start.
LEMMA StepWake ==
  ASSUME NEW a \in Threads, NEW i, Inv, InCall(a, "wake"), i = call[a].t,
         s' = StartWake(s, i), Goto(a, "none"), UNCHANGED <<tick, isr, tt>>
  PROVE  Inv'
<1> DEFINE c2 == [call EXCEPT ![a] = NoCall]
<1>1. /\ Runs(a) /\ call[a].at = "wake" /\ CallType(call) /\ Lists(tick, s)
      /\ tick \in 0 .. TickMax /\ Good(tick, s, call, tt)
      /\ ThreadOK(tick, s, call, tt) /\ TTType(tt)
  BY DEF InCall, Inv, Good
<1>2. /\ i \in Hard \cup Soft /\ i \in Timer /\ call \in [Threads -> CallRange]
      /\ call[a] \in CallRange /\ NoCall \in CallRange /\ i # ThreadTimer /\ i # Nil
  BY <1>1, CallFacts, TimerAssumption DEF Timer, CallRange
<1>3. call' = c2
  BY <1>1, <1>2, GotoIs
<1>4. /\ Own(call, tt, a, i) /\ s.there[i]
  BY <1>1, <1>2, CallOwns
<1>5. /\ \A b \in Threads \ {a} : c2[b] = call[b]
      /\ c2[a] = NoCall /\ c2[a].t # i /\ ~ InStart(c2[a], i)
  BY <1>2 DEF NoCall, InStart
<1>6. ASSUME NEW w, SameTimer(s, w, i)
      PROVE  TimerOK(tick, w, c2, tt, i)
  <2>1. TimerOK(tick, s, call, tt, i)
    BY <1>1, <1>2 DEF Good
  <2>2. /\ i \in Listed(w) <=> i \in Listed(s)
        /\ w.active[i] = s.active[i] /\ w.there[i] = s.there[i]
        /\ w.quiet[i] = s.quiet[i]
    BY <1>6, ListedIs DEF SameTimer
  <2>3. \/ ~ w.active[i] \/ i \in Listed(w) \/ tt.t = i
        \/ \E b \in Threads : c2[b].t = i /\ c2[b].at \in {"remove", "clear"}
    <3>1. ASSUME NEW b \in Threads, call[b].t = i, call[b].at \in {"remove", "clear"}
          PROVE  b # a
      BY <1>1, <3>1
    <3> HIDE DEF c2
    <3> QED BY <1>4, <1>5, <2>1, <2>2, <3>1 DEF TimerOK
  <2>4. w.quiet[i] => i \notin Listed(w) /\ ~ w.active[i]
    BY <1>4, <2>1, <2>2 DEF TimerOK
  <2> HIDE DEF c2
  <2>5. Leaves(tick, w, call, tt, a, i, c2)
    BY <1>4, <1>5, <2>2, <2>3, <2>4 DEF Leaves
  <2> QED BY <2>5, OwnOK
<1>7. CASE i \in Soft /\ s.thread = "SUSPEND"
  <2>1. s' = [rt_timer_stop(s, ThreadTimer) EXCEPT !.thread = "READY", !.blind = FALSE]
    BY <1>7 DEF StartWake, ThreadResumed
  <2>2. /\ Lists(tick, s') /\ Spares(s, s', ThreadTimer) /\ s'.there[ThreadTimer]
        /\ s'.thread = "READY" /\ ~ s'.active[ThreadTimer]
        /\ s'.quiet[ThreadTimer] => ThreadTimer \notin Listed(s')
    <3>1. "READY" \in {"READY", "SUSPEND"} /\ FALSE \in BOOLEAN
      OBVIOUS
    <3>2. \A b \in BOOLEAN :
            Stopped(tick, s, "READY", b,
                    [rt_timer_stop(s, ThreadTimer) EXCEPT !.thread = "READY", !.blind = b])
      BY <1>1, <3>1, StopThread
    <3>3. Stopped(tick, s, "READY", FALSE, s')
      BY <2>1, <3>1, <3>2, Zenon
    <3> QED BY <3>3 DEF Stopped
  <2>3. tt.at = "check"
    BY <1>1, <1>7 DEF ThreadOK
  <2>4. /\ ThreadOK(tick, s', call, tt) /\ Awaited(s', call, tt)
        /\ ThreadOK(tick, s', c2, tt) /\ Awaited(s', c2, tt)
    BY <2>2, <2>3, ThreadFree
  <2>5. Good(tick, s', call, tt)
    BY <1>1, <2>2, <2>4, ThreadTouch
  <2>6. TimerOK(tick, s', c2, tt, i)
    BY <1>2, <1>6, <2>2 DEF Spares
  <2>7. Moved(call, c2, a, NoCall, i, tt)
    BY <1>1, <1>2, CallMoves DEF NoCall
  <2>8. CallType(c2) /\ \A j \in Timer \ {i} : SameFor(call, tt, c2, tt, j)
    <3> HIDE DEF c2
    <3> QED BY <2>7 DEF Moved
  <2>9. Spares(s', s', i)
    BY DEF Spares, SameTimer
  <2>10. StoreOK(s', c2, tt)
    <3> HIDE DEF c2
    <3> QED BY <1>5, <2>5 DEF Good, StoreOK, NoCall
  <2>11. Good(tick, s', c2, tt)
    <3> HIDE DEF c2
    <3> QED BY <1>1, <1>2, <2>2, <2>4, <2>5, <2>6, <2>8, <2>9, <2>10, TouchOK
  <2> QED BY <1>3, <2>11 DEF Inv
<1>8. CASE ~ (i \in Soft /\ s.thread = "SUSPEND")
  <2>1. s' = s
    BY <1>8 DEF StartWake
  <2>2. SameTimer(s, s, i) /\ Spares(s, s, i) /\ SameThread(s, s)
    BY DEF SameTimer, Spares, SameThread
  <2>3. TimerOK(tick, s, c2, tt, i)
    BY <1>6, <2>2
  <2>4. a = "app" => Awaited(s, c2, tt)
    <3>1. a = "app" => i \notin Soft
      BY <1>1, <1>8 DEF Runs
    <3> HIDE DEF c2
    <3> QED BY <1>1, <1>2, <2>2, <3>1, AppAwaits
  <2>5. Good(tick, s, c2, tt)
    <3>1. /\ NoCall.t \in {i, Nil} /\ call[a].t \in {i, Nil} /\ call[a].t = i
          /\ NoCall.at # "store"
      BY DEF NoCall
    <3> QED BY <1>1, <1>2, <2>2, <2>3, <2>4, <3>1, CallFrame
  <2> QED BY <1>3, <2>1, <2>5 DEF Inv
<1> QED BY <1>7, <1>8

\* rt_timer_stop takes the timer out of its list.
LEMMA StepRemove ==
  ASSUME NEW a \in Threads, NEW i, Inv, InCall(a, "remove"), i = call[a].t,
         s' = _rt_timer_remove(s, i), Goto(a, "clear"), UNCHANGED <<tick, isr, tt>>
  PROVE  Inv'
<1> DEFINE x == [at |-> "clear", t |-> i]
           w == _rt_timer_remove(s, i)
           c2 == [call EXCEPT ![a] = x]
<1>1. /\ Runs(a) /\ call[a].at = "remove" /\ CallType(call) /\ Lists(tick, s)
      /\ tick \in 0 .. TickMax /\ Good(tick, s, call, tt)
  BY DEF InCall, Inv, Good
<1>2. /\ i \in Hard \cup Soft /\ i \in Timer /\ call \in [Threads -> CallRange]
      /\ call[a] \in CallRange
  BY <1>1, CallFacts DEF Timer
<1>3. call' = c2 /\ x \in CallRange
  BY <1>1, <1>2, GotoIs
<1>4. Own(call, tt, a, i) /\ s.there[i] /\ TimerOK(tick, s, call, tt, i)
  BY <1>1, <1>2, CallOwns DEF Good
<1>5. Removed(tick, s, w, i)
  BY <1>1, <1>2, RemoveOK
<1> HIDE DEF w
<1>6. /\ Lists(tick, w) /\ Spares(s, w, i) /\ SameThread(s, w) /\ i \notin Listed(w)
      /\ w.active = s.active /\ w.there = s.there /\ w.quiet = s.quiet
  BY <1>5 DEF Removed
<1>7. /\ \A b \in Threads \ {a} : c2[b] = call[b]
      /\ c2[a] = x
  BY <1>2
<1>8. TimerOK(tick, w, c2, tt, i)
  <2>1. w.there[i] /\ (w.quiet[i] => ~ w.active[i])
    BY <1>4, <1>6 DEF TimerOK
  <2>2. ~ InStart(c2[a], i) /\ c2[a].at = "clear" /\ c2[a].t = i
    BY <1>7 DEF InStart
  <2> HIDE DEF c2
  <2>3. Leaves(tick, w, call, tt, a, i, c2)
    BY <1>4, <1>6, <1>7, <2>1, <2>2 DEF Leaves
  <2> QED BY <2>3, OwnOK
<1>9. a = "app" => Awaited(w, c2, tt)
  <2>1. i \notin Members(w.soft)
    BY <1>6, ListedIs
  <2> QED BY <1>1, <1>2, <1>6, <2>1, AppAwaits
<1>10. Good(tick, w, c2, tt)
  BY <1>1, <1>2, <1>3, <1>6, <1>8, <1>9, CallFrame
<1> QED BY <1>3, <1>10 DEF Inv, w

\* rt_timer_stop clears the flag.
LEMMA StepClear ==
  ASSUME NEW a \in Threads, NEW i, Inv, InCall(a, "clear"), i = call[a].t,
         s' = [Deactivated(s, i) EXCEPT !.quiet[i] = TRUE], Goto(a, "none"),
         UNCHANGED <<tick, isr, tt>>
  PROVE  Inv'
<1> DEFINE u == Deactivated(s, i)
           w == [u EXCEPT !.quiet[i] = TRUE]
           c2 == [call EXCEPT ![a] = NoCall]
<1>1. /\ Runs(a) /\ call[a].at = "clear" /\ CallType(call) /\ Lists(tick, s)
      /\ tick \in 0 .. TickMax /\ Good(tick, s, call, tt)
  BY DEF InCall, Inv, Good
<1>2. /\ i \in Hard \cup Soft /\ i \in Timer /\ call \in [Threads -> CallRange]
      /\ call[a] \in CallRange /\ NoCall \in CallRange /\ i # Nil
  BY <1>1, CallFacts, TimerAssumption DEF Timer, CallRange
<1>3. call' = c2
  BY <1>1, <1>2, GotoIs
<1>4. Own(call, tt, a, i) /\ s.there[i] /\ i \notin Listed(s)
  BY <1>1, <1>2, CallOwns
<1>5. /\ Lists(tick, u) /\ Spares(s, u, i) /\ SameThread(s, u)
      /\ Listed(u) = Listed(s) /\ ~ u.active[i] /\ u.there = s.there
  BY <1>1, <1>2, DeactivatedOK
<1> HIDE DEF u
<1>6. QuietSet(tick, u, w, i, TRUE)
  <2>1. \A b \in BOOLEAN : QuietSet(tick, u, [u EXCEPT !.quiet[i] = b], i, b)
    BY <1>2, <1>5, QuietOK
  <2> QED BY <2>1, Zenon
<1> HIDE DEF w
<1>7. /\ Lists(tick, w) /\ Spares(s, w, i) /\ SameThread(s, w)
      /\ i \notin Listed(w) /\ ~ w.active[i] /\ w.there[i]
  <2>1. /\ Lists(tick, w) /\ Spares(u, w, i) /\ SameThread(u, w)
        /\ Listed(w) = Listed(u) /\ w.active = u.active /\ w.there = u.there
    BY <1>6 DEF QuietSet
  <2> QED BY <1>4, <1>5, <2>1, SparesTwice DEF SameThread
<1>8. /\ \A b \in Threads \ {a} : c2[b] = call[b]
      /\ c2[a] = NoCall /\ c2[a].t # i /\ ~ InStart(c2[a], i)
  BY <1>2 DEF NoCall, InStart
<1>9. TimerOK(tick, w, c2, tt, i)
  <2> HIDE DEF c2
  <2>1. Leaves(tick, w, call, tt, a, i, c2)
    BY <1>4, <1>7, <1>8 DEF Leaves
  <2> QED BY <2>1, OwnOK
<1>10. a = "app" => Awaited(w, c2, tt)
  <2>1. i \notin Members(w.soft)
    BY <1>7, ListedIs
  <2> QED BY <1>1, <1>2, <1>7, <2>1, AppAwaits
<1>11. Good(tick, w, c2, tt)
  <2>1. /\ NoCall.t \in {i, Nil} /\ call[a].t \in {i, Nil} /\ call[a].t = i
        /\ NoCall.at # "store"
    BY DEF NoCall
  <2> QED BY <1>1, <1>2, <1>7, <1>9, <1>10, <2>1, CallFrame
<1>12. s' = w
  BY DEF w, u
<1> QED BY <1>3, <1>11, <1>12 DEF Inv

\* rt_timer_control writes the flag, as it was but for the kind.
LEMMA StepStore ==
  ASSUME NEW a \in Threads, NEW i, Inv, InCall(a, "store"), i = call[a].t,
         s' = [s EXCEPT !.active[i] = call[a].active, !.periodic[i] = call[a].periodic],
         Goto(a, "none"), UNCHANGED <<tick, isr, tt>>
  PROVE  Inv'
<1> DEFINE b == call[a].periodic
           d == s.init[i]
           w == rt_timer_control(s, i, d, b)
           c2 == [call EXCEPT ![a] = NoCall]
<1>1. /\ Runs(a) /\ call[a].at = "store" /\ CallType(call) /\ Lists(tick, s)
      /\ Good(tick, s, call, tt) /\ s \in Record
  BY DEF InCall, Inv, Good, Lists
<1>2. /\ i \in Hard \cup Soft /\ i \in Timer /\ call \in [Threads -> CallRange]
      /\ call[a] \in CallRange /\ NoCall \in CallRange /\ i # Nil /\ b \in BOOLEAN
  BY <1>1, CallFacts, StoresTimer, TimerAssumption DEF Timer, CallRange
<1>3. call' = c2
  BY <1>1, <1>2, GotoIs
<1>4. /\ a = "tt" /\ tt.t = i /\ call[a].active = s.active[i]
      /\ TimerOK(tick, s, call, tt, i)
  BY <1>1, <1>2 DEF Good, StoreOK
<1>5. Own(call, tt, a, i) /\ s.there[i]
  BY <1>1, <1>2, CallOwns
<1>6. d \in Delay
  BY <1>1, <1>2 DEF Record
<1>7. s' = w
  <2>1. /\ s.active \in [Timer -> BOOLEAN] /\ s.init \in [Timer -> Delay]
        /\ s.periodic \in [Timer -> BOOLEAN]
    BY <1>1 DEF Record
  <2>2. [s.active EXCEPT ![i] = call[a].active] = s.active /\ [s.init EXCEPT ![i] = d] = s.init
    BY <1>4, <2>1
  <2> DEFINE e == [s.periodic EXCEPT ![i] = b]
             f == [s.active EXCEPT ![i] = call[a].active]
             g == [s.init EXCEPT ![i] = d]
  <2>3. s' = [s EXCEPT !.active = f, !.periodic = e] /\ w = [s EXCEPT !.init = g, !.periodic = e]
    BY <1>1 DEF rt_timer_control, Record
  <2>4. f = s.active /\ g = s.init
    BY <2>2
  <2> HIDE DEF e, f, g
  <2>5. [s EXCEPT !.active = s.active, !.periodic = e] = [s EXCEPT !.init = s.init, !.periodic = e]
    BY <1>1 DEF Record
  <2> QED BY <2>3, <2>4, <2>5
<1> HIDE DEF b, d
<1>8. Tuned(tick, s, w, i)
  BY <1>1, <1>2, <1>6, ControlOK
<1> HIDE DEF w
<1>9. /\ Lists(tick, w) /\ Spares(s, w, i) /\ SameThread(s, w) /\ Listed(w) = Listed(s)
      /\ w.active = s.active /\ w.quiet = s.quiet /\ w.there = s.there
  BY <1>8 DEF Tuned
<1>10. /\ \A y \in Threads \ {a} : c2[y] = call[y]
       /\ c2[a] = NoCall /\ c2[a].t # i /\ ~ InStart(c2[a], i)
  BY <1>2 DEF NoCall, InStart
<1>11. TimerOK(tick, w, c2, tt, i)
  <2>1. w.quiet[i] => i \notin Listed(w) /\ ~ w.active[i]
    BY <1>4, <1>5, <1>9 DEF TimerOK
  <2> HIDE DEF c2
  <2>2. Leaves(tick, w, call, tt, a, i, c2)
    BY <1>4, <1>5, <1>9, <1>10, <2>1 DEF Leaves
  <2> QED BY <2>2, OwnOK
<1>12. Good(tick, w, c2, tt)
  <2>1. /\ NoCall.t \in {i, Nil} /\ call[a].t \in {i, Nil} /\ call[a].t = i
        /\ NoCall.at # "store" /\ a # "app"
    BY <1>4 DEF NoCall
  <2> QED BY <1>1, <1>2, <1>9, <1>11, <2>1, CallFrame
<1> QED BY <1>3, <1>7, <1>12 DEF Inv

LEMMA CallStepGood ==
  ASSUME NEW a \in Threads, Inv, CallStep(a)
  PROVE  Inv'
<1> DEFINE i == call[a].t
<1>1. UNCHANGED <<tick, isr, tt>>
  BY DEF CallStep
<1>2. \/ /\ InCall(a, "timeout") /\ Goto(a, "insert")
         /\ s' = StartTimeout(s, i, s.init[i])
      \/ InCall(a, "insert") /\ s' = StartInsert(s, i) /\ Goto(a, "wake")
      \/ InCall(a, "wake") /\ s' = StartWake(s, i) /\ Goto(a, "none")
      \/ InCall(a, "remove") /\ s' = _rt_timer_remove(s, i) /\ Goto(a, "clear")
      \/ /\ InCall(a, "clear") /\ Goto(a, "none")
         /\ s' = [Deactivated(s, i) EXCEPT !.quiet[i] = TRUE]
      \/ /\ InCall(a, "store") /\ Goto(a, "none")
         /\ s' = [s EXCEPT !.active[i]   = call[a].active,
                           !.periodic[i] = call[a].periodic]
  BY DEF CallStep
<1>3. i = call[a].t
  OBVIOUS
<1> HIDE DEF i
<1> QED BY <1>1, <1>2, <1>3, StepTimeout, StepInsert, StepWake, StepRemove, StepClear,
           StepStore

-----------------------------------------------------------------------------
(***************************************************************************)
(* The application's calls begin.                                          *)
(***************************************************************************)
\* The first critical section of rt_timer_start.
Begun(now, v, w, i) ==
  /\ Lists(now, w) /\ Spares(v, w, i) /\ SameThread(v, w)
  /\ i \notin Listed(w) /\ ~ w.active[i] /\ ~ w.quiet[i] /\ w.there[i]

LEMMA BeginOK ==
  ASSUME NEW now, NEW v, NEW i \in Timer, Lists(now, v), v.there[i]
  PROVE  /\ Begun(now, v, StartUnlink(Wanted(v, i), i), i)
         /\ ~ v.quiet[i] => Begun(now, v, StartUnlink(v, i), i)
<1> DEFINE u == Wanted(v, i)
           w == StartUnlink(u, i)
<1>1. QuietSet(now, v, u, i, FALSE)
  <2>1. \A b \in BOOLEAN : QuietSet(now, v, [v EXCEPT !.quiet[i] = b], i, b)
    BY QuietOK
  <2> QED BY <2>1, Zenon DEF Wanted
<1> HIDE DEF u
<1>2. /\ Lists(now, u) /\ Spares(v, u, i) /\ SameThread(v, u)
      /\ u.there = v.there /\ ~ u.quiet[i]
  BY <1>1 DEF QuietSet
<1>3. /\ Lists(now, w) /\ Spares(u, w, i) /\ SameThread(u, w)
      /\ i \notin Listed(w) /\ ~ w.active[i] /\ w.quiet = u.quiet /\ w.there = u.there
  BY <1>2, UnlinkOK
<1> HIDE DEF w
<1>4. Spares(v, w, i)
  BY <1>2, <1>3, SparesTwice
<1>5. Begun(now, v, w, i)
  BY <1>2, <1>3, <1>4 DEF Begun, SameThread
<1>6. ~ v.quiet[i] => Begun(now, v, StartUnlink(v, i), i)
  <2> DEFINE r == StartUnlink(v, i)
  <2>1. /\ Lists(now, r) /\ Spares(v, r, i) /\ SameThread(v, r)
        /\ i \notin Listed(r) /\ ~ r.active[i] /\ r.quiet = v.quiet /\ r.there = v.there
    BY UnlinkOK
  <2> HIDE DEF r
  <2>2. ~ v.quiet[i] => Begun(now, v, r, i)
    BY <2>1 DEF Begun
  <2> QED BY <2>2 DEF r
<1> QED BY <1>5, <1>6 DEF u, w

\* A step that leaves the times and the soft list alone lets the thread sleep on.
LEMMA StillAwaited ==
  ASSUME NEW now, NEW v, NEW c, NEW t, NEW w, NEW c2,
         Good(now, v, c, t), Lists(now, w), SameThread(v, w), w.soft = v.soft,
         w.due = v.due, SameTimer(v, w, ThreadTimer),
         ~ (c["app"].at = "wake" /\ c["app"].t \in Soft)
  PROVE  Awaited(w, c2, t)
<1>1. Lists(now, v) /\ TTType(t) /\ Awaited(v, c, t)
  BY DEF Good
<1> QED BY <1>1, AwaitedKept

LEMMA AppIdle ==
  ASSUME Inv, InCall("app", "none")
  PROVE  /\ Idle(call, tt) /\ call["app"] = NoCall /\ Runs("app")
         /\ \A i \in Timer : /\ Own(call, tt, "app", i) /\ tt.t # i
                            /\ \A a \in Threads : call[a].t # i
<1>1. /\ Runs("app") /\ call["app"].at = "none" /\ s.thread = "SUSPEND"
      /\ ThreadOK(tick, s, call, tt) /\ CallType(call) /\ "app" \in Threads
  BY DEF InCall, Runs, Inv, Good, Threads
<1>2. Idle(call, tt) /\ call["app"] = NoCall
  BY <1>1, CallFacts DEF ThreadOK
<1>3. ASSUME NEW i \in Timer
      PROVE  /\ Own(call, tt, "app", i) /\ tt.t # i
             /\ \A a \in Threads : call[a].t # i
  <2>1. i # Nil /\ call["tt"].t = Nil /\ call["app"].t = Nil /\ tt.n = Nil /\ tt.t = Nil
    BY <1>2, TimerAssumption DEF Idle, NoCall
  <2> QED BY <2>1 DEF Own, InStart, Threads
<1> QED BY <1>1, <1>2, <1>3

\* The application begins to start a timer.
LEMMA AppStart ==
  ASSUME Inv, InCall("app", "none"), NEW i \in Hard \cup Soft, s.there[i],
         BeginStart("app", Wanted(s, i), i), UNCHANGED <<tick, isr, tt>>
  PROVE  Inv'
<1> DEFINE x == [at |-> "timeout", t |-> i]
           c2 == [call EXCEPT !["app"] = x]
           w == StartUnlink(Wanted(s, i), i)
<1>1. /\ s' = w /\ call' = c2
  BY DEF BeginStart
<1>2. /\ i \in Timer /\ "app" \in Threads /\ x \in CallRange
      /\ Good(tick, s, call, tt) /\ Lists(tick, s) /\ CallType(call)
  BY DEF Timer, Threads, CallRange, Inv, Good
<1>3. /\ call["app"] = NoCall /\ Runs("app") /\ Own(call, tt, "app", i)
      /\ call \in [Threads -> CallRange]
  BY <1>2, AppIdle, CallFacts
<1>4. Begun(tick, s, w, i)
  BY <1>2, BeginOK
<1> HIDE DEF w
<1>5. /\ Lists(tick, w) /\ Spares(s, w, i) /\ SameThread(s, w)
      /\ i \notin Listed(w) /\ ~ w.active[i] /\ ~ w.quiet[i] /\ w.there[i]
  BY <1>4 DEF Begun
<1>6. c2["app"] = x /\ \A b \in Threads \ {"app"} : c2[b] = call[b]
  BY <1>2, <1>3
<1>7. TimerOK(tick, w, c2, tt, i)
  <2>1. c2["app"].at # "insert"
    BY <1>6
  <2> HIDE DEF c2
  <2>2. Leaves(tick, w, call, tt, "app", i, c2)
    BY <1>3, <1>5, <1>6, <2>1 DEF Leaves
  <2> QED BY <1>2, <2>2, OwnOK
<1>8. Awaited(w, c2, tt)
  <2>1. i \notin Members(w.soft) /\ call["app"].at # "wake"
    BY <1>3, <1>5, ListedIs DEF NoCall
  <2> QED BY <1>2, <1>5, <2>1, AppAwaits
<1>9. Good(tick, w, c2, tt)
  <2>1. call["app"].t \in {i, Nil} /\ x.t \in {i, Nil} /\ "app" # "tt"
    BY <1>3 DEF NoCall
  <2> QED BY <1>2, <1>3, <1>5, <1>7, <1>8, <2>1, CallFrame
<1> QED BY <1>1, <1>9 DEF Inv

\* The application begins to stop a timer.
LEMMA AppStop ==
  ASSUME Inv, InCall("app", "none"), NEW i \in Hard \cup Soft, s.there[i],
         BeginStop("app", i), UNCHANGED <<tick, isr, tt>>
  PROVE  Inv'
<1> DEFINE x == [at |-> "remove", t |-> i]
           c2 == [call EXCEPT !["app"] = x]
<1>1. /\ s' = s /\ call' = c2
  BY DEF BeginStop
<1>2. /\ i \in Timer /\ "app" \in Threads /\ x \in CallRange /\ ThreadTimer \in Timer
      /\ Good(tick, s, call, tt) /\ Lists(tick, s) /\ CallType(call)
      /\ TimerOK(tick, s, call, tt, i)
  BY DEF Timer, Threads, CallRange, Inv, Good
<1>3. /\ call["app"] = NoCall /\ Runs("app") /\ Own(call, tt, "app", i)
      /\ call \in [Threads -> CallRange]
  BY <1>2, AppIdle, CallFacts
<1>4. c2["app"] = x /\ \A b \in Threads \ {"app"} : c2[b] = call[b]
  BY <1>2, <1>3
<1>5. TimerOK(tick, s, c2, tt, i)
  <2>1. /\ c2["app"].at = "remove" /\ c2["app"].t = i /\ ~ InStart(c2["app"], i)
    BY <1>4 DEF InStart
  <2>2. s.quiet[i] => i \notin Listed(s) /\ ~ s.active[i]
    BY <1>2 DEF TimerOK
  <2> HIDE DEF c2
  <2>3. Leaves(tick, s, call, tt, "app", i, c2)
    BY <1>2, <1>3, <1>4, <2>1, <2>2 DEF Leaves
  <2> QED BY <1>2, <2>3, OwnOK
<1>6. SameThread(s, s) /\ Spares(s, s, i) /\ SameTimer(s, s, ThreadTimer)
  BY DEF SameThread, Spares, SameTimer
<1>7. Awaited(s, c2, tt)
  <2>1. call["app"].at # "wake"
    BY <1>3 DEF NoCall
  <2> QED BY <1>2, <1>6, <2>1, StillAwaited
<1>8. Good(tick, s, c2, tt)
  <2>1. call["app"].t \in {i, Nil} /\ x.t \in {i, Nil} /\ "app" # "tt"
    BY <1>3 DEF NoCall
  <2> QED BY <1>2, <1>3, <1>5, <1>6, <1>7, <2>1, CallFrame
<1> QED BY <1>1, <1>8 DEF Inv

\* The application controls, detaches or initializes a timer.
LEMMA AppAtomic ==
  ASSUME Inv, InCall("app", "none"), s' \in Atomic("app", s),
         UNCHANGED <<tick, isr, call, tt>>
  PROVE  Inv'
<1>1. PICK o \in Ops : s' \in AtomicOp(s, o[2], o[3])
  BY DEF Atomic
<1> DEFINE i == o[3]
<1>2. i \in Hard \cup Soft
  BY TimerAssumption
<1> HIDE DEF i
<1>3. /\ i \in Timer /\ ThreadTimer \in Timer /\ i # ThreadTimer
      /\ Good(tick, s, call, tt) /\ Lists(tick, s) /\ CallType(call) /\ TTType(tt)
      /\ TimerOK(tick, s, call, tt, i) /\ ThreadOK(tick, s, call, tt)
      /\ s.thread = "SUSPEND"
  BY <1>2, TimerAssumption DEF Timer, Inv, Good, InCall, Runs
<1>4. /\ call["app"] = NoCall /\ Own(call, tt, "app", i) /\ tt.t # i
      /\ \A a \in Threads : call[a].t # i
  BY <1>3, AppIdle
<1>5. /\ call["app"].t # i /\ call["tt"].t # i /\ tt.n # i
      /\ ~ (call["app"].at = "wake" /\ call["app"].t \in Soft)
  BY <1>4 DEF Own, Threads, NoCall
<1>6. \A j \in Timer \ {i} : SameFor(call, tt, call, tt, j)
  BY DEF SameFor
<1>7. ThreadOK(tick, s', call, tt)
  BY <1>3, AppThread
<1>8. ASSUME Lists(tick, s'), Spares(s, s', i), TimerOK(tick, s', call, tt, i),
             Awaited(s', call, tt)
      PROVE  Inv'
  <2>1. s'.there[ThreadTimer]
    BY <1>3, <1>8 DEF Spares, SameTimer, Good
  <2>2. StoreOK(s', call, tt)
    <3>1. \A a \in Threads : call[a] = NoCall
      BY <1>3, AppIdle DEF Idle, Threads
    <3> QED BY <3>1 DEF StoreOK, NoCall
  <2>3. Good(tick, s', call, tt)
    BY <1>3, <1>6, <1>7, <1>8, <2>1, <2>2, TouchOK
  <2> QED BY <2>3 DEF Inv
<1>9. CASE Tuned(tick, s, s', i)
  <2>1. /\ Lists(tick, s') /\ Spares(s, s', i) /\ SameThread(s, s')
        /\ s'.soft = s.soft /\ s'.due = s.due
    BY <1>9 DEF Tuned
  <2>2. SameTimer(s, s', i) /\ SameTimer(s, s', ThreadTimer)
    BY <1>9 DEF Tuned, SameTimer
  <2>3. TimerOK(tick, s', call, tt, i)
    <3>1. SameFor(call, tt, call, tt, i)
      BY DEF SameFor
    <3> QED BY <1>3, <2>2, <3>1, OthersOK
  <2>4. Awaited(s', call, tt)
    BY <1>3, <1>5, <2>1, <2>2, StillAwaited
  <2> QED BY <1>8, <2>1, <2>3, <2>4
<1>10. CASE Detached(tick, s, s', i)
  <2>1. /\ Lists(tick, s') /\ Spares(s, s', i) /\ SameThread(s, s')
        /\ i \notin Listed(s') /\ ~ s'.there[i] /\ s'.quiet[i]
    BY <1>10 DEF Detached
  <2>2. TimerOK(tick, s', call, tt, i)
    BY <1>4, <1>5, <2>1 DEF TimerOK, InStart
  <2>3. i \notin Members(s'.soft)
    BY <2>1, ListedIs
  <2>4. Awaited(s', call, tt)
    BY <1>2, <1>3, <1>5, <2>1, <2>3, AppAwaits
  <2> QED BY <1>8, <2>1, <2>2, <2>4
<1>11. CASE Fresh(tick, s, s', i)
  <2>1. /\ Lists(tick, s') /\ Spares(s, s', i) /\ SameThread(s, s')
        /\ i \notin Listed(s') /\ s'.there[i] /\ ~ s'.active[i] /\ ~ s'.quiet[i]
    BY <1>11 DEF Fresh
  <2>2. TimerOK(tick, s', call, tt, i)
    BY <1>4, <1>5, <2>1 DEF TimerOK, InStart
  <2>3. i \notin Members(s'.soft)
    BY <2>1, ListedIs
  <2>4. Awaited(s', call, tt)
    BY <1>2, <1>3, <1>5, <2>1, <2>3, AppAwaits
  <2> QED BY <1>8, <2>1, <2>2, <2>4
<1>12. ~ s.there[i] => i \notin Listed(s)
  BY <1>3 DEF TimerOK
<1>13. Tuned(tick, s, s', i) \/ Detached(tick, s, s', i) \/ Fresh(tick, s, s', i)
  <2>1. s' \in AtomicOp(s, o[2], i)
    BY <1>1 DEF i
  <2> QED BY <1>2, <1>3, <1>12, <2>1, AtomicOK
<1> QED BY <1>9, <1>10, <1>11, <1>13

LEMMA AppCallsGood ==
  ASSUME FixedKinds, Inv, AppCalls
  PROVE  Inv'
<1>1. /\ InCall("app", "none") /\ UNCHANGED <<tick, isr, tt>> /\ Begins("app", "app")
  BY DEF AppCalls
<1>2. CASE s' \in Atomic("app", s) /\ UNCHANGED call
  BY <1>1, <1>2, AppAtomic
<1>3. ASSUME NEW o \in Ops, s.there[o[3]],
             \/ BeginStart("app", Wanted(s, o[3]), o[3])
             \/ BeginStop("app", o[3])
      PROVE  Inv'
  <2>1. o[3] \in Hard \cup Soft
    BY TimerAssumption
  <2> QED BY <1>1, <1>3, <2>1, AppStart, AppStop
<1> QED BY <1>1, <1>2, <1>3 DEF Begins, FixedKinds
-----------------------------------------------------------------------------
(***************************************************************************)
(* The timer thread.                                                       *)
(***************************************************************************)
LEMMA AtIs ==
  ASSUME NEW l, Inv, At(l)
  PROVE  /\ tt.at = l /\ Runs("tt") /\ s.thread = "READY"
         /\ call["tt"] = NoCall /\ call["tt"].t = Nil
         /\ Good(tick, s, call, tt) /\ Lists(tick, s) /\ TTType(tt) /\ CallType(call)
         /\ ThreadOK(tick, s, call, tt) /\ tick \in 0 .. TickMax
<1>1. /\ tt.at = l /\ Runs("tt") /\ s.thread = "READY" /\ call["tt"].at = "none"
  BY DEF At, InCall, Runs
<1>2. /\ Good(tick, s, call, tt) /\ Lists(tick, s) /\ TTType(tt) /\ CallType(call)
      /\ ThreadOK(tick, s, call, tt) /\ tick \in 0 .. TickMax
  BY DEF Inv, Good
<1>3. call["tt"] = NoCall
  BY <1>1, <1>2, CallFacts DEF Threads
<1> QED BY <1>1, <1>2, <1>3 DEF NoCall

\* The timer thread goes on, holding the same timer, and touches nothing.
LEMMA ThinkOK ==
  ASSUME NEW now, NEW v, NEW c, NEW t, NEW t2, Good(now, v, c, t), TTType(t2),
         t2.t = t.t,
         t2.n \in {t.n, Nil} \/ (t2.n \in Members(v.soft) /\ t2.n \notin {t.t, c["tt"].t}),
         v.thread = "READY", ThreadOK(now, v, c, t2)
  PROVE  Good(now, v, c, t2)
<1>1. ASSUME NEW j \in Timer PROVE TimerOK(now, v, c, t2, j)
  <2>1. TimerOK(now, v, c, t, j) /\ j # Nil
    BY TimerAssumption DEF Good
  <2>2. t2.n = j => j \in Members(v.soft) /\ t2.t # j /\ c["tt"].t # j
    BY <2>1 DEF TimerOK
  <2> QED BY <2>1, <2>2 DEF TimerOK
<1>2. Awaited(v, c, t2)
  BY DEF Awaited
<1>3. StoreOK(v, c, t2)
  BY DEF Good, StoreOK
<1> QED BY <1>1, <1>2, <1>3 DEF Good

\* The timer thread lets go of timer i.
LEMMA LetGo ==
  ASSUME NEW now, NEW v, NEW c, NEW t, NEW t2, Good(now, v, c, t), TTType(t2),
         t.t \in Soft, ~ v.active[t.t], t2.t = Nil, t2.n = t.n, c["tt"].at # "store",
         v.thread = "READY", ThreadOK(now, v, c, t2)
  PROVE  Good(now, v, c, t2)
<1>1. ASSUME NEW j \in Timer PROVE TimerOK(now, v, c, t2, j)
  <2>1. TimerOK(now, v, c, t, j) /\ j # Nil
    BY TimerAssumption DEF Good
  <2> QED BY <2>1 DEF TimerOK
<1>2. Awaited(v, c, t2)
  BY DEF Awaited
<1>3. StoreOK(v, c, t2)
  BY DEF Good, StoreOK
<1> QED BY <1>1, <1>2, <1>3 DEF Good

LEMMA NextTimeoutGood ==
  ASSUME Inv, NextTimeout
  PROVE  Inv'
<1> DEFINE next == IF s.soft = << >> THEN TickMax ELSE s.timeout[Head(s.soft)]
<1>1. At("next") /\ UNCHANGED <<tick, s, isr, call>>
  BY DEF NextTimeout
<1>2. /\ tt.at = "next" /\ s.thread = "READY" /\ call["tt"] = NoCall
      /\ Good(tick, s, call, tt) /\ Lists(tick, s) /\ TTType(tt)
  BY <1>1, AtIs
<1>3. tt.n = Nil /\ tt.t = Nil
  BY <1>2 DEF TTType
<1>4. s.soft # << >> => First(s) = Head(s.soft) /\ s.timeout[First(s)] \in Int
  <2>1. s.soft # << >> => First(s) = Head(s.soft) /\ First(s) \in Timer
    BY <1>2, FirstIs DEF Timer
  <2> QED BY <1>2, <2>1 DEF Lists, Record
<1>5. next \in Int
  BY <1>4, Constants
<1>6. CASE next = TickMax
  <2>1. tt' = [tt EXCEPT !.at = "suspend"]
    BY <1>6 DEF NextTimeout
  <2>2. /\ TTType(tt') /\ tt'.at = "suspend" /\ tt'.n = Nil /\ tt'.t = Nil
    BY <1>2, <1>3, <2>1 DEF TTType
  <2>3. ThreadOK(tick, s, call, tt')
    BY <1>2, <1>4, <1>6, <2>2 DEF ThreadOK, Idle
  <2>4. Good(tick, s, call, tt')
    BY <1>2, <1>3, <2>2, <2>3, ThinkOK
  <2> QED BY <1>1, <2>4 DEF Inv
<1>7. CASE next # TickMax
  <2>1. tt' = [tt EXCEPT !.at = "delta", !.val = next]
    BY <1>7 DEF NextTimeout
  <2>2. s.soft # << >> /\ next = s.timeout[First(s)]
    BY <1>4, <1>7
  <2> HIDE DEF next
  <2>3. /\ TTType(tt') /\ tt'.at = "delta" /\ tt'.n = Nil /\ tt'.t = Nil
        /\ tt'.val = next
    BY <1>2, <1>3, <1>5, <2>1 DEF TTType
  <2>4. ThreadOK(tick, s, call, tt')
    BY <1>2, <2>2, <2>3 DEF ThreadOK, Idle
  <2>5. Good(tick, s, call, tt')
    BY <1>2, <1>3, <2>3, <2>4, ThinkOK
  <2> QED BY <1>1, <2>5 DEF Inv
<1> QED BY <1>6, <1>7

\* A timeout that is in step and less than half the range ahead is the ticks left.
LEMMA TicksLeft ==
  ASSUME NEW now \in 0 .. TickMax, NEW m, NEW d \in Int, Synced(now, m, d)
  PROVE  /\ m \in 0 .. TickMax /\ Minus(m, now) \in Int /\ Minus(now, now) = 0
         /\ Minus(m, now) < Half => Minus(m, now) = d /\ d >= 0
         /\ d + MaxLate < Half
<1>1. /\ m \in 0 .. TickMax /\ - MaxLate <= d /\ d + MaxLate < Half
      /\ m - now \in {d, d - (TickMax + 1), d + (TickMax + 1)}
  BY Constants DEF Synced
<1>2. /\ Minus(m, now) = IF m >= now THEN m - now ELSE m - now + TickMax + 1
      /\ Minus(now, now) = IF now >= now THEN now - now ELSE now - now + TickMax + 1
  BY <1>1, MinusFacts
<1> HIDE DEF Minus
<1>3. Minus(now, now) = 0 /\ Minus(m, now) \in Int
  BY <1>1, <1>2, Constants
<1> QED BY <1>1, <1>2, <1>3, Constants

LEMMA DeltaGood ==
  ASSUME Inv, Delta
  PROVE  Inv'
<1> DEFINE d == Minus(tt.val, tick)
<1>1. At("delta") /\ UNCHANGED <<tick, s, isr, call>>
  BY DEF Delta
<1>2. /\ tt.at = "delta" /\ s.thread = "READY" /\ call["tt"] = NoCall
      /\ Good(tick, s, call, tt) /\ Lists(tick, s) /\ TTType(tt)
      /\ ThreadOK(tick, s, call, tt) /\ tick \in 0 .. TickMax
  BY <1>1, AtIs
<1>3. tt.n = Nil /\ tt.t = Nil /\ s.soft # << >> /\ tt.val = s.timeout[First(s)]
  BY <1>2 DEF ThreadOK, Idle
<1>4. First(s) \in Listed(s) /\ First(s) \in Timer
  BY <1>2, <1>3, FirstIs DEF Timer
<1>5. Synced(tick, tt.val, s.due[First(s)]) /\ s.due[First(s)] \in Int
  BY <1>2, <1>3, <1>4 DEF Lists, Record
<1>6. /\ d \in Int /\ Minus(tick, tick) = 0
      /\ d < Half => d = s.due[First(s)] /\ s.due[First(s)] >= 0
      /\ s.due[First(s)] + MaxLate < Half
  BY <1>2, <1>5, TicksLeft
<1>7. tt' = IF d < Half THEN [tt EXCEPT !.at = "delay", !.val = d, !.cur = tick]
                        ELSE [Thinks EXCEPT !.at = "check"]
  BY DEF Delta
<1> HIDE DEF d
<1>8. CASE d < Half
  <2>1. tt' = [tt EXCEPT !.at = "delay", !.val = d, !.cur = tick]
    BY <1>7, <1>8
  <2>2. /\ TTType(tt') /\ tt'.at = "delay" /\ tt'.n = Nil /\ tt'.t = Nil
        /\ tt'.val = d /\ tt'.cur = tick
    <3>1. d \in Int /\ tick \in Int /\ TTType(tt)
      BY <1>2, <1>6
    <3> QED BY <1>3, <2>1, <3>1 DEF TTType
  <2>3. tt'.val = s.due[First(s)] + Minus(tick, tt'.cur)
    BY <1>5, <1>6, <1>8, <2>2
  <2>4. tt'.val >= 0 /\ tt'.val + MaxLate < Half
    BY <1>6, <1>8, <2>2
  <2>5. ThreadOK(tick, s, call, tt')
    BY <1>2, <1>3, <2>2, <2>3, <2>4 DEF ThreadOK, Idle
  <2>6. Good(tick, s, call, tt')
    BY <1>2, <1>3, <2>2, <2>5, ThinkOK
  <2> QED BY <1>1, <2>6 DEF Inv
<1>9. CASE ~ (d < Half)
  <2>1. tt' = [Thinks EXCEPT !.at = "check"]
    BY <1>7, <1>9
  <2>2. /\ TTType(tt') /\ tt'.at = "check" /\ tt'.n = Nil /\ tt'.t = Nil
    BY <2>1 DEF TTType, Thinks
  <2>3. ThreadOK(tick, s, call, tt')
    BY <1>2, <2>2, ThreadFree
  <2>4. Good(tick, s, call, tt')
    BY <1>2, <1>3, <2>2, <2>3, ThinkOK
  <2> QED BY <1>1, <2>4 DEF Inv
<1> QED BY <1>8, <1>9

\* The thread timer is listed while it is activated, and not while it is stopped.
LEMMA SleepIs ==
  ASSUME NEW now, NEW v, NEW c, NEW t, Good(now, v, c, t)
  PROVE  /\ v.active[ThreadTimer] => ThreadTimer \in Listed(v)
         /\ v.quiet[ThreadTimer] =>
              ThreadTimer \notin Listed(v) /\ ~ v.active[ThreadTimer]
<1>1. /\ TimerOK(now, v, c, t, ThreadTimer) /\ v.there[ThreadTimer] /\ CallType(c)
      /\ TTType(t) /\ ThreadTimer \notin Hard \cup Soft /\ ThreadTimer # Nil
  BY TimerAssumption DEF Good, Timer
<1>2. \A a \in Threads : c[a].t # ThreadTimer
  BY <1>1, CallFacts
<1>3. t.t # ThreadTimer
  BY <1>1 DEF TTType
<1> QED BY <1>1, <1>2, <1>3 DEF TimerOK

LEMMA SuspendSelfGood ==
  ASSUME Inv, SuspendSelf
  PROVE  Inv'
<1> DEFINE b == s.soft # << >> /\ s.timeout[Head(s.soft)] = TickMax
<1>1. At("suspend") /\ UNCHANGED <<tick, isr, call>>
  BY DEF SuspendSelf
<1>2. /\ tt.at = "suspend" /\ s.thread = "READY" /\ call["tt"] = NoCall
      /\ Good(tick, s, call, tt) /\ Lists(tick, s) /\ ThreadOK(tick, s, call, tt)
  BY <1>1, AtIs
<1>3. tt.n = Nil /\ tt.t = Nil /\ (s.soft = << >> \/ s.timeout[First(s)] = TickMax)
  BY <1>2 DEF ThreadOK, Idle
<1>4. s.soft = << >> \/ b
  BY <1>2, <1>3, FirstIs
<1>5. /\ s' = [rt_timer_stop(s, ThreadTimer) EXCEPT !.thread = "SUSPEND", !.blind = b]
      /\ tt' = [Thinks EXCEPT !.at = "check"]
  BY DEF SuspendSelf
<1>6. b \in BOOLEAN /\ "SUSPEND" \in {"READY", "SUSPEND"}
  OBVIOUS
<1> HIDE DEF b
<1>7. Stopped(tick, s, "SUSPEND", b, s')
  BY <1>2, <1>5, <1>6, StopThread
<1>8. /\ Lists(tick, s') /\ Spares(s, s', ThreadTimer) /\ s'.there[ThreadTimer]
      /\ s'.blind = b /\ s'.soft = s.soft /\ ~ s'.active[ThreadTimer]
      /\ s'.quiet[ThreadTimer] => ThreadTimer \notin Listed(s')
  BY <1>7 DEF Stopped
<1>9. /\ TTType(tt') /\ tt'.at = "check" /\ tt'.n = Nil /\ tt'.t = Nil
  BY <1>5 DEF TTType, Thinks
<1>10. ThreadOK(tick, s', call, tt')
  BY <1>2, <1>9 DEF ThreadOK, Idle
<1>11. Awaited(s', call, tt')
  BY <1>4, <1>8 DEF Awaited
<1>12. Good(tick, s', call, tt')
  BY <1>2, <1>3, <1>8, <1>9, <1>10, <1>11, ThreadTouch
<1> QED BY <1>1, <1>12 DEF Inv

\* The thread timer runs, and the timer thread is suspended.
Asleep(now, v, w, d) ==
  /\ Lists(now, w) /\ Spares(v, w, ThreadTimer) /\ w.there[ThreadTimer]
  /\ w.soft = v.soft /\ w.thread = "SUSPEND"
  /\ ThreadTimer \in Listed(w) /\ w.due[ThreadTimer] = d
  /\ ~ w.quiet[ThreadTimer]

LEMMA SleepOK ==
  ASSUME tick \in 0 .. TickMax, NEW v, Lists(tick, v), v.there[ThreadTimer],
         NEW d \in Nat, d + MaxLate < Half
  PROVE  Asleep(tick, v, [rt_timer_start(Wanted(v, ThreadTimer), ThreadTimer, d)
                            EXCEPT !.thread = "SUSPEND"], d)
<1> DEFINE q == Wanted(v, ThreadTimer)
           u == rt_timer_start(q, ThreadTimer, d)
           w == [u EXCEPT !.thread = "SUSPEND", !.blind = u.blind]
<1>1. ThreadTimer \in Timer \ Soft
  BY TimerAssumption DEF Timer
<1>2. QuietSet(tick, v, q, ThreadTimer, FALSE)
  <2>1. \A b \in BOOLEAN : QuietSet(tick, v, [v EXCEPT !.quiet[ThreadTimer] = b],
                                    ThreadTimer, b)
    BY <1>1, QuietOK
  <2> QED BY <2>1, Zenon DEF Wanted
<1> HIDE DEF q
<1>3. /\ Lists(tick, q) /\ Spares(v, q, ThreadTimer) /\ q.there = v.there
      /\ ~ q.quiet[ThreadTimer]
  BY <1>2 DEF QuietSet
<1>4. /\ Lists(tick, u) /\ Spares(q, u, ThreadTimer) /\ ThreadTimer \in Listed(u)
      /\ u.due[ThreadTimer] = d /\ u.quiet = q.quiet /\ u.there = q.there
  BY <1>1, <1>3, StartOK
<1> HIDE DEF u
<1>5. u \in Record /\ u.blind \in BOOLEAN /\ "SUSPEND" \in {"READY", "SUSPEND"}
  BY <1>4 DEF Lists, Record
<1>6. ThreadIs(tick, u, w, "SUSPEND", u.blind)
  BY <1>4, <1>5, ThreadSet
<1>7. w = [u EXCEPT !.thread = "SUSPEND"]
  BY <1>5 DEF Record
<1> HIDE DEF w
<1>8. /\ Lists(tick, w) /\ Spares(u, w, ThreadTimer) /\ Listed(w) = Listed(u)
      /\ w.thread = "SUSPEND" /\ w.quiet = u.quiet /\ w.there = u.there /\ w.due = u.due
  BY <1>6 DEF ThreadIs
<1>9. Spares(v, w, ThreadTimer)
  BY <1>3, <1>4, <1>8, SparesTwice
<1>10. w.soft = v.soft
  BY <1>1, <1>9 DEF Spares
<1>11. Asleep(tick, v, w, d)
  BY <1>3, <1>4, <1>8, <1>9, <1>10 DEF Asleep
<1> QED BY <1>7, <1>11 DEF u, q

LEMMA DelaySelfGood ==
  ASSUME Inv, DelaySelf
  PROVE  Inv'
<1>1. At("delay") /\ UNCHANGED <<tick, isr, call>>
  BY DEF DelaySelf
<1>2. /\ tt.at = "delay" /\ s.thread = "READY" /\ call["tt"] = NoCall
      /\ Good(tick, s, call, tt) /\ Lists(tick, s) /\ ThreadOK(tick, s, call, tt)
      /\ tick \in 0 .. TickMax /\ TTType(tt)
  BY <1>1, AtIs
<1>3. /\ tt.n = Nil /\ tt.t = Nil /\ s.soft # << >> /\ tt.cur \in 0 .. TickMax
      /\ tt.val = s.due[First(s)] + Minus(tick, tt.cur)
      /\ tt.val >= 0 /\ tt.val + MaxLate < Half
  BY <1>2 DEF ThreadOK, Idle
<1>4. tt.val \in Nat /\ s.there[ThreadTimer]
  BY <1>2, <1>3 DEF TTType, Good
<1>5. /\ s' = [rt_timer_start(Wanted(s, ThreadTimer), ThreadTimer, tt.val)
                 EXCEPT !.thread = "SUSPEND"]
      /\ tt' = [Thinks EXCEPT !.at = "check", !.val = Minus(tick, tt.cur)]
  BY DEF DelaySelf
<1>6. Asleep(tick, s, s', tt.val)
  BY <1>2, <1>3, <1>4, <1>5, SleepOK
<1>7. /\ Lists(tick, s') /\ Spares(s, s', ThreadTimer) /\ s'.there[ThreadTimer]
      /\ s'.soft = s.soft /\ ThreadTimer \in Listed(s') /\ ~ s'.quiet[ThreadTimer]
      /\ s'.due[ThreadTimer] = tt.val
  BY <1>6 DEF Asleep
<1>8. Minus(tick, tt.cur) \in Int
  <2>1. tt.cur \in Int /\ tick \in Int /\ TickMax \in Nat
    BY <1>2, <1>3, Constants
  <2>2. Minus(tick, tt.cur) = IF tick >= tt.cur THEN tick - tt.cur
                              ELSE tick - tt.cur + TickMax + 1
    BY <1>2, <1>3, MinusFacts
  <2> HIDE DEF Minus
  <2> QED BY <2>1, <2>2
<1>9. /\ TTType(tt') /\ tt'.at = "check" /\ tt'.n = Nil /\ tt'.t = Nil
      /\ tt'.val = Minus(tick, tt.cur)
  <2> DEFINE m == Minus(tick, tt.cur)
  <2>1. tt' = [at |-> "check", val |-> m, cur |-> 0, n |-> Nil, t |-> Nil]
    BY <1>5 DEF Thinks
  <2>2. m \in Int
    BY <1>8
  <2> HIDE DEF m
  <2>3. /\ TTType(tt') /\ tt'.at = "check" /\ tt'.n = Nil /\ tt'.t = Nil
        /\ tt'.val = m
    BY <2>1, <2>2 DEF TTType
  <2> QED BY <2>3 DEF m
<1>10. ThreadOK(tick, s', call, tt')
  BY <1>2, <1>9 DEF ThreadOK, Idle
<1>11. Awaited(s', call, tt')
  <2>1. First(s') = First(s) /\ First(s) \in Soft
    BY <1>2, <1>3, <1>7, FirstIs DEF First
  <2>2. /\ First(s) \in Timer \ {ThreadTimer} /\ ThreadTimer \notin Soft
    BY <2>1, TimerAssumption DEF Timer
  <2>3. s'.due[First(s)] = s.due[First(s)] /\ s.due[First(s)] \in Int
    BY <1>2, <1>7, <2>2 DEF Spares, SameTimer, Lists, Record
  <2>4. ThreadTimer \in Members(s'.hard)
    <3>1. s' \in Record
      BY <1>7 DEF Lists
    <3>2. ThreadTimer \notin Members(s'.soft)
      BY <2>2, <3>1, MembersIn
    <3> QED BY <1>7, <3>2, ListedIs
  <2>5. s'.due[ThreadTimer] <= (IF s'.due[First(s')] > 0 THEN s'.due[First(s')] ELSE 0)
                                + tt'.val
    BY <1>3, <1>7, <1>8, <1>9, <2>1, <2>3
  <2> QED BY <2>4, <2>5 DEF Awaited
<1>12. Good(tick, s', call, tt')
  BY <1>2, <1>3, <1>7, <1>9, <1>10, <1>11, ThreadTouch
<1> QED BY <1>1, <1>12 DEF Inv

LEMMA CheckSoftGood ==
  ASSUME Inv, CheckSoft
  PROVE  Inv'
<1>1. At("check") /\ UNCHANGED <<tick, s, isr, call>>
  BY DEF CheckSoft
<1>2. /\ tt.at = "check" /\ s.thread = "READY" /\ call["tt"].t = Nil
      /\ Good(tick, s, call, tt) /\ Lists(tick, s) /\ TTType(tt)
      /\ tick \in 0 .. TickMax
  BY <1>1, AtIs
<1>3. tt.t = Nil
  BY <1>2 DEF TTType
<1>4. tt' = [Thinks EXCEPT !.at = "loop", !.cur = tick, !.n = FirstSoft]
  BY DEF CheckSoft
<1>5. FirstSoft = Nil \/ (FirstSoft \in Members(s.soft) /\ FirstSoft \in Soft)
  BY <1>2, FirstIs DEF FirstSoft
<1>6. /\ TTType(tt') /\ tt'.at = "loop" /\ tt'.n = FirstSoft /\ tt'.t = Nil
  <2>1. tick \in Int /\ FirstSoft \in Soft \cup {Nil}
    BY <1>2, <1>5
  <2>2. tt' = [at |-> "loop", val |-> 0, cur |-> tick, n |-> FirstSoft, t |-> Nil]
    BY <1>4 DEF Thinks
  <2> QED BY <2>1, <2>2 DEF TTType
<1>7. ThreadOK(tick, s, call, tt')
  BY <1>2, <1>6, ThreadFree
<1>8. Soft \subseteq Timer /\ Nil \notin Timer
  BY TimerAssumption DEF Timer
<1>9. Good(tick, s, call, tt')
  <2>1. tt'.n \in {tt.n, Nil} \/ (tt'.n \in Members(s.soft) /\ tt'.n \notin {tt.t, call["tt"].t})
    BY <1>2, <1>3, <1>5, <1>6, <1>8
  <2> QED BY <1>2, <1>3, <1>6, <1>7, <2>1, ThinkOK
<1> QED BY <1>1, <1>9 DEF Inv

LEMMA SoftEndGood ==
  ASSUME Inv, SoftEnd
  PROVE  Inv'
<1>1. At("loop") /\ UNCHANGED <<tick, s, isr, call>> /\ tt' = Thinks
  BY DEF SoftEnd
<1>2. /\ tt.at = "loop" /\ s.thread = "READY"
      /\ Good(tick, s, call, tt) /\ TTType(tt)
  BY <1>1, AtIs
<1>3. tt.t = Nil
  BY <1>2 DEF TTType
<1>4. /\ TTType(tt') /\ tt'.at = "next" /\ tt'.n = Nil /\ tt'.t = Nil
  BY <1>1 DEF TTType, Thinks
<1>5. ThreadOK(tick, s, call, tt')
  BY <1>2, <1>4, ThreadFree
<1>6. Good(tick, s, call, tt')
  BY <1>2, <1>3, <1>4, <1>5, ThinkOK
<1> QED BY <1>1, <1>6 DEF Inv

LEMMA SuccessorIs ==
  ASSUME Lists(tick, s), NEW i \in Members(s.soft)
  PROVE  \/ Successor(i) = Nil
         \/ Successor(i) \in Members(s.soft) \ {i} /\ Successor(i) \in Soft
<1> DEFINE l == s.soft
           p == CHOOSE q \in DOMAIN l : l[q] = i
<1>1. l \in Seq(Soft) /\ Injective(l)
  BY DEF Lists, Record
<1>2. i \in Listed(s)
  BY ListedIs
<1>3. p \in DOMAIN l /\ l[p] = i
  BY DEF Members
<1>4. Successor(i) = IF p = Len(l) THEN Nil ELSE l[p + 1]
  BY <1>2 DEF Successor
<1> HIDE DEF p
<1>5. CASE p # Len(l)
  <2>1. p + 1 \in DOMAIN l /\ p + 1 # p
    BY <1>1, <1>3, <1>5
  <2>2. l[p + 1] # i /\ l[p + 1] \in Soft
    BY <1>1, <1>3, <2>1 DEF Injective
  <2>3. l[p + 1] \in Members(l)
    BY <2>1 DEF Members
  <2> QED BY <1>4, <1>5, <2>2, <2>3
<1> QED BY <1>4, <1>5

\* The timeout of a timer that has left its list may be anything.
LEMMA ForgetOK ==
  ASSUME NEW now, NEW v, NEW r, NEW i \in Timer, NEW e \in Int, Removed(now, v, r, i)
  PROVE  Removed(now, v, [r EXCEPT !.timeout[i] = e], i)
<1> DEFINE m == [r.timeout EXCEPT ![i] = e]
           w == [r EXCEPT !.timeout = m]
<1>1. /\ Lists(now, r) /\ Spares(v, r, i) /\ SameThread(v, r)
      /\ i \notin Listed(r) /\ Members(r.soft) = Members(v.soft) \ {i}
      /\ r.active = v.active /\ r.quiet = v.quiet /\ r.there = v.there
      /\ r.periodic = v.periodic /\ r.init = v.init
  BY DEF Removed
<1>2. /\ r \in Record /\ r.timeout \in [Timer -> Int] /\ r.due \in [Timer -> Int]
  BY <1>1 DEF Lists, Record
<1>3. [r EXCEPT !.timeout[i] = e] = w
  BY <1>2 DEF Record
<1>4. /\ m \in [Timer -> Int] /\ \A j \in Timer \ {i} : m[j] = r.timeout[j]
  BY <1>2
<1> HIDE DEF m
<1>5. w \in Record
  BY <1>2, <1>4 DEF Record
<1>6. /\ w.timeout = m /\ w.due = r.due /\ w.hard = r.hard /\ w.soft = r.soft
      /\ w.there = r.there /\ w.active = r.active /\ w.quiet = r.quiet
      /\ w.periodic = r.periodic /\ w.init = r.init
      /\ w.thread = r.thread /\ w.blind = r.blind
  BY <1>2 DEF Record
<1> HIDE DEF w
<1>7. Listed(w) = Listed(r) /\ Listed(r) \subseteq Timer \ {i}
  BY <1>1, <1>2, <1>6, MembersIn DEF Listed
<1>8. \A j \in Listed(r) : w.timeout[j] = r.timeout[j]
  BY <1>4, <1>6, <1>7
<1>9. Lists(now, w)
  BY <1>1, <1>5, <1>6, <1>7, <1>8 DEF Lists
<1>10. Spares(r, w, i)
  BY <1>4, <1>6 DEF Spares, SameTimer
<1>11. Spares(v, w, i)
  BY <1>1, <1>10, SparesTwice
<1>12. Removed(now, v, w, i)
  BY <1>1, <1>6, <1>7, <1>9, <1>11 DEF Removed, SameThread
<1> QED BY <1>3, <1>12

\* A soft timer leaves its list and fires.
LEMMA SoftFireGood ==
  ASSUME Inv, SoftFire
  PROVE  Inv'
<1> DEFINE i == tt.n
           r == _rt_timer_remove(s, i)
           t1 == [tt EXCEPT !.at = "callback", !.t = i, !.n = Nil]
<1>1. /\ At("loop") /\ UNCHANGED <<tick, isr, call>> /\ i # Nil
  BY DEF SoftFire, SoftPassed
<1>2. /\ tt.at = "loop" /\ s.thread = "READY" /\ call["tt"] = NoCall
      /\ call["tt"].t = Nil /\ Good(tick, s, call, tt) /\ Lists(tick, s)
      /\ TTType(tt) /\ CallType(call)
  BY <1>1, AtIs
<1>3. tt.t = Nil /\ i \in Soft /\ i \in Timer
  BY <1>1, <1>2 DEF TTType, Timer
<1>4. TimerOK(tick, s, call, tt, i) /\ i \in Members(s.soft) /\ i \in Listed(s)
  BY <1>2, <1>3, ListedIs DEF Good, TimerOK
<1>5. \/ Successor(i) = Nil
      \/ Successor(i) \in Members(s.soft) \ {i} /\ Successor(i) \in Soft
  BY <1>2, <1>4, SuccessorIs
<1>6. Successor(i) # i
  BY <1>1, <1>5
<1>7. /\ tt' = [tt EXCEPT !.at = "callback", !.t = i, !.n = Successor(i)]
      /\ s' = [r EXCEPT !.timeout[i] = IF Successor(i) = i THEN @ ELSE 0]
  BY DEF SoftFire
<1>8. Removed(tick, s, s', i)
  <2>1. Removed(tick, s, r, i)
    BY <1>2, <1>3, RemoveOK
  <2> HIDE DEF r, i
  <2>2. s' = [r EXCEPT !.timeout[i] = 0]
    BY <1>6, <1>7
  <2> QED BY <1>3, <2>1, <2>2, ForgetOK
<1>9. /\ Lists(tick, s') /\ Spares(s, s', i) /\ SameThread(s, s')
      /\ i \notin Listed(s') /\ Members(s'.soft) = Members(s.soft) \ {i}
      /\ s'.active = s.active /\ s'.quiet = s.quiet /\ s'.there = s.there
  BY <1>8 DEF Removed
<1>10. /\ TTType(t1) /\ t1.at = "callback" /\ t1.n = Nil /\ t1.t = i
  BY <1>1, <1>2, <1>3 DEF TTType
<1>11. /\ TTType(tt') /\ tt'.at = "callback" /\ tt'.n = Successor(i) /\ tt'.t = i
  <2> HIDE DEF i
  <2>1. Successor(i) \in Soft \cup {Nil}
    BY <1>5
  <2> QED BY <1>1, <1>2, <1>3, <1>7, <2>1 DEF TTType
<1> HIDE DEF t1, i, r
<1>12. TimerOK(tick, s', call, t1, i)
  <2>1. ~ s.quiet[i] /\ s.there[i] /\ ~ s'.quiet[i] /\ s'.there[i]
    BY <1>4, <1>9 DEF TimerOK
  <2>2. /\ ~ InStart(call["app"], i) /\ ~ (call["app"].t = i /\ call["app"].at = "clear")
        /\ ~ InStart(call["tt"], i) /\ ~ (call["tt"].t = i /\ call["tt"].at = "clear")
    BY <1>4 DEF TimerOK
  <2>3. \A a \in Threads : ~ (call[a].t = i /\ call[a].at = "insert")
    BY <2>2 DEF InStart, Threads
  <2> QED BY <1>1, <1>9, <1>10, <2>1, <2>2, <2>3 DEF TimerOK
<1>13. ThreadOK(tick, s', call, t1) /\ Awaited(s', call, t1) /\ s'.thread = "READY"
       /\ ThreadOK(tick, s', call, tt')
  BY <1>2, <1>9, <1>10, <1>11, ThreadFree DEF SameThread
<1>14. \A j \in Timer \ {i} : SameFor(call, tt, call, t1, j)
  BY <1>3, <1>10, TimerAssumption DEF SameFor
<1>15. s'.there[ThreadTimer]
  BY <1>2, <1>9 DEF Good
<1>16. Good(tick, s', call, t1)
  <2>1. StoreOK(s', call, t1)
    BY <1>2 DEF Good, StoreOK, NoCall
  <2> QED BY <1>2, <1>3, <1>9, <1>10, <1>12, <1>13, <1>14, <1>15, <2>1, TouchOK
<1>17. \/ tt'.n = Nil
       \/ tt'.n \in Members(s'.soft) /\ tt'.n \notin {t1.t, call["tt"].t}
  <2>1. Soft \subseteq Timer /\ Nil \notin Timer
    BY TimerAssumption DEF Timer
  <2> QED BY <1>2, <1>5, <1>9, <1>10, <1>11, <2>1
<1>18. Good(tick, s', call, tt')
  BY <1>10, <1>11, <1>13, <1>16, <1>17, ThinkOK
<1> QED BY <1>1, <1>18 DEF Inv

\* The timer that the timer thread holds is its own.
LEMMA HoldsOwn ==
  ASSUME NEW l \in {"callback", "finish"}, Inv, At(l)
  PROVE  /\ tt.t \in Soft /\ tt.t \in Timer /\ tt.t \in Hard \cup Soft /\ tt.t # Nil
         /\ Own(call, tt, "tt", tt.t) /\ s.there[tt.t]
         /\ TimerOK(tick, s, call, tt, tt.t)
<1>1. tt.at = l /\ Good(tick, s, call, tt) /\ TTType(tt)
  BY AtIs
<1>2. tt.t \in Soft /\ tt.t \in Timer /\ tt.t # Nil
  BY <1>1, TimerAssumption DEF TTType, Timer
<1>3. TimerOK(tick, s, call, tt, tt.t)
  BY <1>1, <1>2 DEF Good
<1>4. Own(call, tt, "tt", tt.t) /\ s.there[tt.t]
  BY <1>3 DEF TimerOK, Own, Threads
<1> QED BY <1>2, <1>3, <1>4

\* The callback, or the timer thread after it, begins to start the timer.
LEMMA HolderStarts ==
  ASSUME NEW l \in {"callback", "finish"}, Inv, At(l), NEW v,
         v = s \/ v = Wanted(s, tt.t), v = s => ~ s.quiet[tt.t],
         BeginStart("tt", v, tt.t)
  PROVE  Good(tick, s', call', tt) /\ ~ s'.active[tt.t] /\ s'.thread = "READY"
<1> DEFINE i == tt.t
           x == [at |-> "timeout", t |-> i]
           c2 == [call EXCEPT !["tt"] = x]
<1>1. /\ s' = StartUnlink(v, i) /\ call' = c2
  BY DEF BeginStart
<1>2. /\ i \in Timer /\ i \in Hard \cup Soft /\ "tt" \in Threads /\ x \in CallRange
      /\ Own(call, tt, "tt", i) /\ s.there[i]
  BY HoldsOwn DEF Threads, CallRange
<1>3. /\ Runs("tt") /\ s.thread = "READY" /\ call["tt"].t = Nil /\ Lists(tick, s)
      /\ call \in [Threads -> CallRange]
  BY <1>2, AtIs, CallFacts
<1>4. Begun(tick, s, s', i)
  <2>1. CASE v = s
    BY <1>1, <1>2, <1>3, <2>1, BeginOK
  <2>2. CASE v = Wanted(s, i)
    BY <1>1, <1>2, <1>3, <2>2, BeginOK
  <2> QED BY <2>1, <2>2
<1>5. /\ Lists(tick, s') /\ Spares(s, s', i) /\ SameThread(s, s')
      /\ i \notin Listed(s') /\ ~ s'.active[i] /\ ~ s'.quiet[i] /\ s'.there[i]
  BY <1>4 DEF Begun
<1>6. c2["tt"] = x /\ \A b \in Threads \ {"tt"} : c2[b] = call[b]
  BY <1>2, <1>3
<1> HIDE DEF i
<1>7. TimerOK(tick, s', c2, tt, i)
  <2>1. c2["tt"].at # "insert"
    BY <1>6
  <2> HIDE DEF c2
  <2>2. Leaves(tick, s', call, tt, "tt", i, c2)
    BY <1>2, <1>5, <1>6, <2>1 DEF Leaves
  <2> QED BY <1>2, <2>2, OwnOK
<1>8. Good(tick, s', c2, tt)
  <2>1. call["tt"].t \in {i, Nil} /\ x.t \in {i, Nil} /\ "app" # "tt" /\ tt.t = i
    BY <1>3 DEF i
  <2> QED BY <1>2, <1>3, <1>5, <1>7, <2>1, CallFrame
<1> QED BY <1>1, <1>3, <1>5, <1>8 DEF SameThread, i

LEMMA HolderStops ==
  ASSUME Inv, At("callback"), BeginStop("tt", tt.t)
  PROVE  Good(tick, s', call', tt) /\ s'.thread = "READY"
<1> DEFINE i == tt.t
           x == [at |-> "remove", t |-> i]
           c2 == [call EXCEPT !["tt"] = x]
<1>1. /\ s' = s /\ call' = c2
  BY DEF BeginStop
<1>2. /\ i \in Timer /\ i \in Hard \cup Soft /\ "tt" \in Threads /\ x \in CallRange
      /\ Own(call, tt, "tt", i) /\ s.there[i] /\ TimerOK(tick, s, call, tt, i)
  BY HoldsOwn DEF Threads, CallRange
<1>3. /\ Runs("tt") /\ s.thread = "READY" /\ call["tt"].t = Nil /\ Lists(tick, s)
      /\ call \in [Threads -> CallRange]
  BY <1>2, AtIs, CallFacts
<1>4. c2["tt"] = x /\ \A b \in Threads \ {"tt"} : c2[b] = call[b]
  BY <1>2, <1>3
<1> HIDE DEF i
<1>5. TimerOK(tick, s, c2, tt, i)
  <2>1. /\ c2["tt"].at = "remove" /\ c2["tt"].t = i /\ ~ InStart(c2["tt"], i)
    BY <1>4 DEF InStart
  <2>2. s.quiet[i] => i \notin Listed(s) /\ ~ s.active[i]
    BY <1>2 DEF TimerOK
  <2> HIDE DEF c2
  <2>3. Leaves(tick, s, call, tt, "tt", i, c2)
    BY <1>2, <1>4, <2>1, <2>2 DEF Leaves
  <2> QED BY <1>2, <2>3, OwnOK
<1>6. SameThread(s, s) /\ Spares(s, s, i)
  BY DEF SameThread, Spares, SameTimer
<1>7. Good(tick, s, c2, tt)
  <2>1. call["tt"].t \in {i, Nil} /\ x.t \in {i, Nil} /\ "app" # "tt" /\ tt.t = i
    BY <1>3 DEF i
  <2> QED BY <1>2, <1>3, <1>5, <1>6, <2>1, CallFrame
<1> QED BY <1>1, <1>3, <1>7

\* The callback controls its timer.
LEMMA HolderControls ==
  ASSUME OwnCallbacks, Inv, At("callback"), s' \in Atomic(tt.t, s), UNCHANGED call
  PROVE  Good(tick, s', call', tt) /\ s'.thread = "READY"
<1> DEFINE i == tt.t
<1>1. /\ i \in Timer /\ i \in Hard \cup Soft /\ s.there[i] /\ i # "app"
      /\ TimerOK(tick, s, call, tt, i)
  BY HoldsOwn, TimerAssumption
<1>2. /\ s.thread = "READY" /\ Lists(tick, s) /\ Good(tick, s, call, tt) /\ TTType(tt)
      /\ CallType(call) /\ tt.at = "callback"
  BY AtIs
<1> HIDE DEF i
<1>3. PICK o \in Ops : o[1] = i /\ s' \in AtomicOp(s, o[2], o[3])
  BY DEF Atomic, i
<1>4. o[3] = i /\ o[2] # "detach"
  BY <1>1, <1>3 DEF OwnCallbacks
<1>5. Tuned(tick, s, s', i)
  BY <1>1, <1>2, <1>3, <1>4, AtomicOK
<1>6. /\ Lists(tick, s') /\ Spares(s, s', i) /\ SameThread(s, s') /\ SameTimer(s, s', i)
      /\ s'.there = s.there
  BY <1>5 DEF Tuned, SameTimer
<1>7. \A j \in Timer : SameFor(call, tt, call, tt, j)
  BY DEF SameFor
<1>8. TimerOK(tick, s', call, tt, i)
  BY <1>1, <1>6, <1>7, OthersOK
<1>9. s'.thread = "READY" /\ s'.there[ThreadTimer]
  BY <1>2, <1>6 DEF SameThread, Good
<1>10. ThreadOK(tick, s', call, tt) /\ Awaited(s', call, tt)
  BY <1>2, <1>9, ThreadFree
<1>11. StoreOK(s', call, tt)
  <2>1. call["tt"] = NoCall
    BY AtIs
  <2> QED BY <1>2, <2>1 DEF Good, StoreOK, NoCall
<1>12. Good(tick, s', call, tt)
  BY <1>1, <1>2, <1>6, <1>7, <1>8, <1>9, <1>10, <1>11, TouchOK
<1> QED BY <1>9, <1>12

\* The callback begins to change the kind of its timer.
LEMMA HolderSetsKind ==
  ASSUME Inv, At("callback"), NEW p \in BOOLEAN, BeginControl("tt", tt.t, p)
  PROVE  Good(tick, s', call', tt) /\ s'.thread = "READY"
<1> DEFINE i == tt.t
           x == [at |-> "store", t |-> i, active |-> s.active[i], periodic |-> p]
           c2 == [call EXCEPT !["tt"] = x]
<1>1. /\ s' = s /\ call' = c2
  BY DEF BeginControl
<1>2. /\ i \in Timer /\ i \in Hard \cup Soft /\ "tt" \in Threads
      /\ Own(call, tt, "tt", i) /\ s.there[i] /\ TimerOK(tick, s, call, tt, i)
  BY HoldsOwn DEF Threads
<1>3. /\ Runs("tt") /\ s.thread = "READY" /\ call["tt"].t = Nil /\ Lists(tick, s)
      /\ call \in [Threads -> CallRange]
  BY <1>2, AtIs, CallFacts
<1>4. x \in CallRange
  <2>1. s.active[i] \in BOOLEAN
    BY <1>2, <1>3 DEF Lists, Record
  <2> HIDE DEF i
  <2> QED BY <1>2, <2>1 DEF CallRange
<1>5. c2["tt"] = x /\ \A b \in Threads \ {"tt"} : c2[b] = call[b]
  BY <1>2, <1>3
<1> HIDE DEF i
<1>6. TimerOK(tick, s, c2, tt, i)
  <2>1. c2["tt"].at = "store" /\ ~ InStart(c2["tt"], i)
    BY <1>5 DEF InStart
  <2>2. s.quiet[i] => i \notin Listed(s) /\ ~ s.active[i]
    BY <1>2 DEF TimerOK
  <2> HIDE DEF c2
  <2>3. Leaves(tick, s, call, tt, "tt", i, c2)
    BY <1>2, <1>5, <2>1, <2>2 DEF Leaves, i
  <2> QED BY <1>2, <2>3, OwnOK
<1>7. SameThread(s, s) /\ Spares(s, s, i)
  BY DEF SameThread, Spares, SameTimer
<1>8. Good(tick, s, c2, tt)
  <2>1. /\ call["tt"].t \in {i, Nil} /\ x.t \in {i, Nil} /\ "app" # "tt" /\ tt.t = i
        /\ x.t = tt.t /\ x.active = s.active[tt.t]
    BY <1>3 DEF i
  <2> HIDE DEF x
  <2> QED BY <1>2, <1>3, <1>4, <1>6, <1>7, <2>1, CallFrame DEF c2
<1> QED BY <1>1, <1>3, <1>8

\* The callback of a soft timer.
LEMMA SoftCallbackGood ==
  ASSUME OwnCallbacks, Inv, SoftCallback
  PROVE  Inv'
<1>1. /\ At("callback") /\ UNCHANGED <<tick, isr>> /\ tt' = [tt EXCEPT !.at = "finish"]
      /\ Begins("tt", tt.t) \/ UNCHANGED <<s, call>>
  BY DEF SoftCallback
<1>2. /\ s.thread = "READY" /\ Good(tick, s, call, tt) /\ TTType(tt)
      /\ tt.at = "callback"
  BY <1>1, AtIs
<1>3. tt.t \in Soft /\ tt.t # Nil /\ tt.t # "app"
  BY <1>1, HoldsOwn, TimerAssumption
<1>4. Good(tick, s', call', tt) /\ s'.thread = "READY"
  <2>1. CASE UNCHANGED <<s, call>>
    BY <1>2, <2>1
  <2>2. CASE s' \in Atomic(tt.t, s) /\ UNCHANGED call
    BY <1>1, <2>2, HolderControls
  <2>3. ASSUME NEW o \in Ops, o[1] = tt.t,
               \/ BeginStart("tt", Wanted(s, o[3]), o[3])
               \/ BeginStop("tt", o[3])
        PROVE  Good(tick, s', call', tt) /\ s'.thread = "READY"
    <3>1. o[3] = tt.t
      BY <1>3, <2>3 DEF OwnCallbacks
    <3>2. CASE BeginStop("tt", o[3])
      BY <1>1, <3>1, <3>2, HolderStops
    <3>3. CASE BeginStart("tt", Wanted(s, o[3]), o[3])
      <4> DEFINE v == Wanted(s, tt.t)
      <4>1. v = s => ~ s.quiet[tt.t]
        <5>1. s \in Record /\ tt.t \in Timer
          BY <1>2, <1>3 DEF Good, Lists, Timer
        <5>2. v.quiet[tt.t] = FALSE
          BY <5>1 DEF Wanted, Record
        <5> QED BY <5>2
      <4>2. BeginStart("tt", v, tt.t) /\ v = Wanted(s, tt.t)
        BY <3>1, <3>3
      <4> HIDE DEF v
      <4> QED BY <1>1, <4>1, <4>2, HolderStarts
    <3> QED BY <2>3, <3>2, <3>3
  <2>4. ASSUME NEW o \in Ops, o[1] = tt.t, NEW p \in BOOLEAN,
               BeginControl("tt", o[3], p)
        PROVE  Good(tick, s', call', tt) /\ s'.thread = "READY"
    <3>1. o[3] = tt.t
      BY <1>3, <2>4 DEF OwnCallbacks
    <3> QED BY <1>1, <2>4, <3>1, HolderSetsKind
  <2> QED BY <1>1, <2>1, <2>2, <2>3, <2>4 DEF Begins
<1>5. /\ TTType(tt') /\ tt'.at = "finish" /\ tt'.n = tt.n /\ tt'.t = tt.t
  BY <1>1, <1>2, <1>3 DEF TTType
<1>6. ThreadOK(tick, s', call', tt')
  BY <1>4, <1>5, ThreadFree
<1>7. Good(tick, s', call', tt')
  BY <1>4, <1>5, <1>6, ThinkOK
<1> QED BY <1>1, <1>7 DEF Inv

\* After the callback: a periodic timer that is still active starts again.
LEMMA SoftFinishGood ==
  ASSUME Inv, SoftFinish
  PROVE  Inv'
<1> DEFINE i == tt.t
<1>1. /\ At("finish") /\ UNCHANGED <<tick, isr>>
      /\ tt' = [tt EXCEPT !.at = "loop", !.cur = tick, !.t = Nil]
      /\ \/ s.active[i] /\ BeginStart("tt", s, i)
         \/ s' = Deactivated(s, i) /\ UNCHANGED call
  BY DEF SoftFinish
<1>2. /\ s.thread = "READY" /\ Good(tick, s, call, tt) /\ TTType(tt)
      /\ tt.at = "finish" /\ Lists(tick, s) /\ tick \in 0 .. TickMax /\ CallType(call)
      /\ call["tt"] = NoCall
  BY <1>1, AtIs
<1>3. /\ i \in Soft /\ i \in Timer /\ TimerOK(tick, s, call, tt, i) /\ s.there[i]
      /\ Own(call, tt, "tt", i)
  BY <1>1, HoldsOwn
<1>4. Good(tick, s', call', tt) /\ ~ s'.active[i] /\ s'.thread = "READY"
  <2>1. CASE s.active[i] /\ BeginStart("tt", s, i)
    <3>1. ~ s.quiet[i]
      BY <1>3, <2>1 DEF TimerOK
    <3> QED BY <1>1, <2>1, <3>1, HolderStarts
  <2>2. CASE s' = Deactivated(s, i) /\ UNCHANGED call
    <3> HIDE DEF i
    <3>1. /\ Lists(tick, s') /\ Spares(s, s', i) /\ SameThread(s, s')
          /\ Listed(s') = Listed(s) /\ s'.soft = s.soft /\ ~ s'.active[i]
          /\ s'.quiet = s.quiet /\ s'.there = s.there
          /\ s'.timeout = s.timeout /\ s'.due = s.due
      BY <1>2, <1>3, <2>2, DeactivatedOK
    <3>2. TimerOK(tick, s', call, tt, i)
      BY <1>3, <3>1 DEF TimerOK
    <3>3. s'.thread = "READY" /\ s'.there[ThreadTimer]
      BY <1>2, <3>1 DEF SameThread, Good
    <3>4. ThreadOK(tick, s', call, tt) /\ Awaited(s', call, tt)
      BY <1>2, <3>3, ThreadFree
    <3>5. \A j \in Timer \ {i} : SameFor(call, tt, call, tt, j)
      BY DEF SameFor
    <3>6. StoreOK(s', call, tt)
      BY <1>2 DEF Good, StoreOK, NoCall
    <3>7. Good(tick, s', call, tt)
      BY <1>2, <1>3, <3>1, <3>2, <3>3, <3>4, <3>5, <3>6, TouchOK
    <3> QED BY <2>2, <3>1, <3>3, <3>7
  <2> QED BY <1>1, <2>1, <2>2
<1>5. /\ TTType(tt') /\ tt'.at = "loop" /\ tt'.n = tt.n /\ tt'.t = Nil
  <2>1. tick \in Int
    BY <1>2
  <2> QED BY <1>1, <1>2, <2>1 DEF TTType
<1>6. ThreadOK(tick, s', call', tt')
  BY <1>4, <1>5, ThreadFree
<1>7. call'["tt"].at # "store"
  <2>1. call'["tt"] = [at |-> "timeout", t |-> i] \/ call'["tt"] = NoCall
    BY <1>1, <1>2 DEF BeginStart, CallType, Threads
  <2> QED BY <2>1 DEF NoCall
<1>8. Good(tick, s', call', tt')
  BY <1>3, <1>4, <1>5, <1>6, <1>7, LetGo
<1> QED BY <1>1, <1>8 DEF Inv

LEMMA TimerThreadGood ==
  ASSUME OwnCallbacks, Inv, TimerThread
  PROVE  Inv'
  BY NextTimeoutGood, SuspendSelfGood, DeltaGood, DelaySelfGood, CheckSoftGood,
     SoftFireGood, SoftCallbackGood, SoftFinishGood, SoftEndGood DEF TimerThread

-----------------------------------------------------------------------------
(***************************************************************************)
(* The theorems.                                                           *)
(***************************************************************************)
LEMMA StepGood ==
  ASSUME OwnCallbacks, FixedKinds, Inv, [TimerNext]_timerVars
  PROVE  Inv'
<1>1. CASE Tick
  BY <1>1, TickGood
<1>2. CASE CheckFire
  BY <1>2, CheckFireGood
<1>3. CASE CheckEnd
  BY <1>3 DEF CheckEnd, Inv
<1>4. CASE AppCalls
  BY <1>4, AppCallsGood
<1>5. CASE TimerThread
  BY <1>5, TimerThreadGood
<1>6. CASE \E a \in {"app", "tt"} : CallStep(a)
  BY <1>6, CallStepGood DEF Threads
<1>7. CASE UNCHANGED timerVars
  BY <1>7 DEF timerVars, Inv
<1> QED BY <1>1, <1>2, <1>3, <1>4, <1>5, <1>6, <1>7 DEF TimerNext

\* The strengthening that the theorems rest on is an invariant.
THEOREM TimerInv ==
  ASSUME OwnCallbacks, FixedKinds
  PROVE  TimerSpec => []Inv
<1>1. TimerInit => Inv
  BY InitGood
<1>2. Inv /\ [TimerNext]_timerVars => Inv'
  BY StepGood
<1> QED BY <1>1, <1>2, PTL DEF TimerSpec

\* rt_timer_start keeps both lists in the order in which the timers are due, and
\* the test of rt_timer_check that a timeout has passed is right, across the
\* overflow of rt_tick.
THEOREM TimerOrderHolds ==
  ASSUME OwnCallbacks, FixedKinds
  PROVE  TimerSpec => []TimerOrder
<1>1. Inv => TimerOrder
  <2> SUFFICES ASSUME Inv PROVE TimerOrder
    OBVIOUS
  <2>1. Lists(tick, s) /\ tick \in 0 .. TickMax /\ s \in Record
    BY DEF Inv, Good, Lists
  <2>2. \A l \in {s.hard, s.soft} : \A p, q \in DOMAIN l :
          p < q => s.due[l[p]] <= s.due[l[q]]
    BY <2>1 DEF Lists, Ordered
  <2>3. ASSUME NEW i \in Listed(s) PROVE Passed(tick, s, i) <=> s.due[i] <= 0
    <3>1. Synced(tick, s.timeout[i], s.due[i]) /\ i \in Timer
      BY <2>1, MembersIn DEF Lists
    <3>2. s.due[i] \in Int
      BY <2>1, <3>1 DEF Record
    <3> QED BY <2>1, <3>1, <3>2, Passes DEF Passed
  <2> QED BY <2>2, <2>3 DEF TimerOrder
<1> QED BY <1>1, TimerInv, PTL

\* A timer that rt_timer_start marks activated is in its list, is firing, or is the
\* timer of a call under way, and one about to be inserted is in no list: for the
\* calls of one application thread and of callbacks, at every point of which a tick
\* may come.  Two threads that start the same timer are not covered.
THEOREM ActiveIsListedHolds ==
  ASSUME OwnCallbacks, FixedKinds
  PROVE  TimerSpec => []ActiveIsListed
<1>1. Inv => ActiveIsListed
  <2> SUFFICES ASSUME Inv PROVE ActiveIsListed
    OBVIOUS
  <2>1. CallType(call) /\ \A i \in Timer : TimerOK(tick, s, call, tt, i)
    BY DEF Inv, Good
  <2>2. ASSUME NEW i \in Timer, s.active[i], s.there[i]
        PROVE  i \in Listed(s) \/ tt.t = i \/ \E a \in {"app", "tt"} : call[a].t = i
    BY <2>1, <2>2 DEF TimerOK, Threads
  <2>3. ASSUME NEW i \in Pending PROVE i \notin Listed(s)
    <3>1. PICK a \in Threads : call[a].at = "insert" /\ call[a].t = i
      BY DEF Pending, Threads
    <3>2. i \in Timer
      BY <2>1, <3>1, CallFacts DEF Timer
    <3>3. InStart(call["app"], i) \/ InStart(call["tt"], i)
      BY <3>1 DEF InStart, Threads
    <3> QED BY <2>1, <3>2, <3>3 DEF TimerOK
  <2> QED BY <2>2, <2>3 DEF ActiveIsListed
<1> QED BY <1>1, TimerInv, PTL

\* The timer thread sleeps no longer than until the first soft timer is due, give or
\* take the ticks that came while rt_thread_timer_entry computed its delay.
THEOREM SoftIsAwaitedHolds ==
  ASSUME OwnCallbacks, FixedKinds
  PROVE  TimerSpec => []SoftIsAwaited
<1>1. Inv => SoftIsAwaited
  <2> SUFFICES ASSUME Inv, s.thread = "SUSPEND", s.soft # << >>, ~ AppWakes, ~ s.blind
               PROVE  /\ ThreadTimer \in Listed(s)
                      /\ s.due[ThreadTimer] <=
                           (IF s.due[Head(s.soft)] > 0 THEN s.due[Head(s.soft)] ELSE 0)
                             + tt.val
    BY DEF SoftIsAwaited
  <2>1. Lists(tick, s) /\ Awaited(s, call, tt)
    BY DEF Inv, Good
  <2>2. First(s) = Head(s.soft)
    BY <2>1, FirstIs
  <2> QED BY <2>1, <2>2, ListedIs DEF Awaited, AppWakes
<1> QED BY <1>1, TimerInv, PTL

\* When rt_timer_check returns no hard timer is overdue: the head is the first one due,
\* and it has not passed.
THEOREM FiresInTimeHolds ==
  ASSUME OwnCallbacks, FixedKinds
  PROVE  TimerSpec => FiresInTime
<1> DEFINE A == isr = "check" /\ isr' = "none" =>
                  \A p \in DOMAIN s.hard : s.due[s.hard[p]] > 0
<1>1. Inv /\ [TimerNext]_timerVars => [A]_timerVars
  <2> SUFFICES ASSUME Inv, TimerNext, isr = "check", isr' = "none",
                      NEW p \in DOMAIN s.hard
               PROVE  s.due[s.hard[p]] > 0
    OBVIOUS
  <2>1. CheckEnd
    <3>1. ~ AppCalls /\ ~ (\E a \in {"app", "tt"} : CallStep(a)) /\ ~ TimerThread
      BY DEF AppCalls, CallStep, InCall, Runs, TimerThread, At, NextTimeout,
             SuspendSelf, Delta, DelaySelf, CheckSoft, SoftFire, SoftCallback,
             SoftFinish, SoftEnd
    <3>2. ~ Tick /\ ~ CheckFire
      BY DEF Tick, CheckFire
    <3> QED BY <3>1, <3>2 DEF TimerNext
  <2>2. Lists(tick, s) /\ s \in Record /\ tick \in 0 .. TickMax
    BY DEF Inv, Good, Lists
  <2>3. s.hard \in Seq(Hard \cup {ThreadTimer}) /\ s.hard # << >>
    BY <2>2 DEF Record
  <2> DEFINE h == Head(s.hard)
  <2>4. h \in Timer /\ h \in Listed(s) /\ h = s.hard[1] /\ 1 \in DOMAIN s.hard
    BY <2>2, <2>3, HeadIs
  <2>5. ~ (Minus(tick, s.timeout[h]) < Half)
    BY <2>1, <2>3 DEF CheckEnd, HardPassed, Passed
  <2> HIDE DEF h
  <2>6. s.due[h] \in Int /\ Synced(tick, s.timeout[h], s.due[h])
    BY <2>2, <2>4 DEF Lists, Record
  <2>7. ~ (s.due[h] <= 0)
    BY <2>2, <2>5, <2>6, Passes
  <2>8. s.hard[p] \in Timer /\ p \in Nat /\ p >= 1
    BY <2>3 DEF Timer
  <2>9. s.due[s.hard[p]] \in Int
    BY <2>2, <2>8 DEF Record
  <2>10. p = 1 \/ s.due[h] <= s.due[s.hard[p]]
    BY <2>2, <2>4, <2>8 DEF Lists, Ordered
  <2> QED BY <2>4, <2>6, <2>7, <2>9, <2>10
<1> QED BY <1>1, TimerInv, PTL DEF TimerSpec, FiresInTime

\* A timer that rt_timer_stop or rt_timer_detach has taken out does not fire until it
\* is started again.
THEOREM StoppedIsQuietHolds ==
  ASSUME OwnCallbacks, FixedKinds
  PROVE  TimerSpec => StoppedIsQuiet
<1> DEFINE A == \A i \in Timer : Fires(i) => ~ s.quiet[i]
<1>1. Inv /\ [TimerNext]_timerVars => [A]_timerVars
  <2> SUFFICES ASSUME Inv, TimerNext, NEW i \in Timer, Fires(i)
               PROVE  ~ s.quiet[i]
    OBVIOUS
  <2>1. Lists(tick, s) /\ TimerOK(tick, s, call, tt, i)
    BY DEF Inv, Good
  <2>2. i \in Listed(s)
    <3>1. CASE HardPassed /\ i = Head(s.hard)
      BY <2>1, <3>1, HeadIs DEF HardPassed
    <3>2. CASE tt.at = "loop" /\ tt'.at = "callback" /\ i = tt'.t
      <4>1. ~ UNCHANGED tt
        BY <3>2
      <4>2. TimerThread
        BY <4>1 DEF TimerNext, Tick, CheckFire, CheckEnd, AppCalls, CallStep
      <4>3. SoftFire \/ SoftEnd
        BY <3>2, <4>2 DEF TimerThread, At, NextTimeout, SuspendSelf, Delta, DelaySelf,
                          CheckSoft, SoftCallback, SoftFinish
      <4>4. ~ SoftEnd
        BY <3>2 DEF SoftEnd, Thinks
      <4>5. tt' = [tt EXCEPT !.at = "callback", !.t = tt.n, !.n = Successor(tt.n)]
        BY <4>3, <4>4 DEF SoftFire
      <4>6. tt.n = i
        BY <3>2, <4>5 DEF Inv, Good, TTType
      <4>7. i \in Members(s.soft)
        BY <2>1, <4>6 DEF TimerOK
      <4> QED BY <4>7, ListedIs
    <3> QED BY <3>1, <3>2 DEF Fires
  <2> QED BY <2>1, <2>2 DEF TimerOK
<1> QED BY <1>1, TimerInv, PTL DEF TimerSpec, StoppedIsQuiet
=============================================================================
