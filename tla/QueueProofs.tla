---------------------------- MODULE QueueProofs -----------------------------
(***************************************************************************)
(* The message queue, for any number of threads, slots and messages: no    *)
(* slot is lost or in two places, no message and no free slot is missed by *)
(* a waiter, and the queue is a bounded channel, although every call takes *)
(* and links its slot in two critical sections and copies in between. All  *)
(* three follow from the two paths through the links and from who holds    *)
(* which slot.                                                             *)
(***************************************************************************)
EXTENDS ObjectProofs

(***************************************************************************)
(* The message queue's slots.  A list that is linked through next is the   *)
(* path from its first slot to RT_NULL; the inductive invariant names the  *)
(* paths of the queue and of the free list.                                *)
(***************************************************************************)
Path(nx, s, p) ==
  /\ p \in Seq(Slot) /\ Injective(p)
  /\ s = IF p = << >> THEN Null ELSE p[1]
  /\ \A i \in 1 .. Len(p) : nx[p[i]] = IF i = Len(p) THEN Null ELSE p[i + 1]

Link == Slot \cup {Null}

\* The queue m, linked through nx, when callers hold the slots H; p are the
\* queued slots and f the free ones.
SlotsAre(m, nx, H, p, f) ==
  /\ m \in [head : Link, tail : Link, free : Link, entry : Nat]
  /\ nx \in [Slot -> Link]
  /\ Path(nx, m.head, p) /\ Path(nx, m.free, f)
  /\ m.entry = Len(p)
  /\ m.tail = IF p = << >> THEN Null ELSE p[Len(p)]
  /\ H \cap Members(p) = {} /\ H \cap Members(f) = {} /\ Members(p) \cap Members(f) = {}
  /\ H \cup Members(p) \cup Members(f) = Slot

\* RT_NULL is no slot.
LEMMA NullIsNoSlot == Null \notin Slot /\ MaxMsgs \in Nat /\ MaxMsgs > 0
BY MessageQueueAssumption DEF Null, Slot

\* A path does not depend on the links of other slots.
LEMMA PathSame ==
  ASSUME NEW nx, NEW ny, NEW s, NEW p, Path(nx, s, p),
         \A x \in Members(p) : ny[x] = nx[x]
  PROVE  Path(ny, s, p)
<1>1. \A i \in 1 .. Len(p) : p[i] \in Members(p)
  BY DEF Path, Members
<1> QED BY <1>1 DEF Path

\* The first slot of a path, and the path without it.
LEMMA PathPop ==
  ASSUME NEW nx, NEW s, NEW p, Path(nx, s, p), s # Null
  PROVE  /\ p # << >> /\ s \in Members(p) /\ s \in Slot
         /\ Path(nx, nx[s], Tail(p)) /\ Members(Tail(p)) = Members(p) \ {s}
         /\ Len(Tail(p)) = Len(p) - 1
         /\ Tail(p) # << >> => Tail(p)[Len(Tail(p))] = p[Len(p)] /\ p[Len(p)] # s
         /\ Tail(p) = << >> => p[Len(p)] = s
<1> DEFINE r == Tail(p)
<1>1. p \in Seq(Slot) /\ Injective(p) /\ p # << >> /\ s = p[1]
  BY DEF Path
<1>2. \A i \in 1 .. Len(p) : nx[p[i]] = IF i = Len(p) THEN Null ELSE p[i + 1]
  BY DEF Path
<1>3. Len(p) \in Nat /\ Len(p) > 0 /\ DOMAIN p = 1 .. Len(p) /\ Head(p) = p[1]
  BY <1>1
<1>4. r \in Seq(Slot) /\ Len(r) = Len(p) - 1
  BY <1>1
<1>5. \A i \in 1 .. Len(p) - 1 : r[i] = p[i + 1]
  BY <1>1
<1>6. IsInjective(r) /\ Head(p) \in Members(p) /\ Members(r) = Members(p) \ {Head(p)}
  <2>1. IsInjective(p)
    BY <1>1 DEF Injective, IsInjective
  <2> QED BY <1>1, <2>1, TailMembers
<1> HIDE DEF r
<1>7. Injective(r)
  BY <1>6 DEF Injective, IsInjective
<1>8. s \in Slot
  BY <1>1, <1>3
<1>9. ASSUME NEW i \in 1 .. Len(r)
      PROVE  nx[r[i]] = IF i = Len(r) THEN Null ELSE r[i + 1]
  <2>1. i + 1 \in 1 .. Len(p) /\ i \in 1 .. Len(p) - 1
    BY <1>3, <1>4
  <2>2. nx[r[i]] = IF i + 1 = Len(p) THEN Null ELSE p[(i + 1) + 1]
    BY <1>2, <1>5, <2>1
  <2>3. CASE i = Len(r)
    <3>1. i + 1 = Len(p)
      BY <1>3, <1>4, <2>3
    <3> QED BY <2>2, <2>3, <3>1
  <2>4. CASE i # Len(r)
    <3>1. i + 1 \in 1 .. Len(p) - 1 /\ i + 1 # Len(p)
      <4>1. i # Len(p) - 1
        BY ONLY <1>4, <2>4
      <4>2. Len(p) \in Nat
        BY ONLY <1>3
      <4> QED BY ONLY <2>1, <4>1, <4>2
    <3>2. r[i + 1] = p[(i + 1) + 1]
      BY <1>5, <3>1
    <3> QED BY <2>2, <2>4, <3>1, <3>2
  <2> QED BY <2>3, <2>4
<1>10. nx[s] = IF r = << >> THEN Null ELSE r[1]
  <2>1. 1 \in 1 .. Len(p)
    BY <1>3
  <2>2. nx[s] = IF 1 = Len(p) THEN Null ELSE p[1 + 1]
    BY <1>1, <1>2, <2>1
  <2>3. CASE Len(p) = 1
    <3>1. Len(r) = 0
      BY <1>4, <2>3
    <3>2. r = << >>
      BY <1>4, <3>1
    <3> QED BY <2>2, <2>3, <3>2
  <2>4. CASE Len(p) # 1
    <3>1. 1 \in 1 .. Len(p) - 1 /\ Len(r) > 0
      BY <1>3, <1>4, <2>4
    <3>2. r # << >>
      BY <1>4, <3>1
    <3>3. r[1] = p[1 + 1]
      BY <1>5, <3>1
    <3> QED BY <2>2, <2>4, <3>2, <3>3
  <2> QED BY <2>3, <2>4
<1>11. Path(nx, nx[s], r)
  BY <1>4, <1>7, <1>9, <1>10 DEF Path
<1>12. ASSUME r # << >> PROVE r[Len(r)] = p[Len(p)] /\ p[Len(p)] # s
  <2>1. Len(r) > 0
    BY <1>4, <1>12
  <2>2. Len(p) - 1 \in 1 .. Len(p) - 1 /\ (Len(p) - 1) + 1 = Len(p)
    BY <1>3, <1>4, <2>1
  <2>3. 1 \in DOMAIN p /\ Len(p) \in DOMAIN p /\ Len(p) # 1
    BY <1>3, <2>2
  <2>4. p[Len(p)] # p[1]
    BY <1>1, <2>3 DEF Injective
  <2>5. r[Len(p) - 1] = p[Len(p)]
    BY <1>5, <2>2
  <2> QED BY <1>1, <1>4, <2>4, <2>5
<1>13. ASSUME r = << >> PROVE p[Len(p)] = s
  <2>1. Len(r) = 0
    BY <1>13
  <2>2. Len(p) = 1
    <3>1. Len(p) \in Nat /\ Len(p) - 1 = 0
      BY <1>3, <1>4, <2>1
    <3> QED BY ONLY <3>1
  <2> QED BY <1>1, <2>2
<1> QED BY <1>1, <1>3, <1>4, <1>6, <1>8, <1>11, <1>12, <1>13 DEF r

\* A slot in front of a path.
LEMMA PathPush ==
  ASSUME NEW nx, NEW ny, NEW s, NEW p, Path(nx, s, p), NEW x \in Slot,
         x \notin Members(p), ny[x] = s, \A y \in Members(p) : ny[y] = nx[y]
  PROVE  /\ Path(ny, x, <<x>> \o p) /\ Members(<<x>> \o p) = Members(p) \cup {x}
         /\ Len(<<x>> \o p) = Len(p) + 1 /\ <<x>> \o p # << >>
         /\ (<<x>> \o p)[Len(p) + 1] = IF p = << >> THEN x ELSE p[Len(p)]
<1> DEFINE r == <<x>> \o p
<1>1. p \in Seq(Slot) /\ Injective(p) /\ s = IF p = << >> THEN Null ELSE p[1]
  BY DEF Path
<1>2. Path(ny, s, p)
  BY PathSame
<1>3. /\ r \in Seq(Slot) /\ Injective(r) /\ Members(r) = Members(p) \cup {x}
  BY <1>1, PrependMembers
<1>4. /\ Len(p) \in Nat /\ Len(r) = Len(p) + 1 /\ r[1] = x
      /\ \A i \in 1 .. Len(p) : r[i + 1] = p[i]
  BY <1>1
<1> HIDE DEF r
<1>5. ASSUME NEW i \in 1 .. Len(r)
      PROVE  ny[r[i]] = IF i = Len(r) THEN Null ELSE r[i + 1]
  <2>1. CASE i = 1
    <3>1. CASE p = << >>
      BY <1>1, <1>4, <2>1, <3>1
    <3>2. CASE p # << >>
      <4>1. Len(p) > 0 /\ 1 \in 1 .. Len(p)
        BY <1>1, <3>2
      <4>2. r[1 + 1] = p[1]
        BY <1>4, <4>1
      <4> QED BY <1>1, <1>4, <2>1, <3>2, <4>1, <4>2
    <3> QED BY <3>1, <3>2
  <2>2. CASE i # 1
    <3>1. i - 1 \in 1 .. Len(p) /\ (i - 1) + 1 = i
      BY <1>4, <2>2
    <3>2. r[i] = p[i - 1]
      BY <1>4, <3>1
    <3>3. ny[p[i - 1]] = IF i - 1 = Len(p) THEN Null ELSE p[(i - 1) + 1]
      BY <1>2, <3>1 DEF Path
    <3>4. CASE i = Len(r)
      BY <1>4, <3>2, <3>3, <3>4
    <3>5. CASE i # Len(r)
      <4>1. i \in 1 .. Len(p) /\ i - 1 # Len(p)
        BY <1>4, <3>1, <3>5
      <4>2. r[i + 1] = p[i]
        BY <1>4, <4>1
      <4> QED BY <3>1, <3>2, <3>3, <3>5, <4>1, <4>2
    <3> QED BY <3>4, <3>5
  <2> QED BY <2>1, <2>2
<1>6. r # << >>
  BY <1>3, <1>4
<1>7. Path(ny, x, r)
  BY <1>3, <1>4, <1>5, <1>6 DEF Path
<1>8. r[Len(p) + 1] = IF p = << >> THEN x ELSE p[Len(p)]
  <2>1. CASE p = << >>
    BY <1>4, <2>1
  <2>2. CASE p # << >>
    <3>1. Len(p) \in 1 .. Len(p)
      BY <1>1, <2>2
    <3> QED BY <1>4, <2>2, <3>1
  <2> QED BY <2>1, <2>2
<1> QED BY <1>3, <1>4, <1>6, <1>7, <1>8 DEF r

\* A slot at the end of a path.
LEMMA PathAppend ==
  ASSUME NEW nx, NEW ny, NEW s, NEW p, Path(nx, s, p), NEW x \in Slot,
         x \notin Members(p), ny[x] = Null,
         \A i \in 1 .. Len(p) : ny[p[i]] = IF i = Len(p) THEN x ELSE nx[p[i]]
  PROVE  /\ Path(ny, IF p = << >> THEN x ELSE s, Append(p, x))
         /\ Members(Append(p, x)) = Members(p) \cup {x}
         /\ Len(Append(p, x)) = Len(p) + 1 /\ Append(p, x) # << >>
         /\ Append(p, x)[Len(p) + 1] = x
<1> DEFINE r == Append(p, x)
<1>1. p \in Seq(Slot) /\ Injective(p) /\ s = (IF p = << >> THEN Null ELSE p[1])
      /\ \A i \in 1 .. Len(p) : nx[p[i]] = IF i = Len(p) THEN Null ELSE p[i + 1]
  BY DEF Path
<1>2. r \in Seq(Slot) /\ Injective(r) /\ Members(r) = Members(p) \cup {x}
  BY <1>1, AppendMembers
<1>3. /\ Len(p) \in Nat /\ Len(r) = Len(p) + 1 /\ r[Len(p) + 1] = x
      /\ \A i \in 1 .. Len(p) : r[i] = p[i]
  BY <1>1
<1> HIDE DEF r
<1>4. ASSUME NEW i \in 1 .. Len(r)
      PROVE  ny[r[i]] = IF i = Len(r) THEN Null ELSE r[i + 1]
  <2>1. CASE i = Len(r)
    BY <1>3, <2>1
  <2>2. CASE i # Len(r)
    <3>1. i \in 1 .. Len(p) /\ r[i] = p[i]
      BY <1>3, <2>2
    <3>2. CASE i = Len(p)
      BY <1>3, <3>1, <3>2, <2>2
    <3>3. CASE i # Len(p)
      <4>1. i + 1 \in 1 .. Len(p) /\ r[i + 1] = p[i + 1]
        BY <1>3, <3>1, <3>3
      <4>2. ny[p[i]] = nx[p[i]] /\ nx[p[i]] = p[i + 1]
        BY <1>1, <3>1, <3>3
      <4> QED BY <2>2, <3>1, <4>1, <4>2
    <3> QED BY <3>2, <3>3
  <2> QED BY <2>1, <2>2
<1>5. r # << >>
  BY <1>2, <1>3
<1>6. r[1] = IF p = << >> THEN x ELSE s
  <2>1. CASE p = << >>
    BY <1>3, <2>1
  <2>2. CASE p # << >>
    <3>1. 1 \in 1 .. Len(p)
      BY <1>1, <2>2
    <3> QED BY <1>1, <1>3, <2>2, <3>1
  <2> QED BY <2>1, <2>2
<1>7. Path(ny, IF p = << >> THEN x ELSE s, r)
  BY <1>2, <1>4, <1>5, <1>6 DEF Path
<1> QED BY <1>2, <1>3, <1>5, <1>7 DEF r

\* The parts of SlotsAre that concern one list, and where each slot is.
LEMMA SlotsFacts ==
  ASSUME NEW m, NEW nx, NEW H, NEW p, NEW f, SlotsAre(m, nx, H, p, f)
  PROVE  /\ m \in [head : Link, tail : Link, free : Link, entry : Nat]
         /\ nx \in [Slot -> Link] /\ Path(nx, m.head, p) /\ Path(nx, m.free, f)
         /\ p \in Seq(Slot) /\ f \in Seq(Slot)
         /\ Members(p) \subseteq Slot /\ Members(f) \subseteq Slot /\ H \subseteq Slot
<1>1. /\ m \in [head : Link, tail : Link, free : Link, entry : Nat]
      /\ nx \in [Slot -> Link] /\ Path(nx, m.head, p) /\ Path(nx, m.free, f)
      /\ H \cup Members(p) \cup Members(f) = Slot
  BY DEF SlotsAre
<1> QED BY <1>1 DEF Path

\* A slot leaves the free list.
LEMMA SlotTaken ==
  ASSUME NEW m, NEW nx, NEW H, NEW p, NEW f, SlotsAre(m, nx, H, p, f), m.free # Null
  PROVE  /\ SlotsAre([m EXCEPT !.free = nx[m.free]], nx, H \cup {m.free}, p, Tail(f))
         /\ m.free \in Slot /\ m.free \notin H /\ Len(Tail(f)) = Len(f) - 1 /\ f # << >>
<1> DEFINE s == m.free
           u == [m EXCEPT !.free = nx[s]]
           r == Tail(f)
<1>1. /\ m \in [head : Link, tail : Link, free : Link, entry : Nat]
      /\ nx \in [Slot -> Link] /\ Path(nx, m.head, p) /\ Path(nx, s, f)
  BY SlotsFacts
<1>2. /\ m.entry = Len(p) /\ m.tail = (IF p = << >> THEN Null ELSE p[Len(p)])
      /\ H \cap Members(p) = {} /\ H \cap Members(f) = {} /\ Members(p) \cap Members(f) = {}
      /\ H \cup Members(p) \cup Members(f) = Slot
  BY DEF SlotsAre
<1>3. /\ f # << >> /\ s \in Members(f) /\ s \in Slot /\ Path(nx, nx[s], r)
      /\ Members(r) = Members(f) \ {s} /\ Len(r) = Len(f) - 1
  BY <1>1, PathPop
<1>4. /\ u \in [head : Link, tail : Link, free : Link, entry : Nat]
      /\ u.head = m.head /\ u.tail = m.tail /\ u.free = nx[s] /\ u.entry = m.entry
  BY <1>1, <1>3
<1> HIDE DEF s, u, r
<1>5. SlotsAre(u, nx, H \cup {s}, p, r)
  BY <1>1, <1>2, <1>3, <1>4 DEF SlotsAre
<1> QED BY <1>2, <1>3, <1>5 DEF s, u, r

\* A slot that a caller holds goes to the end of the queue.
LEMMA SlotLinkedLast ==
  ASSUME NEW m, NEW H, NEW p, NEW f, SlotsAre(m, next, H, p, f), NEW s \in H
  PROVE  SlotsAre(LinkLast(m, s).mq, LinkLast(m, s).next, H \ {s}, Append(p, s), f)
<1> DEFINE u == LinkLast(m, s).mq
           ny == LinkLast(m, s).next
           r == Append(p, s)
<1>1. /\ m \in [head : Link, tail : Link, free : Link, entry : Nat]
      /\ next \in [Slot -> Link] /\ Path(next, m.head, p) /\ Path(next, m.free, f)
      /\ H \subseteq Slot /\ p \in Seq(Slot) /\ Members(p) \subseteq Slot
      /\ Members(f) \subseteq Slot
  BY SlotsFacts
<1>2. /\ m.entry = Len(p) /\ m.tail = (IF p = << >> THEN Null ELSE p[Len(p)])
      /\ H \cap Members(p) = {} /\ H \cap Members(f) = {} /\ Members(p) \cap Members(f) = {}
      /\ H \cup Members(p) \cup Members(f) = Slot
  BY DEF SlotsAre
<1>3. s \in Slot /\ s \notin Members(p) /\ s \notin Members(f) /\ Null \notin Slot /\ s # Null
  BY <1>1, <1>2, NullIsNoSlot
<1>4. /\ u \in [head : Link, tail : Link, free : Link, entry : Nat]
      /\ u.head = (IF m.head = Null THEN s ELSE m.head) /\ u.tail = s
      /\ u.free = m.free /\ u.entry = m.entry + 1
  <2> DEFINE h == IF m.head = Null THEN s ELSE m.head
  <2>1. u = [m EXCEPT !.tail = s, !.head = h, !.entry = m.entry + 1]
    BY DEF LinkLast
  <2>2. h \in Link /\ s \in Link /\ m.entry + 1 \in Nat
    BY <1>1, <1>3 DEF Link
  <2> HIDE DEF u, h
  <2>3. /\ u \in [head : Link, tail : Link, free : Link, entry : Nat]
        /\ u.head = h /\ u.tail = s /\ u.free = m.free /\ u.entry = m.entry + 1
    BY <1>1, <2>1, <2>2
  <2> QED BY <2>3 DEF h
<1>5. ny = [x \in Slot |-> IF x = s THEN Null ELSE IF x = m.tail THEN s ELSE next[x]]
  BY DEF LinkLast
<1> HIDE DEF u, ny, r
<1>6. ny \in [Slot -> Link] /\ ny[s] = Null
  BY <1>1, <1>3, <1>5 DEF Link
<1>7. Path(ny, m.free, f)
  <2>1. \A x \in Members(f) : x # s /\ x # m.tail
    <3>1. p # << >> => p[Len(p)] \in Members(p)
      BY <1>1 DEF Members
    <3>2. Null \notin Members(f)
      BY <1>1, <1>3
    <3> QED BY <1>2, <1>3, <3>1, <3>2
  <2>2. \A x \in Members(f) : ny[x] = next[x]
    BY <1>1, <1>5, <2>1
  <2> QED BY <1>1, <2>2, PathSame
<1>8. \A i \in 1 .. Len(p) : ny[p[i]] = IF i = Len(p) THEN s ELSE next[p[i]]
  <2> SUFFICES ASSUME NEW i \in 1 .. Len(p)
               PROVE  ny[p[i]] = IF i = Len(p) THEN s ELSE next[p[i]]
    OBVIOUS
  <2>1. p[i] \in Members(p) /\ p[i] \in Slot /\ p # << >> /\ i \in DOMAIN p /\ Len(p) \in DOMAIN p
    BY <1>1 DEF Members
  <2>2. p[i] # s /\ m.tail = p[Len(p)]
    BY <1>2, <1>3, <2>1
  <2>3. p[i] = p[Len(p)] <=> i = Len(p)
    <3>1. Injective(p)
      BY <1>1 DEF Path
    <3> QED BY <2>1, <3>1 DEF Injective
  <2> QED BY <1>5, <2>1, <2>2, <2>3
<1>9. /\ Path(ny, IF p = << >> THEN s ELSE m.head, r)
      /\ Members(r) = Members(p) \cup {s}
      /\ Len(r) = Len(p) + 1 /\ r # << >> /\ r[Len(p) + 1] = s
  <2>1. Path(next, m.head, p) /\ s \in Slot /\ s \notin Members(p) /\ ny[s] = Null
    BY <1>1, <1>3, <1>6
  <2> QED BY ONLY <1>8, <2>1, PathAppend DEF r
<1>10. u.head = IF p = << >> THEN s ELSE m.head
  <2>1. m.head = (IF p = << >> THEN Null ELSE p[1])
    BY <1>1 DEF Path
  <2>2. p # << >> => p[1] \in Slot
    BY <1>1
  <2> QED BY <1>3, <1>4, <2>1, <2>2
<1>11. Path(ny, u.head, r) /\ Path(ny, u.free, f)
  BY <1>4, <1>7, <1>9, <1>10
<1>12. u.entry = Len(r) /\ u.tail = IF r = << >> THEN Null ELSE r[Len(r)]
  BY <1>2, <1>4, <1>9
<1>13. /\ (H \ {s}) \cap Members(r) = {} /\ (H \ {s}) \cap Members(f) = {}
       /\ Members(r) \cap Members(f) = {}
       /\ (H \ {s}) \cup Members(r) \cup Members(f) = Slot
  BY <1>2, <1>3, <1>9
<1>14. SlotsAre(u, ny, H \ {s}, r, f)
  BY <1>4, <1>6, <1>11, <1>12, <1>13 DEF SlotsAre
<1> QED BY <1>14 DEF u, ny, r

\* It goes to the front.
LEMMA SlotLinkedFirst ==
  ASSUME NEW m, NEW H, NEW p, NEW f, SlotsAre(m, next, H, p, f), NEW s \in H
  PROVE  SlotsAre(LinkFirst(m, s).mq, LinkFirst(m, s).next, H \ {s}, <<s>> \o p, f)
<1> DEFINE u == LinkFirst(m, s).mq
           ny == LinkFirst(m, s).next
           r == <<s>> \o p
<1>1. /\ m \in [head : Link, tail : Link, free : Link, entry : Nat]
      /\ next \in [Slot -> Link] /\ Path(next, m.head, p) /\ Path(next, m.free, f)
      /\ H \subseteq Slot /\ p \in Seq(Slot)
  BY SlotsFacts
<1>2. /\ m.entry = Len(p) /\ m.tail = (IF p = << >> THEN Null ELSE p[Len(p)])
      /\ H \cap Members(p) = {} /\ H \cap Members(f) = {} /\ Members(p) \cap Members(f) = {}
      /\ H \cup Members(p) \cup Members(f) = Slot
  BY DEF SlotsAre
<1>3. s \in Slot /\ s \notin Members(p) /\ s \notin Members(f) /\ Null \notin Slot
  BY <1>1, <1>2, NullIsNoSlot
<1>4. /\ u \in [head : Link, tail : Link, free : Link, entry : Nat]
      /\ u.head = s /\ u.tail = (IF m.tail = Null THEN s ELSE m.tail)
      /\ u.free = m.free /\ u.entry = m.entry + 1
  <2> DEFINE l == IF m.tail = Null THEN s ELSE m.tail
  <2>1. u = [m EXCEPT !.head = s, !.tail = l, !.entry = m.entry + 1]
    BY DEF LinkFirst
  <2>2. l \in Link /\ s \in Link /\ m.entry + 1 \in Nat
    BY <1>1, <1>3 DEF Link
  <2> HIDE DEF u, l
  <2>3. /\ u \in [head : Link, tail : Link, free : Link, entry : Nat]
        /\ u.head = s /\ u.tail = l /\ u.free = m.free /\ u.entry = m.entry + 1
    BY <1>1, <2>1, <2>2
  <2> QED BY <2>3 DEF l
<1>5. ny = [next EXCEPT ![s] = m.head]
  BY DEF LinkFirst
<1> HIDE DEF u, ny, r
<1>6. /\ ny \in [Slot -> Link] /\ ny[s] = m.head
      /\ \A x \in Members(p) \cup Members(f) : ny[x] = next[x]
  <2>1. m.head \in Link
    BY <1>1
  <2> QED BY <1>1, <1>2, <1>3, <1>5, <2>1
<1>7. Path(ny, u.free, f)
  BY <1>1, <1>4, <1>6, PathSame
<1>8. /\ Path(ny, s, r) /\ Members(r) = Members(p) \cup {s}
      /\ Len(r) = Len(p) + 1 /\ r # << >>
      /\ r[Len(p) + 1] = IF p = << >> THEN s ELSE p[Len(p)]
  <2>1. /\ Path(next, m.head, p) /\ s \in Slot /\ s \notin Members(p) /\ ny[s] = m.head
        /\ \A x \in Members(p) : ny[x] = next[x]
    BY <1>1, <1>3, <1>6
  <2> QED BY ONLY <2>1, PathPush DEF r
<1>9. u.entry = Len(r)
  BY <1>2, <1>4, <1>8
<1>10. u.tail = IF r = << >> THEN Null ELSE r[Len(r)]
  <2>1. p # << >> => p[Len(p)] \in Slot
    BY <1>1
  <2>2. u.tail = IF p = << >> THEN s ELSE p[Len(p)]
    BY <1>2, <1>3, <1>4, <2>1
  <2> QED BY <1>8, <2>2
<1>11. /\ (H \ {s}) \cap Members(r) = {} /\ (H \ {s}) \cap Members(f) = {}
       /\ Members(r) \cap Members(f) = {}
       /\ (H \ {s}) \cup Members(r) \cup Members(f) = Slot
  BY <1>2, <1>3, <1>8
<1>12. SlotsAre(u, ny, H \ {s}, r, f)
  BY <1>4, <1>6, <1>7, <1>8, <1>9, <1>10, <1>11 DEF SlotsAre
<1> QED BY <1>12 DEF u, ny, r

\* The first slot of the queue goes to a caller.
LEMMA SlotUnlinked ==
  ASSUME NEW H, NEW p, NEW f, SlotsAre(mq, next, H, p, f), mq.entry # 0
  PROVE  /\ SlotsAre(Unlink, next, H \cup {mq.head}, Tail(p), f)
         /\ mq.head \in Slot /\ mq.head \notin H /\ Len(Tail(p)) = Len(p) - 1
         /\ Len(p) = mq.entry /\ mq.entry \in Nat
<1> DEFINE s == mq.head
           r == Tail(p)
<1>1. /\ mq \in [head : Link, tail : Link, free : Link, entry : Nat]
      /\ next \in [Slot -> Link] /\ Path(next, mq.head, p) /\ Path(next, mq.free, f)
      /\ H \subseteq Slot /\ p \in Seq(Slot)
  BY SlotsFacts
<1>2. /\ mq.entry = Len(p) /\ mq.tail = (IF p = << >> THEN Null ELSE p[Len(p)])
      /\ H \cap Members(p) = {} /\ H \cap Members(f) = {} /\ Members(p) \cap Members(f) = {}
      /\ H \cup Members(p) \cup Members(f) = Slot
  BY DEF SlotsAre
<1>3. p # << >>
  BY <1>1, <1>2
<1>4. s # Null
  <2>1. s = p[1] /\ p[1] \in Slot
    BY <1>1, <1>3 DEF Path
  <2> QED BY <2>1, NullIsNoSlot
<1>5. /\ s \in Members(p) /\ s \in Slot /\ Path(next, next[s], r)
      /\ Members(r) = Members(p) \ {s} /\ Len(r) = Len(p) - 1
      /\ (r # << >> => r[Len(r)] = p[Len(p)] /\ p[Len(p)] # s)
      /\ (r = << >> => p[Len(p)] = s)
  BY <1>1, <1>4, PathPop
<1>6. /\ Unlink \in [head : Link, tail : Link, free : Link, entry : Nat]
      /\ Unlink.head = next[s] /\ Unlink.tail = (IF mq.tail = s THEN Null ELSE mq.tail)
      /\ Unlink.free = mq.free /\ Unlink.entry = mq.entry - 1
  <2>1. mq.entry - 1 \in Nat
    BY <1>1
  <2> QED BY <1>1, <1>5, <2>1 DEF Unlink, Link
<1> HIDE DEF s, r
<1>7. Unlink.tail = IF r = << >> THEN Null ELSE r[Len(r)]
  BY <1>2, <1>3, <1>5, <1>6
<1>8. /\ (H \cup {s}) \cap Members(r) = {} /\ (H \cup {s}) \cap Members(f) = {}
      /\ Members(r) \cap Members(f) = {}
      /\ (H \cup {s}) \cup Members(r) \cup Members(f) = Slot
  BY <1>2, <1>5
<1>9. Unlink.entry = Len(r)
  BY <1>2, <1>5, <1>6
<1>10. SlotsAre(Unlink, next, H \cup {s}, r, f)
  BY <1>1, <1>5, <1>6, <1>7, <1>8, <1>9 DEF SlotsAre
<1>11. s \notin H
  BY <1>2, <1>5
<1> QED BY <1>1, <1>2, <1>5, <1>10, <1>11 DEF s, r

\* A slot that a caller holds becomes free.
LEMMA SlotFreed ==
  ASSUME NEW m, NEW nx, NEW H, NEW p, NEW f, SlotsAre(m, nx, H, p, f), NEW s \in H
  PROVE  SlotsAre([m EXCEPT !.free = s], [nx EXCEPT ![s] = m.free], H \ {s}, p, <<s>> \o f)
<1> DEFINE u == [m EXCEPT !.free = s]
           ny == [nx EXCEPT ![s] = m.free]
           r == <<s>> \o f
<1>1. /\ m \in [head : Link, tail : Link, free : Link, entry : Nat]
      /\ nx \in [Slot -> Link] /\ Path(nx, m.head, p) /\ Path(nx, m.free, f)
      /\ H \subseteq Slot /\ p \in Seq(Slot) /\ Members(p) \subseteq Slot
      /\ Members(f) \subseteq Slot
  BY SlotsFacts
<1>2. /\ m.entry = Len(p) /\ m.tail = (IF p = << >> THEN Null ELSE p[Len(p)])
      /\ H \cap Members(p) = {} /\ H \cap Members(f) = {} /\ Members(p) \cap Members(f) = {}
      /\ H \cup Members(p) \cup Members(f) = Slot
  BY DEF SlotsAre
<1>3. s \in Slot /\ s \notin Members(p) /\ s \notin Members(f)
  BY <1>1, <1>2
<1>4. /\ u \in [head : Link, tail : Link, free : Link, entry : Nat]
      /\ u.head = m.head /\ u.tail = m.tail /\ u.free = s /\ u.entry = m.entry
  BY <1>1, <1>3 DEF Link
<1>5. /\ ny \in [Slot -> Link] /\ ny[s] = m.free
      /\ \A x \in Members(p) \cup Members(f) : ny[x] = nx[x]
  <2>1. m.free \in Link
    BY <1>1
  <2> QED BY <1>1, <1>2, <1>3, <2>1
<1> HIDE DEF u, ny, r
<1>6. Path(ny, u.head, p)
  BY <1>1, <1>4, <1>5, PathSame
<1>7. Path(ny, s, r) /\ Members(r) = Members(f) \cup {s}
  <2>1. /\ Path(nx, m.free, f) /\ s \in Slot /\ s \notin Members(f) /\ ny[s] = m.free
        /\ \A x \in Members(f) : ny[x] = nx[x]
    BY <1>1, <1>3, <1>5
  <2> QED BY ONLY <2>1, PathPush DEF r
<1>8. /\ (H \ {s}) \cap Members(p) = {} /\ (H \ {s}) \cap Members(r) = {}
      /\ Members(p) \cap Members(r) = {}
      /\ (H \ {s}) \cup Members(p) \cup Members(r) = Slot
  BY <1>2, <1>3, <1>7
<1>9. SlotsAre(u, ny, H \ {s}, p, r)
  BY <1>2, <1>4, <1>5, <1>6, <1>7, <1>8 DEF SlotsAre
<1> QED BY <1>9 DEF u, ny, r

\* A list without duplicates has as many elements as it is long.
LEMMA InjectiveCount ==
  ASSUME NEW T, NEW s \in Seq(T), Injective(s)
  PROVE  IsFiniteSet(Members(s)) /\ Cardinality(Members(s)) = Len(s)
<1> DEFINE g == [i \in 1 .. Len(s) |-> s[i]]
           M == Members(s)
<1>1. Len(s) \in Nat /\ DOMAIN s = 1 .. Len(s)
  OBVIOUS
<1>2. M = {s[i] : i \in 1 .. Len(s)}
  BY <1>1 DEF Members
<1>3. \A i, j \in 1 .. Len(s) : s[i] = s[j] => i = j
  BY <1>1 DEF Injective
<1>4. IsFiniteSet(1 .. Len(s)) /\ Cardinality(1 .. Len(s)) = Len(s)
  <2>1. 1 \in Int /\ Len(s) \in Int
    BY <1>1
  <2>2. /\ IsFiniteSet(1 .. Len(s))
        /\ Cardinality(1 .. Len(s)) = IF 1 > Len(s) THEN 0 ELSE Len(s) - 1 + 1
    BY <2>1, FS_Interval
  <2> QED BY <1>1, <2>2
<1> HIDE DEF M
<1>5. g \in Surjection(1 .. Len(s), M)
  BY <1>2 DEF Surjection
<1>6. g \in Injection(1 .. Len(s), M)
  BY <1>2, <1>3 DEF Injection, IsInjective
<1>7. IsFiniteSet(M)
  BY <1>4, <1>5, FS_Surjection
<1>8. Cardinality(1 .. Len(s)) = Cardinality(M)
  BY <1>5, <1>6, <1>7, FS_Injection
<1> QED BY <1>4, <1>7, <1>8 DEF M

\* A path is no longer than there are slots.
LEMMA PathLength ==
  ASSUME NEW nx, NEW s, NEW p, Path(nx, s, p)
  PROVE  Len(p) \in Nat /\ Len(p) <= MaxMsgs
<1>1. p \in Seq(Slot) /\ Injective(p)
  BY DEF Path
<1>2. IsFiniteSet(Members(p)) /\ Cardinality(Members(p)) = Len(p)
  BY <1>1, InjectiveCount
<1>3. IsFiniteSet(Slot) /\ Cardinality(Slot) = MaxMsgs
  BY NullIsNoSlot, FS_Interval DEF Slot
<1>4. Members(p) \in SUBSET Slot
  BY <1>1 DEF Members
<1> QED BY <1>1, <1>2, <1>3, <1>4, FS_Subset

\* The function that Chain(s) reads its slots from.
Walk(nx, g, s) ==
  g = [n \in 0 .. MaxMsgs |->
         IF n = 0 THEN s ELSE IF g[n - 1] = Null THEN Null ELSE nx[g[n - 1]]]

\* Along a path it reads the path and then RT_NULL.
LEMMA WalkExists ==
  ASSUME NEW nx, NEW s, NEW p, Path(nx, s, p)
  PROVE  Walk(nx, [n \in 0 .. MaxMsgs |-> IF n < Len(p) THEN p[n + 1] ELSE Null], s)
<1> DEFINE w == [n \in 0 .. MaxMsgs |-> IF n < Len(p) THEN p[n + 1] ELSE Null]
<1>1. Len(p) \in Nat /\ p \in Seq(Slot) /\ Null \notin Slot
  BY PathLength, NullIsNoSlot DEF Path
<1>2. s = (IF p = << >> THEN Null ELSE p[1])
      /\ \A i \in 1 .. Len(p) : nx[p[i]] = IF i = Len(p) THEN Null ELSE p[i + 1]
  BY DEF Path
<1>3. ASSUME NEW n \in 0 .. MaxMsgs
      PROVE  w[n] = IF n = 0 THEN s ELSE IF w[n - 1] = Null THEN Null ELSE nx[w[n - 1]]
  <2>1. MaxMsgs \in Nat /\ n \in Nat /\ w[n] = (IF n < Len(p) THEN p[n + 1] ELSE Null)
    BY NullIsNoSlot
  <2>2. CASE n = 0
    <3>1. p = << >> <=> ~ (0 < Len(p))
      BY <1>1
    <3> HIDE DEF w
    <3> QED BY <1>2, <2>1, <2>2, <3>1
  <2>3. CASE n # 0
    <3>1. n - 1 \in 0 .. MaxMsgs /\ (n - 1) + 1 = n
      BY <2>1, <2>3
    <3>2. w[n - 1] = IF n - 1 < Len(p) THEN p[n] ELSE Null
      BY <3>1
    <3> HIDE DEF w
    <3>3. CASE n - 1 < Len(p)
      <4>1. n \in 1 .. Len(p) /\ p[n] \in Slot
        BY <1>1, <2>1, <2>3, <3>3
      <4>2. nx[p[n]] = IF n = Len(p) THEN Null ELSE p[n + 1]
        BY <1>2, <4>1
      <4>3. n = Len(p) <=> ~ (n < Len(p))
        BY <1>1, <2>1, <3>3
      <4> QED BY <1>1, <2>1, <2>3, <3>2, <3>3, <4>1, <4>2, <4>3
    <3>4. CASE ~ (n - 1 < Len(p))
      <4>1. ~ (n < Len(p))
        BY <1>1, <2>1, <3>4
      <4> QED BY <2>1, <2>3, <3>2, <3>4, <4>1
    <3> QED BY <3>3, <3>4
  <2> QED BY <2>2, <2>3
<1>4. w = [n \in 0 .. MaxMsgs |->
             IF n = 0 THEN s ELSE IF w[n - 1] = Null THEN Null ELSE nx[w[n - 1]]]
  <2> DEFINE u == [n \in 0 .. MaxMsgs |->
             IF n = 0 THEN s ELSE IF w[n - 1] = Null THEN Null ELSE nx[w[n - 1]]]
  <2>1. \A n \in 0 .. MaxMsgs : w[n] = u[n]
    <3> HIDE DEF w
    <3> QED BY <1>3
  <2>2. w \in [0 .. MaxMsgs -> {w[n] : n \in 0 .. MaxMsgs}] /\ DOMAIN w = 0 .. MaxMsgs
    OBVIOUS
  <2> QED BY <2>1, <2>2
<1> QED BY <1>4 DEF Walk

LEMMA WalkIs ==
  ASSUME NEW nx, NEW s, NEW p, Path(nx, s, p), NEW g, Walk(nx, g, s), NEW n \in 0 .. MaxMsgs
  PROVE  g[n] = IF n < Len(p) THEN p[n + 1] ELSE Null
<1> DEFINE w == [m \in 0 .. MaxMsgs |-> IF m < Len(p) THEN p[m + 1] ELSE Null]
           Bad == {m \in 0 .. MaxMsgs : g[m] # w[m]}
<1>1. Walk(nx, w, s)
  BY WalkExists
<1>2. w[n] = IF n < Len(p) THEN p[n + 1] ELSE Null
  OBVIOUS
<1> HIDE DEF w
<1>3. \A m \in 0 .. MaxMsgs :
        /\ g[m] = IF m = 0 THEN s ELSE IF g[m - 1] = Null THEN Null ELSE nx[g[m - 1]]
        /\ w[m] = IF m = 0 THEN s ELSE IF w[m - 1] = Null THEN Null ELSE nx[w[m - 1]]
  BY <1>1 DEF Walk
<1>4. ASSUME Bad # {} PROVE FALSE
  <2>1. PICK m \in Bad : \A i \in Bad : m <= i
    <3>1. Bad \in SUBSET Nat
      BY NullIsNoSlot
    <3> HIDE DEF Bad
    <3> QED BY <1>4, <3>1, SmallestExists
  <2>2. m \in 0 .. MaxMsgs /\ g[m] # w[m] /\ MaxMsgs \in Nat
    BY NullIsNoSlot
  <2>3. m # 0
    BY <1>3, <2>2
  <2>4. m - 1 \in 0 .. MaxMsgs /\ ~ (m <= m - 1)
    BY <2>2, <2>3
  <2>5. m - 1 \notin Bad
    <3> HIDE DEF Bad
    <3> QED BY <2>1, <2>4
  <2>6. g[m - 1] = w[m - 1]
    BY <2>4, <2>5
  <2> QED BY <1>3, <2>2, <2>3, <2>6
<1> QED BY <1>2, <1>4

\* The slots that are reached from s by the links nx.
ChainOf(nx, s) ==
  LET g == CHOOSE h : Walk(nx, h, s)
  IN  [i \in 1 .. Cardinality({n \in 0 .. MaxMsgs - 1 : g[n] # Null}) |-> g[i - 1]]

\* They are those of the path that starts at s.
LEMMA ChainOfIs ==
  ASSUME NEW nx, NEW s, NEW p, Path(nx, s, p)
  PROVE  ChainOf(nx, s) = p
<1> DEFINE g == CHOOSE h : Walk(nx, h, s)
           N == {n \in 0 .. MaxMsgs - 1 : g[n] # Null}
<1>1. Walk(nx, g, s)
  BY WalkExists
<1>2. ChainOf(nx, s) = [i \in 1 .. Cardinality(N) |-> g[i - 1]]
  BY DEF ChainOf
<1> HIDE DEF g
<1>3. /\ Len(p) \in Nat /\ Len(p) <= MaxMsgs /\ MaxMsgs \in Nat /\ p \in Seq(Slot)
      /\ Null \notin Slot /\ DOMAIN p = 1 .. Len(p)
  BY PathLength, NullIsNoSlot DEF Path
<1>4. \A n \in 0 .. MaxMsgs : g[n] = IF n < Len(p) THEN p[n + 1] ELSE Null
  BY <1>1, WalkIs
<1>5. N = 0 .. Len(p) - 1
  <2>1. ASSUME NEW n \in 0 .. MaxMsgs - 1 PROVE g[n] # Null <=> n < Len(p)
    <3>1. n \in 0 .. MaxMsgs
      BY <1>3
    <3>2. g[n] = IF n < Len(p) THEN p[n + 1] ELSE Null
      BY <1>4, <3>1
    <3>3. n < Len(p) => p[n + 1] \in Slot
      BY <1>3
    <3> QED BY <1>3, <3>2, <3>3
  <2> QED BY <1>3, <2>1
<1>6. Cardinality(0 .. Len(p) - 1) = Len(p)
  <2>1. 0 \in Int /\ Len(p) - 1 \in Int
    BY <1>3
  <2>2. Cardinality(0 .. Len(p) - 1) = IF 0 > Len(p) - 1 THEN 0 ELSE Len(p) - 1 - 0 + 1
    BY <2>1, FS_Interval
  <2> QED BY <1>3, <2>2
<1>7. ChainOf(nx, s) = [i \in 1 .. Len(p) |-> g[i - 1]]
  BY <1>2, <1>5, <1>6
<1>8. ASSUME NEW i \in 1 .. Len(p) PROVE g[i - 1] = p[i]
  <2>1. i - 1 \in 0 .. MaxMsgs /\ i - 1 < Len(p) /\ (i - 1) + 1 = i
    BY <1>3
  <2> QED BY <1>4, <2>1
<1> QED BY <1>3, <1>7, <1>8

LEMMA ChainIs ==
  ASSUME NEW s, NEW p, Path(next, s, p)
  PROVE  Chain(s) = p
<1>1. ChainOf(next, s) = p
  BY ChainOfIs
<1> QED BY <1>1 DEF Chain, ChainOf, Walk

\* The rounds of the reset's loop over the queued slots p.
Recycling(g, p, n) ==
  g = [m \in 0 .. n |->
         IF m = 0
           THEN [free |-> mq.free, next |-> next]
           ELSE [free |-> p[m],
                 next |-> [g[m - 1].next EXCEPT ![p[m]] = g[m - 1].free]]]

LEMMA RecyclingExists ==
  ASSUME NEW p, NEW n \in Nat
  PROVE  \E g : Recycling(g, p, n)
<1> DEFINE First == [free |-> mq.free, next |-> next]
           Then(r, m) == [free |-> p[m], next |-> [r.next EXCEPT ![p[m]] = r.free]]
           Bad == {m \in Nat : ~ \E g : Recycling(g, p, m)}
<1>0. \A g, m : Recycling(g, p, m) <=>
        g = [i \in 0 .. m |-> IF i = 0 THEN First ELSE Then(g[i - 1], i)]
  BY DEF Recycling
<1>1. SUFFICES ASSUME Bad # {} PROVE FALSE
  OBVIOUS
<1>2. PICK m \in Bad : \A i \in Bad : m <= i
  <2>1. Bad \in SUBSET Nat
    OBVIOUS
  <2> HIDE DEF Bad
  <2> QED BY <1>1, <2>1, SmallestExists
<1>3. m \in Nat /\ ~ \E g : Recycling(g, p, m)
  OBVIOUS
<1> HIDE DEF First, Then
<1>4. CASE m = 0
  <2> DEFINE g == [i \in 0 .. 0 |-> First]
  <2>1. g = [i \in 0 .. 0 |-> IF i = 0 THEN First ELSE Then(g[i - 1], i)]
    OBVIOUS
  <2> HIDE DEF g
  <2> QED BY <1>0, <1>3, <1>4, <2>1
<1>5. CASE m # 0
  <2>1. m - 1 \in Nat /\ m - 1 \notin Bad
    <3> HIDE DEF Bad
    <3> QED BY <1>2, <1>3, <1>5
  <2>2. PICK f : Recycling(f, p, m - 1)
    BY <2>1
  <2>3. f = [i \in 0 .. m - 1 |-> IF i = 0 THEN First ELSE Then(f[i - 1], i)]
    BY <1>0, <2>2
  <2> DEFINE g == [i \in 0 .. m |-> IF i = 0 THEN First ELSE Then(f[i - 1], i)]
  <2>4. \A i \in 0 .. m - 1 : g[i] = f[i]
    <3>1. \A i \in 0 .. m - 1 : i \in 0 .. m
      BY <1>3
    <3> QED BY <2>3, <3>1
  <2>5. ASSUME NEW i \in 0 .. m, i # 0 PROVE g[i - 1] = f[i - 1]
    <3>1. i - 1 \in 0 .. m - 1
      BY <1>3, <2>5
    <3> QED BY <2>4, <3>1
  <2>6. g = [i \in 0 .. m |-> IF i = 0 THEN First ELSE Then(g[i - 1], i)]
    BY <2>5
  <2> HIDE DEF g
  <2> QED BY <1>0, <1>3, <2>6
<1> QED BY <1>4, <1>5

\* After m rounds the free list has the first m queued slots in front.
MovedToFree(r, p, f, m) ==
  /\ r.next \in [Slot -> Link]
  /\ \E h : Path(r.next, r.free, h) /\ Members(h) = Members(f) \cup {p[i] : i \in 1 .. m}

LEMMA RecycledIs ==
  ASSUME NEW H, NEW p, NEW f, SlotsAre(mq, next, H, p, f)
  PROVE  MovedToFree(Recycled, p, f, Len(p))
<1> DEFINE g == CHOOSE h : Recycling(h, p, Len(p))
           Bad == {m \in 0 .. Len(p) : ~ MovedToFree(g[m], p, f, m)}
<1>1. /\ next \in [Slot -> Link] /\ Path(next, mq.head, p) /\ Path(next, mq.free, f)
      /\ p \in Seq(Slot) /\ Len(p) \in Nat /\ Members(p) \cap Members(f) = {}
      /\ DOMAIN p = 1 .. Len(p)
  <2>1. Members(p) \cap Members(f) = {}
    BY DEF SlotsAre
  <2>2. /\ next \in [Slot -> Link] /\ Path(next, mq.head, p) /\ Path(next, mq.free, f)
        /\ p \in Seq(Slot)
    BY SlotsFacts
  <2> QED BY <2>1, <2>2
<1>2. Chain(mq.head) = p
  BY <1>1, ChainIs
<1>3. Recycling(g, p, Len(p))
  BY <1>1, RecyclingExists
<1>4. Recycled = g[Len(p)]
  BY <1>2 DEF Recycled, Recycling
<1> HIDE DEF g
<1>5. g[0] = [free |-> mq.free, next |-> next]
  BY <1>1, <1>3 DEF Recycling
<1>6. \A m \in 0 .. Len(p) : m # 0 =>
        g[m] = [free |-> p[m], next |-> [g[m - 1].next EXCEPT ![p[m]] = g[m - 1].free]]
  BY <1>3 DEF Recycling
<1>7. MovedToFree(g[0], p, f, 0)
  <2>1. {p[i] : i \in 1 .. 0} = {}
    OBVIOUS
  <2>2. g[0].free = mq.free /\ g[0].next = next
    BY <1>5
  <2> QED BY <1>1, <2>1, <2>2 DEF MovedToFree
<1>8. ASSUME NEW m \in 1 .. Len(p), MovedToFree(g[m - 1], p, f, m - 1)
      PROVE  MovedToFree(g[m], p, f, m)
  <2> DEFINE r == g[m - 1]
             x == p[m]
  <2>1. m \in 0 .. Len(p) /\ m # 0 /\ m \in DOMAIN p
    BY <1>1
  <2>2. g[m] = [free |-> x, next |-> [r.next EXCEPT ![x] = r.free]]
    BY <1>6, <2>1
  <2>3. PICK h : Path(r.next, r.free, h) /\ Members(h) = Members(f) \cup {p[i] : i \in 1 .. m - 1}
    BY <1>8 DEF MovedToFree
  <2>4. r.next \in [Slot -> Link] /\ x \in Slot /\ x \in Members(p)
    BY <1>1, <1>8, <2>1 DEF MovedToFree, Members
  <2> HIDE DEF r
  <2>5. x \notin Members(h)
    <3>1. Injective(p)
      <4>1. Path(next, mq.head, p)
        BY <1>1
      <4> QED BY <4>1 DEF Path
    <3>2. \A i \in 1 .. m - 1 : i \in DOMAIN p /\ i # m
      BY <1>1
    <3>3. \A i \in 1 .. m - 1 : p[i] # x
      BY <2>1, <3>1, <3>2 DEF Injective
    <3> QED BY <1>1, <2>3, <2>4, <3>3
  <2> DEFINE ny == [r.next EXCEPT ![x] = r.free]
  <2>6. r.free \in Link
    <3>1. h \in Seq(Slot) /\ r.free = IF h = << >> THEN Null ELSE h[1]
      BY <2>3 DEF Path
    <3> QED BY <3>1 DEF Link
  <2>7. Members(h) \subseteq Slot
    BY <2>3 DEF Path, Members
  <2>8. ny \in [Slot -> Link] /\ ny[x] = r.free /\ \A y \in Members(h) : ny[y] = r.next[y]
    BY <2>4, <2>5, <2>6, <2>7
  <2>9. g[m].free = x /\ g[m].next = ny
    BY <2>2
  <2> HIDE DEF x, ny
  <2>10. Path(ny, x, <<x>> \o h) /\ Members(<<x>> \o h) = Members(h) \cup {x}
    BY <2>3, <2>4, <2>5, <2>8, PathPush
  <2>11. {p[i] : i \in 1 .. m} = {p[i] : i \in 1 .. m - 1} \cup {x}
    <3>1. 1 .. m = (1 .. m - 1) \cup {m}
      BY <1>1
    <3> QED BY <3>1 DEF x
  <2>12. Members(<<x>> \o h) = Members(f) \cup {p[i] : i \in 1 .. m}
    BY <2>3, <2>10, <2>11
  <2> QED BY <2>8, <2>9, <2>10, <2>12 DEF MovedToFree
<1>9. ASSUME Bad # {} PROVE FALSE
  <2>1. PICK m \in Bad : \A i \in Bad : m <= i
    <3>1. Bad \in SUBSET Nat
      BY <1>1
    <3> HIDE DEF Bad
    <3> QED BY <1>9, <3>1, SmallestExists
  <2>2. m \in 0 .. Len(p) /\ ~ MovedToFree(g[m], p, f, m)
    OBVIOUS
  <2>3. m # 0
    BY <1>7, <2>2
  <2>4. m - 1 \in 0 .. Len(p) /\ ~ (m <= m - 1) /\ m \in 1 .. Len(p)
    BY <1>1, <2>2, <2>3
  <2>5. m - 1 \notin Bad
    <3> HIDE DEF Bad
    <3> QED BY <2>1, <2>4
  <2>6. MovedToFree(g[m - 1], p, f, m - 1)
    BY <2>4, <2>5
  <2> QED BY <1>8, <2>2, <2>4, <2>6
<1>10. Len(p) \in 0 .. Len(p)
  BY <1>1
<1> QED BY <1>4, <1>9, <1>10

\* The reset moves every queued slot to the free list.
LEMMA SlotsReset ==
  ASSUME NEW H, NEW p, NEW f, SlotsAre(mq, next, H, p, f)
  PROVE  \E h : SlotsAre([head |-> Null, tail |-> Null, free |-> Recycled.free,
                          entry |-> 0], Recycled.next, H, << >>, h)
<1> DEFINE r == Recycled
           u == [head |-> Null, tail |-> Null, free |-> r.free, entry |-> 0]
<1>1. MovedToFree(r, p, f, Len(p))
  BY RecycledIs
<1> HIDE DEF r
<1>2. PICK h : Path(r.next, r.free, h) /\ Members(h) = Members(f) \cup {p[i] : i \in 1 .. Len(p)}
  BY <1>1 DEF MovedToFree
<1>3. /\ p \in Seq(Slot) /\ H \cap Members(p) = {} /\ H \cap Members(f) = {}
      /\ H \cup Members(p) \cup Members(f) = Slot
  BY SlotsFacts DEF SlotsAre
<1>4. Members(p) = {p[i] : i \in 1 .. Len(p)}
  BY <1>3 DEF Members
<1>5. Members(<< >>) = {}
  BY DEF Members
<1>6. h \in Seq(Slot) /\ r.free = (IF h = << >> THEN Null ELSE h[1])
  BY <1>2 DEF Path
<1>7. r.free \in Link
  BY <1>6 DEF Link
<1>8. /\ u \in [head : Link, tail : Link, free : Link, entry : Nat]
      /\ u.head = Null /\ u.tail = Null /\ u.free = r.free /\ u.entry = 0
  BY <1>7 DEF Link
<1> HIDE DEF u
<1>9. Path(r.next, u.head, << >>)
  <2>1. << >> \in Seq(Slot) /\ Injective(<< >>) /\ Len(<< >>) = 0
    BY DEF Injective
  <2> QED BY <1>8, <2>1 DEF Path
<1>10. H \cup Members(<< >>) \cup Members(h) = Slot /\ H \cap Members(h) = {}
  BY <1>2, <1>3, <1>4, <1>5
<1>11. SlotsAre(u, r.next, H, << >>, h)
  BY <1>1, <1>2, <1>5, <1>8, <1>9, <1>10 DEF SlotsAre, MovedToFree
<1> QED BY <1>11 DEF u, r

\* The empty queue: every slot is free.
LEMMA SlotsFresh ==
  SlotsAre(EmptyQueue, [s \in Slot |-> s - 1], {}, << >>,
           [i \in 1 .. MaxMsgs |-> MaxMsgs + 1 - i])
<1> DEFINE f == [i \in 1 .. MaxMsgs |-> MaxMsgs + 1 - i]
           nx == [s \in Slot |-> s - 1]
           m == EmptyQueue
<1>1. MaxMsgs \in Nat /\ MaxMsgs > 0 /\ Null = 0 /\ Slot = 1 .. MaxMsgs
  BY NullIsNoSlot DEF Null, Slot
<1>2. \A i \in 1 .. MaxMsgs : MaxMsgs + 1 - i \in 1 .. MaxMsgs
  BY <1>1
<1>3. f \in [1 .. MaxMsgs -> Slot] /\ DOMAIN f = 1 .. MaxMsgs
  BY <1>1, <1>2
<1>4. f \in Seq(Slot) /\ Len(f) = MaxMsgs /\ f # << >>
  <2>1. f \in Seq(Slot)
    BY <1>1, <1>3
  <2>2. Len(f) = MaxMsgs
    BY <1>1, <1>3, <2>1
  <2> HIDE DEF f
  <2> QED BY <1>1, <2>1, <2>2
<1>5. \A i \in 1 .. MaxMsgs : f[i] = MaxMsgs + 1 - i
  OBVIOUS
<1>6. \A s \in Slot : nx[s] = s - 1
  OBVIOUS
<1>7. nx \in [Slot -> Link]
  <2>1. \A s \in Slot : s - 1 \in Link
    BY <1>1 DEF Link
  <2> QED BY <2>1
<1> HIDE DEF f, nx
<1>8. Injective(f)
  <2>1. \A i, j \in 1 .. MaxMsgs : MaxMsgs + 1 - i = MaxMsgs + 1 - j => i = j
    BY <1>1
  <2> QED BY <1>3, <1>5, <2>1 DEF Injective
<1>9. Members(f) = Slot
  <2>1. \A s \in Slot : MaxMsgs + 1 - s \in 1 .. MaxMsgs /\ MaxMsgs + 1 - (MaxMsgs + 1 - s) = s
    BY <1>1
  <2>2. \A s \in Slot : f[MaxMsgs + 1 - s] = s
    BY <1>5, <2>1
  <2> QED BY <1>3, <2>1, <2>2 DEF Members
<1>10. ASSUME NEW i \in 1 .. Len(f)
       PROVE  nx[f[i]] = IF i = Len(f) THEN Null ELSE f[i + 1]
  <2>1. i \in 1 .. MaxMsgs
    BY <1>4
  <2>2. f[i] = MaxMsgs + 1 - i /\ f[i] \in Slot
    BY <1>1, <1>2, <1>5, <2>1
  <2>3. nx[f[i]] = (MaxMsgs + 1 - i) - 1
    BY <1>6, <2>2
  <2>4. CASE i = MaxMsgs
    BY <1>1, <1>4, <2>3, <2>4
  <2>5. CASE i # MaxMsgs
    <3>1. i + 1 \in 1 .. MaxMsgs
      BY <1>1, <2>1, <2>5
    <3>2. f[i + 1] = MaxMsgs + 1 - (i + 1)
      BY <1>5, <3>1
    <3>3. (MaxMsgs + 1 - i) - 1 = MaxMsgs + 1 - (i + 1)
      BY <1>1, <2>1
    <3> QED BY <1>4, <2>3, <2>5, <3>2, <3>3
  <2> QED BY <2>4, <2>5
<1>11. /\ m \in [head : Link, tail : Link, free : Link, entry : Nat]
       /\ m.head = Null /\ m.tail = Null /\ m.free = MaxMsgs /\ m.entry = 0
  BY <1>1 DEF EmptyQueue, Link
<1> HIDE DEF m
<1>12. Path(nx, m.free, f)
  <2>1. f[1] = MaxMsgs
    <3>1. 1 \in 1 .. MaxMsgs /\ MaxMsgs + 1 - 1 = MaxMsgs
      BY <1>1
    <3> QED BY <1>5, <3>1
  <2> QED BY <1>4, <1>8, <1>10, <1>11, <2>1 DEF Path
<1>13. Path(nx, m.head, << >>) /\ Members(<< >>) = {} /\ Len(<< >>) = 0
  <2>1. << >> \in Seq(Slot) /\ Injective(<< >>) /\ Len(<< >>) = 0
    BY DEF Injective
  <2> QED BY <1>11, <2>1 DEF Path, Members
<1>14. SlotsAre(m, nx, {}, << >>, f)
  BY <1>7, <1>9, <1>11, <1>12, <1>13 DEF SlotsAre
<1> QED BY <1>14 DEF m, nx, f

-----------------------------------------------------------------------------
(***************************************************************************)
(* The message queue.  A thread holds a slot exactly while it is between   *)
(* the two critical sections of its call, two threads never hold the same, *)
(* and the queue is live while a slot is held.  What receivers wait for is *)
(* a queued message, what senders wait for a slot of the free list.        *)
(***************************************************************************)
SlotLabels == {"mq_send", "mq_urgent", "mq_free"}

HoldersOK ==
  /\ own = [t \in Thread |-> own[t]]
  /\ \A t \in Thread : /\ own[t].slot \in Link
                       /\ own[t].slot # Null <=> pc[t].at \in SlotLabels
  /\ \A t, x \in Thread : own[t].slot = own[x].slot /\ own[t].slot # Null => t = x
  /\ obj[Receivers] # "live" => \A t \in Thread : own[t].slot = Null

QueueIs(kk, at, m, nx, H, p, f) ==
  /\ SlotsAre(m, nx, H, p, f)
  /\ Noticed(Receivers, kk, at, m.entry) /\ Noticed(Senders, kk, at, Len(f))

QueueInv ==
  /\ ChannelInv /\ HoldersOK
  /\ \E p, f : QueueIs(k, pc, mq, next, HeldSlots, p, f)

\* c comes to hold slot s, or no slot any more.
LEMMA HolderMoves ==
  ASSUME HoldersOK, pc = [x \in Thread |-> pc[x]], NEW c \in Thread, NEW s \in Link, NEW v,
         own' = [own EXCEPT ![c] = [slot |-> s, msg |-> v]], s # Null => s \notin HeldSlots,
         NEW l, NEW a, pc' = [pc EXCEPT ![c] = At(l, a)], s # Null <=> l \in SlotLabels,
         UNCHANGED obj, s # Null => obj[Receivers] = "live"
  PROVE  HoldersOK' /\ HeldSlots' = (HeldSlots \ {own[c].slot}) \cup ({s} \ {Null})
<1>1. /\ own' = [x \in Thread |-> own'[x]] /\ own'[c].slot = s
      /\ \A x \in Thread \ {c} : own'[x] = own[x]
  <2>1. own = [x \in Thread |-> own[x]]
    BY DEF HoldersOK
  <2> DEFINE w == [slot |-> s, msg |-> v]
  <2>2. w.slot = s
    OBVIOUS
  <2>3. own' = [x \in Thread |-> IF x = c THEN w ELSE own[x]]
    BY <2>1
  <2> HIDE DEF w
  <2> QED BY <2>2, <2>3
<1>2. pc'[c].at = l /\ \A x \in Thread \ {c} : pc'[x] = pc[x]
  BY DEF At
<1>3. /\ \A x \in Thread : /\ own[x].slot \in Link
                           /\ own[x].slot # Null <=> pc[x].at \in SlotLabels
      /\ \A t, x \in Thread : own[t].slot = own[x].slot /\ own[t].slot # Null => t = x
      /\ obj[Receivers] # "live" => \A t \in Thread : own[t].slot = Null
  BY DEF HoldersOK
<1>4. \A x \in Thread : own[x].slot # Null => own[x].slot \in HeldSlots
  BY DEF HeldSlots
<1>5. HeldSlots = {own[x].slot : x \in Thread} \ {Null}
      /\ HeldSlots' = {own'[x].slot : x \in Thread} \ {Null}
  BY DEF HeldSlots
<1>6. \A t, x \in Thread : own'[t].slot = own'[x].slot /\ own'[t].slot # Null => t = x
  BY <1>1, <1>3, <1>4
<1>7. \A x \in Thread : /\ own'[x].slot \in Link
                        /\ own'[x].slot # Null <=> pc'[x].at \in SlotLabels
  BY <1>1, <1>2, <1>3
<1>8. obj'[Receivers] # "live" => \A t \in Thread : own'[t].slot = Null
  BY <1>1, <1>3
<1>9. HeldSlots' = (HeldSlots \ {own[c].slot}) \cup ({s} \ {Null})
  BY <1>1, <1>3, <1>5
<1> QED BY <1>1, <1>6, <1>7, <1>8, <1>9 DEF HoldersOK

\* The slots stay with their holders.
LEMMA HoldersStay ==
  ASSUME HoldersOK, UNCHANGED own,
         \A x \in Thread : pc'[x].at \in SlotLabels <=> pc[x].at \in SlotLabels,
         obj'[Receivers] # "live" =>
           obj[Receivers] # "live" \/ \A t \in Thread : own[t].slot = Null
  PROVE  HoldersOK' /\ HeldSlots' = HeldSlots
BY DEF HoldersOK, HeldSlots

\* A step of c that begins and ends outside of those critical sections.
LEMMA LabelStays ==
  ASSUME pc = [x \in Thread |-> pc[x]], NEW c \in Thread, NEW l, NEW a,
         pc' = [pc EXCEPT ![c] = At(l, a)], l \notin SlotLabels, pc[c].at \notin SlotLabels
  PROVE  \A x \in Thread : pc'[x].at \in SlotLabels <=> pc[x].at \in SlotLabels
<1>1. pc'[c].at = l /\ \A x \in Thread \ {c} : pc'[x] = pc[x]
  BY DEF At
<1> QED BY <1>1

\* A step that leaves the queue and its waiters alone.
LEMMA QueueStays ==
  ASSUME QueueInv, ChannelInv', HoldersOK', HeldSlots' = HeldSlots, UNCHANGED mqObject,
         \A q \in BothLists : NoMore(q)
  PROVE  QueueInv'
<1>1. PICK p, f : QueueIs(k, pc, mq, next, HeldSlots, p, f)
  BY DEF QueueInv
<1>2. /\ SlotsAre(mq, next, HeldSlots, p, f)
      /\ Noticed(Receivers, k, pc, mq.entry) /\ Noticed(Senders, k, pc, Len(f))
  BY <1>1 DEF QueueIs
<1>3. mq.entry \in Nat /\ Len(f) \in Nat
  <2>1. mq \in [head : Link, tail : Link, free : Link, entry : Nat] /\ f \in Seq(Slot)
    BY <1>2, SlotsFacts
  <2> QED BY <2>1
<1>4. Noticed(Receivers, k', pc', mq.entry) /\ Noticed(Senders, k', pc', Len(f))
  BY <1>2, <1>3 DEF NoMore, BothLists
<1>5. mq' = mq /\ next' = next
  BY DEF mqObject
<1>6. QueueIs(k', pc', mq', next', HeldSlots', p, f)
  BY <1>2, <1>4, <1>5 DEF QueueIs
<1> QED BY <1>6 DEF QueueInv

\* Nobody waits any more: any arrangement of the slots will do.
LEMMA QueueEmptied ==
  ASSUME IsFiniteSet(Thread), ChannelInv', HoldersOK',
         k'.list[Receivers] = << >>, k'.list[Senders] = << >>,
         NEW p, NEW f, SlotsAre(mq', next', HeldSlots', p, f)
  PROVE  QueueInv'
<1>1. Noticed(Receivers, k', pc', mq'.entry) /\ Noticed(Senders, k', pc', Len(f))
  BY NothingToNotice
<1>2. QueueIs(k', pc', mq', next', HeldSlots', p, f)
  BY <1>1 DEF QueueIs
<1> QED BY <1>2 DEF QueueInv

\* The parts of the invariant.
LEMMA QueueFacts ==
  ASSUME QueueInv
  PROVE  /\ ChannelInv /\ HoldersOK /\ ObjInv /\ WaitOK /\ pc = [x \in Thread |-> pc[x]]
         /\ Senders \in BothLists /\ Receivers \in BothLists /\ Senders # Receivers
         /\ Senders \in Queue
BY ChannelFacts, ChannelAssumption DEF QueueInv, ChannelInv, BothLists

\* A thread that holds a slot has the CPU, waits for nothing, and the queue is
\* live.
LEMMA HolderFacts ==
  ASSUME QueueInv, NEW c \in Thread, NEW l \in SlotLabels, Executes(c, l)
  PROVE  /\ Runs(c) /\ obj[Receivers] = "live" /\ \A q : CallOf(q, k, pc, c) = "none"
         /\ own[c].slot \in HeldSlots /\ own[c].slot # Null /\ pc[c].at = l
<1>1. l \notin Label /\ l # "ipc_sched" /\ l \notin WaitLabels
  BY DEF SlotLabels, Label, WaitLabels
<1>2. ObjInv /\ HoldersOK
  BY QueueFacts
<1>3. Runs(c)
  BY <1>1, <1>2, IpcExecutes DEF Runs
<1>4. pc[c].at = l
  BY DEF Executes
<1>5. \A q : CallOf(q, k, pc, c) = "none"
  BY <1>1, <1>4 DEF CallOf
<1>6. own[c].slot # Null /\ obj[Receivers] = "live"
  BY <1>2, <1>4 DEF HoldersOK
<1>7. own[c].slot \in HeldSlots
  BY <1>6 DEF HeldSlots
<1> QED BY <1>3, <1>4, <1>5, <1>6, <1>7

\* A thread that does not hold a slot.
LEMMA HoldsNone ==
  ASSUME HoldersOK, NEW c \in Thread, pc[c].at \notin SlotLabels
  PROVE  own[c].slot = Null /\ Null \notin HeldSlots
BY DEF HoldersOK, HeldSlots

\* rt_mq_send_wait and rt_mq_urgent take a slot.
LEMMA TakeSlotInv ==
  ASSUME IsFiniteSet(Thread), QueueInv, NEW c \in Thread, Runs(c), pc[c].at \notin SlotLabels,
         obj[Receivers] = "live", CallOf(Receivers, k, pc, c) = "none",
         NEW v, NEW l \in {"mq_send", "mq_urgent"}, mq.free # Null, TakeSlot(c, v, l),
         UNCHANGED <<isr, obj>>
  PROVE  QueueInv'
<1> DEFINE s == mq.free
<1>1. /\ ChannelInv /\ HoldersOK /\ pc = [x \in Thread |-> pc[x]] /\ Senders \in Queue
      /\ Senders \in BothLists /\ Receivers \in BothLists
  BY QueueFacts
<1>2. /\ mq' = [mq EXCEPT !.free = next[mq.free]] /\ UNCHANGED <<k, next>> /\ Leaves(c)
      /\ own' = [own EXCEPT ![c] = [slot |-> s, msg |-> v]]
      /\ pc' = [pc EXCEPT ![c] = At(l, Senders)]
  BY DEF TakeSlot, Goto
<1>3. PICK p, f : QueueIs(k, pc, mq, next, HeldSlots, p, f)
  BY DEF QueueInv
<1>4. /\ SlotsAre(mq, next, HeldSlots, p, f)
      /\ Noticed(Receivers, k, pc, mq.entry) /\ Noticed(Senders, k, pc, Len(f))
  BY <1>3 DEF QueueIs
<1>5. /\ SlotsAre(mq', next, HeldSlots \cup {s}, p, Tail(f))
      /\ s \in Slot /\ s \notin HeldSlots /\ Len(Tail(f)) = Len(f) - 1 /\ f # << >>
  BY <1>2, <1>4, SlotTaken
<1>6. /\ mq.entry \in Nat /\ mq'.entry = mq.entry /\ Len(Tail(f)) \in Nat
      /\ Len(f) = Len(Tail(f)) + 1
  <2>1. /\ mq \in [head : Link, tail : Link, free : Link, entry : Nat] /\ f \in Seq(Slot)
    BY <1>4, SlotsFacts
  <2>2. mq.entry = Len(p) /\ mq'.entry = Len(p)
    BY <1>4, <1>5 DEF SlotsAre
  <2>3. mq.entry \in Nat /\ Len(f) \in Nat /\ Len(f) > 0
    BY <1>5, <2>1
  <2> QED BY <1>5, <2>2, <2>3
<1>7. own[c].slot = Null /\ Null \notin HeldSlots
  BY <1>1, HoldsNone
<1>8. HoldersOK' /\ HeldSlots' = HeldSlots \cup {s}
  <2>1. s \in Link /\ s # Null /\ l \in SlotLabels
    BY <1>5, NullIsNoSlot DEF Link, SlotLabels
  <2>2. HoldersOK' /\ HeldSlots' = (HeldSlots \ {own[c].slot}) \cup ({s} \ {Null})
    <3> HIDE DEF s
    <3> QED BY <1>1, <1>2, <1>5, <2>1, HolderMoves
  <2> HIDE DEF s
  <2> QED BY <1>7, <2>1, <2>2
<1>9. /\ ChannelInv' /\ OneLess(Senders) /\ NoMore(Receivers)
  <2>1. Goes(c, l, Senders) /\ l \notin WaitLabels /\ l \notin {"ipc_test", "ipc_next"}
    BY <1>1 DEF Goes, LabelOK, RacyLabels, HoldLabels, Label, WaitLabels, Runs
  <2>2. UNCHANGED <<k, isr, obj>>
    BY <1>2
  <2> QED BY <1>1, <1>2, <2>1, <2>2, LeaveStep
<1>10. Noticed(Receivers, k', pc', mq'.entry) /\ Noticed(Senders, k', pc', Len(Tail(f)))
  BY <1>4, <1>6, <1>9 DEF OneLess, NoMore
<1>11. QueueIs(k', pc', mq', next', HeldSlots', p, Tail(f))
  BY <1>2, <1>5, <1>8, <1>10 DEF QueueIs
<1> QED BY <1>8, <1>9, <1>11 DEF QueueInv

\* The copied message is linked and a receiver resumed.
LEMMA LinkSlotInv ==
  ASSUME IsFiniteSet(Thread), QueueInv, NEW c \in Thread, LinkSlot(c)
  PROVE  QueueInv'
<1> DEFINE s == own[c].slot
           H == HeldSlots
<1>1. /\ ChannelInv /\ HoldersOK /\ pc = [x \in Thread |-> pc[x]] /\ WaitOK
      /\ Senders \in BothLists /\ Receivers \in BothLists /\ Senders # Receivers
  BY QueueFacts
<1>2. PICK l \in {"mq_send", "mq_urgent"} : Executes(c, l)
  BY DEF LinkSlot
<1>3. /\ Runs(c) /\ obj[Receivers] = "live" /\ \A q : CallOf(q, k, pc, c) = "none"
      /\ s \in H /\ s # Null /\ pc[c].at = l
  <2>1. l \in SlotLabels
    BY DEF SlotLabels
  <2> QED BY <1>2, <2>1, HolderFacts
<1>4. /\ own' = [own EXCEPT ![c] = Nothing] /\ k' = WakeFirst(k, Receivers)
      /\ Completes(c, Receivers) /\ UNCHANGED <<isr, obj>>
  BY DEF LinkSlot
<1>5. \/ mq' = LinkLast(mq, s).mq /\ next' = LinkLast(mq, s).next
      \/ mq' = LinkFirst(mq, s).mq /\ next' = LinkFirst(mq, s).next
  BY DEF LinkSlot
<1>6. PICK p, f : QueueIs(k, pc, mq, next, H, p, f)
  BY DEF QueueInv
<1>7. /\ SlotsAre(mq, next, H, p, f)
      /\ Noticed(Receivers, k, pc, mq.entry) /\ Noticed(Senders, k, pc, Len(f))
  BY <1>6 DEF QueueIs
<1>8. /\ mq \in [head : Link, tail : Link, free : Link, entry : Nat]
      /\ p \in Seq(Slot) /\ f \in Seq(Slot) /\ H \subseteq Slot /\ mq.entry = Len(p)
  BY <1>7, SlotsFacts DEF SlotsAre
<1>9. PICK r : SlotsAre(mq', next', H \ {s}, r, f) /\ Len(r) = Len(p) + 1
  <2>1. CASE mq' = LinkLast(mq, s).mq /\ next' = LinkLast(mq, s).next
    <3>1. SlotsAre(mq', next', H \ {s}, Append(p, s), f)
      BY <1>3, <1>7, <2>1, SlotLinkedLast
    <3>2. Len(Append(p, s)) = Len(p) + 1
      BY <1>3, <1>8
    <3> QED BY <3>1, <3>2
  <2>2. CASE mq' = LinkFirst(mq, s).mq /\ next' = LinkFirst(mq, s).next
    <3>1. SlotsAre(mq', next', H \ {s}, <<s>> \o p, f)
      BY <1>3, <1>7, <2>2, SlotLinkedFirst
    <3>2. Len(<<s>> \o p) = Len(p) + 1
      <4>1. <<s>> \in Seq(Slot) /\ Len(<<s>>) = 1
        BY <1>3, <1>8
      <4> HIDE DEF s
      <4> QED BY <1>8, <4>1
    <3> QED BY <3>1, <3>2
  <2> QED BY <1>5, <2>1, <2>2
<1>10. mq'.entry = mq.entry + 1 /\ mq.entry \in Nat /\ Len(f) \in Nat
  <2>1. mq'.entry = Len(r)
    BY <1>9 DEF SlotsAre
  <2> QED BY <1>8, <1>9, <2>1
<1>11. PICK ll \in {"run", "sched"} : pc' = [pc EXCEPT ![c] = At(ll, c)]
  BY <1>4 DEF Completes, Return, Goto
<1>12. HoldersOK' /\ HeldSlots' = H \ {s}
  <2>1. own' = [own EXCEPT ![c] = [slot |-> Null, msg |-> NoMsg]]
    BY <1>4 DEF Nothing
  <2>2. Null \in Link /\ ll \notin SlotLabels /\ Null = Null
    BY DEF Link, SlotLabels
  <2>3. UNCHANGED obj
    BY <1>4
  <2>4. HoldersOK' /\ HeldSlots' = (HeldSlots \ {own[c].slot}) \cup ({Null} \ {Null})
    BY ONLY <1>1, <1>11, <2>1, <2>2, <2>3, HolderMoves, c \in Thread
  <2> QED BY <2>4
<1>13. ChannelInv' /\ OneMore(Receivers) /\ NoMore(Senders)
  <2>1. WaitOK'
    BY <1>1, <1>4, WaitKept DEF Completes
  <2>2. Goes(c, ll, c) /\ ll \notin WaitLabels /\ ll \notin {"ipc_test", "ipc_next"}
    BY <1>3, <1>11, ReturnGoes
  <2> QED BY <1>1, <1>3, <1>4, <1>11, <2>1, <2>2, CompleteStep
<1>14. Noticed(Receivers, k', pc', mq'.entry) /\ Noticed(Senders, k', pc', Len(f))
  BY <1>7, <1>10, <1>13 DEF OneMore, NoMore
<1>15. QueueIs(k', pc', mq', next', HeldSlots', r, f)
  BY <1>9, <1>12, <1>14 DEF QueueIs
<1> QED BY <1>12, <1>13, <1>15 DEF QueueInv

\* The message has been copied out: its slot is free, a sender is resumed.
LEMMA FreeSlotInv ==
  ASSUME IsFiniteSet(Thread), QueueInv, NEW c \in Thread, FreeSlot(c)
  PROVE  QueueInv'
<1> DEFINE s == own[c].slot
           H == HeldSlots
<1>1. /\ ChannelInv /\ HoldersOK /\ pc = [x \in Thread |-> pc[x]] /\ WaitOK
      /\ Senders \in BothLists /\ Receivers \in BothLists /\ Senders # Receivers
  BY QueueFacts
<1>2. /\ Runs(c) /\ obj[Receivers] = "live" /\ \A q : CallOf(q, k, pc, c) = "none"
      /\ s \in H /\ s # Null
  <2>1. "mq_free" \in SlotLabels /\ Executes(c, "mq_free")
    BY DEF SlotLabels, FreeSlot
  <2> QED BY <2>1, HolderFacts
<1>3. /\ own' = [own EXCEPT ![c] = Nothing] /\ k' = WakeFirst(k, Senders)
      /\ Completes(c, Senders) /\ UNCHANGED <<isr, obj>>
      /\ mq' = [mq EXCEPT !.free = s] /\ next' = [next EXCEPT ![s] = mq.free]
  BY DEF FreeSlot
<1>4. PICK p, f : QueueIs(k, pc, mq, next, H, p, f)
  BY DEF QueueInv
<1>5. /\ SlotsAre(mq, next, H, p, f)
      /\ Noticed(Receivers, k, pc, mq.entry) /\ Noticed(Senders, k, pc, Len(f))
  BY <1>4 DEF QueueIs
<1>6. /\ mq \in [head : Link, tail : Link, free : Link, entry : Nat]
      /\ p \in Seq(Slot) /\ f \in Seq(Slot) /\ H \subseteq Slot /\ mq.entry = Len(p)
  BY <1>5, SlotsFacts DEF SlotsAre
<1> DEFINE r == <<s>> \o f
<1>7. SlotsAre(mq', next', H \ {s}, p, r)
  BY <1>2, <1>3, <1>5, SlotFreed
<1>8. Len(r) = Len(f) + 1 /\ Len(f) \in Nat
  <2>1. <<s>> \in Seq(Slot) /\ Len(<<s>>) = 1
    BY <1>2, <1>6
  <2> HIDE DEF s
  <2> QED BY <1>6, <2>1
<1> HIDE DEF r
<1>9. mq'.entry = mq.entry /\ mq.entry \in Nat
  <2>1. mq'.entry = Len(p)
    BY <1>7 DEF SlotsAre
  <2> QED BY <1>6, <2>1
<1>10. PICK ll \in {"run", "sched"} : pc' = [pc EXCEPT ![c] = At(ll, c)]
  BY <1>3 DEF Completes, Return, Goto
<1>11. HoldersOK' /\ HeldSlots' = H \ {s}
  <2>1. own' = [own EXCEPT ![c] = [slot |-> Null, msg |-> NoMsg]]
    BY <1>3 DEF Nothing
  <2>2. Null \in Link /\ ll \notin SlotLabels /\ Null = Null
    BY DEF Link, SlotLabels
  <2>3. UNCHANGED obj
    BY <1>3
  <2>4. HoldersOK' /\ HeldSlots' = (HeldSlots \ {own[c].slot}) \cup ({Null} \ {Null})
    BY ONLY <1>1, <1>10, <2>1, <2>2, <2>3, HolderMoves, c \in Thread
  <2> QED BY <2>4
<1>12. ChannelInv' /\ OneMore(Senders) /\ NoMore(Receivers)
  <2>1. WaitOK'
    BY <1>1, <1>3, WaitKept DEF Completes
  <2>2. Goes(c, ll, c) /\ ll \notin WaitLabels /\ ll \notin {"ipc_test", "ipc_next"}
    BY <1>2, <1>10, ReturnGoes
  <2> QED BY <1>1, <1>2, <1>3, <1>10, <2>1, <2>2, CompleteStep
<1>13. Noticed(Receivers, k', pc', mq'.entry) /\ Noticed(Senders, k', pc', Len(r))
  BY <1>5, <1>8, <1>9, <1>12 DEF OneMore, NoMore
<1>14. QueueIs(k', pc', mq', next', HeldSlots', p, r)
  BY <1>7, <1>11, <1>13 DEF QueueIs
<1> QED BY <1>11, <1>12, <1>14 DEF QueueInv

\* A call has found nothing and left the queue alone: for the list q that it is
\* on there is nothing to notice.
LEMMA FoundNoSlot ==
  ASSUME QueueInv, ChannelInv', HoldersOK', HeldSlots' = HeldSlots, UNCHANGED mqObject,
         \/ mq.free = Null /\ Noticed(Senders, k', pc', 0) /\ NoMore(Receivers)
         \/ mq.entry = 0 /\ Noticed(Receivers, k', pc', 0) /\ NoMore(Senders)
  PROVE  QueueInv'
<1>1. PICK p, f : QueueIs(k, pc, mq, next, HeldSlots, p, f)
  BY DEF QueueInv
<1>2. /\ SlotsAre(mq, next, HeldSlots, p, f)
      /\ Noticed(Receivers, k, pc, mq.entry) /\ Noticed(Senders, k, pc, Len(f))
  BY <1>1 DEF QueueIs
<1>3. /\ mq \in [head : Link, tail : Link, free : Link, entry : Nat] /\ f \in Seq(Slot)
      /\ Path(next, mq.free, f)
  BY <1>2, SlotsFacts
<1>4. mq.entry \in Nat /\ Len(f) \in Nat
  BY <1>3
<1>5. mq.free = Null => Len(f) = 0
  <2>1. f # << >> => f[1] \in Slot
    BY <1>3
  <2>2. mq.free = IF f = << >> THEN Null ELSE f[1]
    BY <1>3 DEF Path
  <2> QED BY <2>1, <2>2, NullIsNoSlot
<1>6. Noticed(Receivers, k', pc', mq.entry) /\ Noticed(Senders, k', pc', Len(f))
  BY <1>2, <1>4, <1>5 DEF NoMore
<1>7. mq' = mq /\ next' = next
  BY DEF mqObject
<1>8. QueueIs(k', pc', mq', next', HeldSlots', p, f)
  BY <1>2, <1>6, <1>7 DEF QueueIs
<1> QED BY <1>8 DEF QueueInv

\* rt_mq_send_wait, when it is called and when it looks again.
LEMMA SendSlotInv ==
  ASSUME IsFiniteSet(Thread), QueueInv, NEW c \in Thread, Runs(c), pc[c].at \notin SlotLabels,
         obj[Receivers] = "live", CallOf(Receivers, k, pc, c) = "none",
         NEW v, NEW time \in Nat \cup {-1}, SendSlot(c, v, time)
  PROVE  QueueInv'
<1>1. /\ ChannelInv /\ HoldersOK /\ pc = [x \in Thread |-> pc[x]]
      /\ Senders \in BothLists /\ Receivers \in BothLists /\ Senders # Receivers
      /\ UNCHANGED <<isr, obj>>
  BY QueueFacts DEF SendSlot
<1>2. own[c].slot = Null /\ Null \notin HeldSlots
  BY <1>1, HoldsNone
<1>3. ASSUME NEW w, own' = [own EXCEPT ![c] = [slot |-> Null, msg |-> w]],
             NEW l \in {"run", "ipc_sched"}, NEW a, pc' = [pc EXCEPT ![c] = At(l, a)]
      PROVE  HoldersOK' /\ HeldSlots' = HeldSlots
  <2>1. Null \in Link /\ l \notin SlotLabels /\ Null = Null /\ UNCHANGED obj
    BY <1>1 DEF Link, SlotLabels
  <2>2. HoldersOK' /\ HeldSlots' = (HeldSlots \ {own[c].slot}) \cup ({Null} \ {Null})
    BY ONLY <1>1, <1>3, <2>1, HolderMoves, c \in Thread
  <2> QED BY <1>2, <2>2
<1>4. CASE mq.free # Null /\ TakeSlot(c, v, "mq_send")
  BY <1>1, <1>4, TakeSlotInv
<1>5. CASE /\ mq.free = Null /\ Return(c) /\ Leaves(c)
           /\ own' = [own EXCEPT ![c] = Nothing] /\ UNCHANGED <<k, mqObject>>
  <2>1. ChannelInv' /\ Noticed(Senders, k', pc', 0) /\ NoMore(Receivers)
    BY <1>1, <1>5, GiveUpStep
  <2>2. HoldersOK' /\ HeldSlots' = HeldSlots
    BY <1>3, <1>5 DEF Return, Goto, Nothing
  <2>3. UNCHANGED mqObject
    BY <1>5
  <2> QED BY <1>5, <2>1, <2>2, <2>3, FoundNoSlot
<1>6. CASE /\ mq.free = Null /\ Waits(c, Senders, time)
           /\ own' = [own EXCEPT ![c] = [slot |-> Null, msg |-> v]] /\ UNCHANGED mqObject
  <2>1. ChannelInv' /\ Noticed(Senders, k', pc', 0) /\ NoMore(Receivers)
    BY <1>1, <1>6, WaitStep
  <2>2. HoldersOK' /\ HeldSlots' = HeldSlots
    BY <1>3, <1>6 DEF Waits, Goto
  <2> QED BY <1>6, <2>1, <2>2, FoundNoSlot
<1> QED BY <1>4, <1>5, <1>6 DEF SendSlot

\* rt_mq_recv takes the first message.
LEMMA UnlinkInv ==
  ASSUME IsFiniteSet(Thread), QueueInv, NEW c \in Thread, Runs(c), pc[c].at \notin SlotLabels,
         obj[Receivers] = "live", CallOf(Senders, k, pc, c) = "none",
         mq.entry # 0, mq' = Unlink, Goto(c, "mq_free", Senders), Leaves(c),
         own' = [own EXCEPT ![c] = [slot |-> mq.head, msg |-> NoMsg]],
         UNCHANGED <<k, next, isr, obj>>
  PROVE  QueueInv'
<1> DEFINE s == mq.head
           l == "mq_free"
<1>1. /\ ChannelInv /\ HoldersOK /\ pc = [x \in Thread |-> pc[x]] /\ Senders \in Queue
      /\ Senders \in BothLists /\ Receivers \in BothLists
  BY QueueFacts
<1>2. pc' = [pc EXCEPT ![c] = At(l, Senders)]
  BY DEF Goto
<1>3. PICK p, f : QueueIs(k, pc, mq, next, HeldSlots, p, f)
  BY DEF QueueInv
<1>4. /\ SlotsAre(mq, next, HeldSlots, p, f)
      /\ Noticed(Receivers, k, pc, mq.entry) /\ Noticed(Senders, k, pc, Len(f))
  BY <1>3 DEF QueueIs
<1>5. /\ SlotsAre(mq', next, HeldSlots \cup {s}, Tail(p), f)
      /\ s \in Slot /\ s \notin HeldSlots /\ Len(Tail(p)) = Len(p) - 1
      /\ Len(p) = mq.entry /\ mq.entry \in Nat
  BY <1>4, SlotUnlinked
<1>6. mq'.entry \in Nat /\ mq.entry = mq'.entry + 1 /\ Len(f) \in Nat
  <2>1. mq'.entry = Len(Tail(p)) /\ f \in Seq(Slot)
    BY <1>4, <1>5, SlotsFacts DEF SlotsAre
  <2>2. mq'.entry = mq.entry - 1 /\ Len(f) \in Nat
    BY <1>5, <2>1
  <2> QED BY <1>5, <2>2
<1>7. own[c].slot = Null /\ Null \notin HeldSlots
  BY <1>1, HoldsNone
<1>8. HoldersOK' /\ HeldSlots' = HeldSlots \cup {s}
  <2>1. s \in Link /\ s # Null /\ l \in SlotLabels
    BY <1>5, NullIsNoSlot DEF Link, SlotLabels
  <2>2. UNCHANGED obj /\ own' = [own EXCEPT ![c] = [slot |-> s, msg |-> NoMsg]]
    OBVIOUS
  <2> HIDE DEF s, l
  <2>3. HoldersOK' /\ HeldSlots' = (HeldSlots \ {own[c].slot}) \cup ({s} \ {Null})
    BY <1>1, <1>2, <1>5, <2>1, <2>2, HolderMoves
  <2> QED BY <1>7, <2>1, <2>3
<1>9. /\ ChannelInv' /\ OneLess(Receivers) /\ NoMore(Senders)
  <2>1. Goes(c, l, Senders) /\ l \notin WaitLabels /\ l \notin {"ipc_test", "ipc_next"}
    BY <1>1 DEF Goes, LabelOK, RacyLabels, HoldLabels, Label, WaitLabels, Runs
  <2> QED BY <1>1, <1>2, <2>1, LeaveStep
<1>10. Noticed(Receivers, k', pc', mq'.entry) /\ Noticed(Senders, k', pc', Len(f))
  BY <1>4, <1>6, <1>9 DEF OneLess, NoMore
<1>11. QueueIs(k', pc', mq', next', HeldSlots', Tail(p), f)
  BY <1>5, <1>8, <1>10 DEF QueueIs
<1> QED BY <1>8, <1>9, <1>11 DEF QueueInv

\* rt_mq_recv, when it is called and when it looks again.
LEMMA RecvSlotInv ==
  ASSUME IsFiniteSet(Thread), QueueInv, NEW c \in Thread, Runs(c), pc[c].at \notin SlotLabels,
         obj[Receivers] = "live", CallOf(Senders, k, pc, c) = "none",
         NEW time \in Nat \cup {-1}, RecvSlot(c, time)
  PROVE  QueueInv'
<1>1. /\ ChannelInv /\ HoldersOK /\ pc = [x \in Thread |-> pc[x]]
      /\ Senders \in BothLists /\ Receivers \in BothLists /\ Senders # Receivers
      /\ UNCHANGED <<isr, obj>>
  BY QueueFacts DEF RecvSlot
<1>2. ASSUME UNCHANGED own, NEW l \in {"run", "ipc_sched"}, NEW a,
             pc' = [pc EXCEPT ![c] = At(l, a)]
      PROVE  HoldersOK' /\ HeldSlots' = HeldSlots
  <2>1. l \notin SlotLabels
    BY DEF SlotLabels
  <2>2. \A x \in Thread : pc'[x].at \in SlotLabels <=> pc[x].at \in SlotLabels
    BY <1>1, <1>2, <2>1, LabelStays
  <2> QED BY <1>1, <1>2, <2>2, HoldersStay
<1>3. CASE /\ mq.entry # 0 /\ mq' = Unlink /\ Goto(c, "mq_free", Senders) /\ Leaves(c)
           /\ own' = [own EXCEPT ![c] = [slot |-> mq.head, msg |-> NoMsg]]
           /\ UNCHANGED <<k, next, data>>
  BY <1>1, <1>3, UnlinkInv
<1>4. CASE /\ mq.entry = 0 /\ Return(c) /\ Leaves(c) /\ UNCHANGED <<mqObject, own>>
           /\ k' = k \/ k' = [k EXCEPT !.err[c] = "ETIMEOUT"]
  <2>1. ChannelInv' /\ Noticed(Receivers, k', pc', 0) /\ NoMore(Senders)
    BY <1>1, <1>4, GiveUpStep
  <2>2. HoldersOK' /\ HeldSlots' = HeldSlots
    BY <1>2, <1>4 DEF Return, Goto
  <2>3. UNCHANGED mqObject
    BY <1>4
  <2> QED BY <1>4, <2>1, <2>2, <2>3, FoundNoSlot
<1>5. CASE mq.entry = 0 /\ Waits(c, Receivers, time) /\ UNCHANGED <<mqObject, own>>
  <2>1. ChannelInv' /\ Noticed(Receivers, k', pc', 0) /\ NoMore(Senders)
    BY <1>1, <1>5, WaitStep
  <2>2. HoldersOK' /\ HeldSlots' = HeldSlots
    BY <1>2, <1>5 DEF Waits, Goto
  <2>3. UNCHANGED mqObject
    BY <1>5
  <2> QED BY <1>5, <2>1, <2>2, <2>3, FoundNoSlot
<1> QED BY <1>3, <1>4, <1>5 DEF RecvSlot

\* An interrupt handler sends a message.
LEMMA IsrSlotInv ==
  ASSUME IsFiniteSet(Thread), QueueInv, NEW v, IsrMqSend(v)
  PROVE  QueueInv'
<1> DEFINE s == mq.free
           m == [mq EXCEPT !.free = next[s]]
           H == HeldSlots
<1>1. /\ obj[Receivers] = "live" /\ UNCHANGED <<isr, pc, obj, wait, own>>
      /\ k' = (IF k.list[Receivers] # << >> THEN rt_schedule(WakeFirst(k, Receivers)) ELSE k)
      /\ mq' = LinkLast(m, s).mq /\ next' = LinkLast(m, s).next /\ s # Null
  BY DEF IsrMqSend
<1>2. ChannelInv /\ HoldersOK
  BY QueueFacts
<1>3. ChannelInv' /\ OneMore(Receivers) /\ OneLess(Senders)
  BY <1>1, <1>2, ChannelIsrStep
<1>4. HoldersOK' /\ HeldSlots' = H
  BY <1>1, <1>2, HoldersStay
<1>5. PICK p, f : QueueIs(k, pc, mq, next, H, p, f)
  BY DEF QueueInv
<1>6. /\ SlotsAre(mq, next, H, p, f)
      /\ Noticed(Receivers, k, pc, mq.entry) /\ Noticed(Senders, k, pc, Len(f))
  BY <1>5 DEF QueueIs
<1>7. /\ SlotsAre(m, next, H \cup {s}, p, Tail(f))
      /\ s \in Slot /\ s \notin H /\ Len(Tail(f)) = Len(f) - 1 /\ f # << >>
  BY <1>1, <1>6, SlotTaken
<1>8. /\ mq \in [head : Link, tail : Link, free : Link, entry : Nat]
      /\ p \in Seq(Slot) /\ f \in Seq(Slot) /\ mq.entry = Len(p)
  BY <1>6, SlotsFacts DEF SlotsAre
<1> HIDE DEF m, s, H
<1>9. SlotsAre(mq', next', H, Append(p, s), Tail(f))
  <2>1. s \in H \cup {s}
    OBVIOUS
  <2>2. SlotsAre(LinkLast(m, s).mq, LinkLast(m, s).next, (H \cup {s}) \ {s}, Append(p, s), Tail(f))
    BY ONLY <1>7, <2>1, SlotLinkedLast
  <2>3. (H \cup {s}) \ {s} = H
    BY <1>7
  <2> QED BY <1>1, <2>2, <2>3
<1>10. /\ mq.entry \in Nat /\ mq'.entry = mq.entry + 1 /\ Len(Tail(f)) \in Nat
       /\ Len(f) = Len(Tail(f)) + 1
  <2>1. mq'.entry = Len(Append(p, s))
    BY <1>9 DEF SlotsAre
  <2>2. Len(Append(p, s)) = Len(p) + 1 /\ Len(p) \in Nat
    BY <1>7, <1>8
  <2>3. Len(f) \in Nat /\ Len(f) > 0
    BY <1>7, <1>8
  <2> QED BY <1>7, <1>8, <2>1, <2>2, <2>3
<1>11. Noticed(Receivers, k', pc', mq'.entry) /\ Noticed(Senders, k', pc', Len(Tail(f)))
  BY <1>3, <1>6, <1>10 DEF OneMore, OneLess
<1>12. QueueIs(k', pc', mq', next', HeldSlots', Append(p, s), Tail(f))
  BY <1>4, <1>9, <1>11 DEF QueueIs
<1> QED BY <1>3, <1>4, <1>12 DEF QueueInv

\* A step of the scheduler, the thread API or the tick interrupt.
LEMMA QueueKernelStep ==
  ASSUME Polite, QueueInv, KernelStep, UNCHANGED <<mqObject, own>>
  PROVE  QueueInv'
<1>1. ChannelInv /\ HoldersOK /\ ObjInv
  BY QueueFacts
<1>2. ChannelInv' /\ \A q \in BothLists : NoMore(q)
  BY <1>1, ChannelKernelStep
<1>3. \A x \in Thread : Unmoved(x)
  BY <1>1, NextIpcInv DEF ObjInv, KernelStep
<1>4. \A l \in SlotLabels : l \notin Label
  BY DEF SlotLabels, Label
<1>5. \A x \in Thread : pc'[x].at \in SlotLabels <=> pc[x].at \in SlotLabels
  BY <1>3, <1>4 DEF Unmoved
<1>6. UNCHANGED <<obj, own, mqObject>>
  BY DEF KernelStep
<1>7. HoldersOK' /\ HeldSlots' = HeldSlots
  BY <1>1, <1>5, <1>6, HoldersStay
<1> QED BY <1>2, <1>6, <1>7, QueueStays

\* The steps of a blocked caller and of a detach.
LEMMA QueueContinueStep ==
  ASSUME IsFiniteSet(Thread), QueueInv, NEW c \in Thread, ChannelContinue(c),
         UNCHANGED <<mqObject, own>>
  PROVE  QueueInv'
<1>1. /\ ChannelInv /\ HoldersOK /\ pc = [x \in Thread |-> pc[x]]
      /\ Receivers \in BothLists /\ BothDetach
  BY QueueFacts DEF ChannelInv
<1>2. ChannelInv' /\ \A q \in BothLists : NoMore(q)
  BY <1>1, ChannelNextStep, ChannelTestStep, ChannelFailsStep DEF ChannelContinue
<1>3. PICK l, a : /\ l \in {"run", "ipc_end", "ipc_test", "ipc_next"}
                  /\ pc' = [pc EXCEPT ![c] = At(l, a)]
  BY DEF ChannelContinue, BlockSchedule, ResumeAllNext, ResumeBothTest, ReceiversResumed,
         ResumeAllTest, RetryFails, Goto, Return
<1>4. pc[c].at \in {"ipc_sched", "ipc_end", "ipc_test", "ipc_next"}
  BY DEF ChannelContinue, BlockSchedule, ResumeAllNext, ResumeBothTest, ReceiversResumed,
         ResumeAllTest, RetryFails, Executes
<1>5. \A x \in Thread : pc'[x].at \in SlotLabels <=> pc[x].at \in SlotLabels
  <2>1. l \notin SlotLabels /\ pc[c].at \notin SlotLabels
    BY <1>3, <1>4 DEF SlotLabels
  <2> QED BY <1>1, <1>3, <2>1, LabelStays
<1>6. obj'[Receivers] # "live" => obj[Receivers] # "live"
  <2>1. CASE UNCHANGED obj
    BY <2>1
  <2>2. CASE /\ pc[c].at = "ipc_test"
             /\ \E q : q = pc[c].arg /\ obj' = [obj EXCEPT ![q] = "none"]
    <3>1. PICK q : q = pc[c].arg /\ obj' = [obj EXCEPT ![q] = "none"]
      BY <2>2
    <3>2. CASE q = Receivers
      <4>1. Detaches(Receivers, pc, c)
        BY <2>2, <3>1, <3>2 DEF Detaches
      <4>2. obj[Receivers] = "leaving"
        BY <1>1, <4>1 DEF BothDetach
      <4> QED BY <4>2
    <3>3. CASE q # Receivers
      <4>1. obj \in [Queue -> {"live", "leaving", "none"}] /\ Receivers \in Queue
        BY <1>1, ChannelFacts
      <4> QED BY <3>1, <3>3, <4>1
    <3> QED BY <3>2, <3>3
  <2>3. \/ UNCHANGED obj
        \/ /\ pc[c].at = "ipc_test"
           /\ \E q : q = pc[c].arg /\ obj' = [obj EXCEPT ![q] = "none"]
    BY DEF ChannelContinue, BlockSchedule, ResumeAllNext, ResumeBothTest, ReceiversResumed,
           ResumeAllTest, RetryFails, Executes
  <2> QED BY <2>1, <2>2, <2>3
<1>7. HoldersOK' /\ HeldSlots' = HeldSlots
  BY <1>1, <1>5, <1>6, HoldersStay
<1> QED BY <1>2, <1>7, QueueStays

\* The reset command.
LEMMA QueueResetStep ==
  ASSUME Polite, IsFiniteSet(Thread), QueueInv, NEW c \in Thread, rt_mq_control(c)
  PROVE  QueueInv'
<1>1. ChannelInv /\ HoldersOK /\ pc = [x \in Thread |-> pc[x]]
  BY QueueFacts
<1>2. /\ Asks(c, "reset", Receivers) /\ k' = ResumeBoth(k) /\ Goto(c, "sched", c)
      /\ UNCHANGED <<isr, obj, wait, own>> /\ next' = Recycled.next
      /\ mq' = [head |-> Null, tail |-> Null, free |-> Recycled.free, entry |-> 0]
  BY DEF rt_mq_control
<1>3. ChannelInv' /\ k'.list[Receivers] = << >> /\ k'.list[Senders] = << >>
  BY <1>1, <1>2, ChannelResetStep
<1>4. HoldersOK' /\ HeldSlots' = HeldSlots
  <2>1. "sched" \notin SlotLabels /\ pc[c].at \notin SlotLabels
    BY <1>2 DEF SlotLabels, Asks, Executes
  <2>2. \A x \in Thread : pc'[x].at \in SlotLabels <=> pc[x].at \in SlotLabels
    BY <1>1, <1>2, <2>1, LabelStays DEF Goto
  <2> QED BY <1>1, <1>2, <2>2, HoldersStay
<1>5. PICK p, f : SlotsAre(mq, next, HeldSlots, p, f)
  BY DEF QueueInv, QueueIs
<1>6. PICK h : SlotsAre(mq', next', HeldSlots, << >>, h)
  BY <1>2, <1>5, SlotsReset
<1> QED BY <1>3, <1>4, <1>6, QueueEmptied

\* A detach begins: nobody holds a slot.
LEMMA QueueDetachStep ==
  ASSUME Polite, IsFiniteSet(Thread), QueueInv, NEW c \in Thread, rt_mq_detach(c)
  PROVE  QueueInv'
<1>1. ChannelInv /\ HoldersOK /\ pc = [x \in Thread |-> pc[x]]
  BY QueueFacts
<1>2. /\ DetachBoth(c) /\ UNCHANGED <<mqObject, own>>
      /\ \A t \in Thread : own[t].slot = Null
  BY DEF rt_mq_detach
<1>3. ChannelInv' /\ \A q \in BothLists : NoMore(q)
  BY <1>1, <1>2, ChannelDetachStep
<1>4. HoldersOK' /\ HeldSlots' = HeldSlots
  <2>1. "ipc_test" \notin SlotLabels /\ pc[c].at \notin SlotLabels
    BY <1>2 DEF SlotLabels, DetachBoth, Asks, Executes
  <2>2. \A x \in Thread : pc'[x].at \in SlotLabels <=> pc[x].at \in SlotLabels
    BY <1>1, <1>2, <2>1, LabelStays DEF DetachBoth, Goto
  <2> QED BY <1>1, <1>2, <2>2, HoldersStay
<1> QED BY <1>2, <1>3, <1>4, QueueStays

\* The queue is initialized again.
LEMMA QueueInitializeStep ==
  ASSUME IsFiniteSet(Thread), QueueInv, NEW c \in Thread, rt_mq_init(c)
  PROVE  QueueInv'
<1>1. ChannelInv /\ HoldersOK /\ Receivers \in BothLists
  BY QueueFacts
<1>2. /\ InitializeBoth(c) /\ mq' = EmptyQueue /\ next' = [s \in Slot |-> s - 1]
      /\ UNCHANGED <<pc, own>>
  BY DEF rt_mq_init, InitializeBoth
<1>3. ChannelInv' /\ k'.list[Receivers] = << >> /\ k'.list[Senders] = << >>
  BY <1>1, <1>2, ChannelInitializeStep
<1>4. \A t \in Thread : own[t].slot = Null
  BY <1>1, <1>2 DEF InitializeBoth, HoldersOK
<1>5. HeldSlots = {}
  BY <1>4 DEF HeldSlots
<1>6. HoldersOK' /\ HeldSlots' = HeldSlots
  BY <1>1, <1>2, <1>4, HoldersStay
<1>7. SlotsAre(mq', next', HeldSlots', << >>, [i \in 1 .. MaxMsgs |-> MaxMsgs + 1 - i])
  BY <1>2, <1>5, <1>6, SlotsFresh
<1> QED BY <1>3, <1>6, <1>7, QueueEmptied

\* Every step keeps the invariant.
LEMMA QueueInvIsInductive ==
  ASSUME Polite, IsFiniteSet(Thread)
  PROVE  QueueInv /\ [MqNext]_mqVars => QueueInv'
<1> SUFFICES ASSUME QueueInv, [MqNext]_mqVars PROVE QueueInv'
  OBVIOUS
<1>1. /\ ChannelInv /\ HoldersOK /\ WaitTime \subseteq Nat \cup {-1}
      /\ Senders \in BothLists /\ Receivers \in BothLists /\ Senders # Receivers
  BY QueueFacts, IpcAssumption
<1>2. CASE UNCHANGED mqVars
  <2>1. UNCHANGED <<k, isr, pc, obj, wait, mqObject, own>>
    BY <1>2 DEF mqVars, retryVars, ipcVars
  <2>2. ChannelInv' /\ \A q \in BothLists : NoMore(q)
    BY <1>1, <2>1, ChannelStutters
  <2>3. HoldersOK' /\ HeldSlots' = HeldSlots
    BY <1>1, <2>1, HoldersStay
  <2> QED BY <2>1, <2>2, <2>3, QueueStays
<1>3. CASE KernelStep /\ UNCHANGED <<mqObject, own>>
  BY <1>3, QueueKernelStep
<1>4. ASSUME NEW c \in Thread, ChannelContinue(c) /\ UNCHANGED <<mqObject, own>> PROVE QueueInv'
  BY <1>4, QueueContinueStep
<1>5. ASSUME NEW c \in Thread, MqSendAgain(c) PROVE QueueInv'
  <2>1. Again(c, Senders) /\ SendSlot(c, own[c].msg, Remaining(wait[c]))
    BY <1>5 DEF MqSendAgain
  <2>2. /\ Runs(c) /\ obj[Receivers] = "live" /\ CallOf(Receivers, k, pc, c) = "none"
        /\ Remaining(wait[c]) \in Nat \cup {-1}
    BY <1>1, <2>1, AgainFacts
  <2>3. pc[c].at \notin SlotLabels
    BY <2>1 DEF Again, Executes, SlotLabels
  <2> QED BY <2>1, <2>2, <2>3, SendSlotInv
<1>6. ASSUME NEW c \in Thread, MqRecvAgain(c) PROVE QueueInv'
  <2>1. Again(c, Receivers) /\ RecvSlot(c, Remaining(wait[c]))
    BY <1>6 DEF MqRecvAgain
  <2>2. /\ Runs(c) /\ obj[Receivers] = "live" /\ CallOf(Senders, k, pc, c) = "none"
        /\ Remaining(wait[c]) \in Nat \cup {-1}
    BY <1>1, <2>1, AgainFacts
  <2>3. pc[c].at \notin SlotLabels
    BY <2>1 DEF Again, Executes, SlotLabels
  <2> QED BY <2>1, <2>2, <2>3, RecvSlotInv
<1>7. ASSUME NEW c \in Thread, NEW x, Asks(c, x, Receivers)
      PROVE  /\ Runs(c) /\ obj[Receivers] = "live" /\ pc[c].at \notin SlotLabels
             /\ \A q : CallOf(q, k, pc, c) = "none"
  <2>1. pc[c].at \notin SlotLabels
    BY <1>7 DEF Asks, Executes, SlotLabels
  <2> QED BY <1>1, <1>7, <2>1, AsksChannel
<1>8. ASSUME NEW c \in Thread, NEW v \in Msg, rt_mq_urgent(c, v) PROVE QueueInv'
  <2>1. /\ Asks(c, "urgent", Receivers) /\ mq.free # Null /\ TakeSlot(c, v, "mq_urgent")
        /\ UNCHANGED <<isr, obj>>
    BY <1>8 DEF rt_mq_urgent
  <2> QED BY <1>7, <2>1, TakeSlotInv
<1>9. ASSUME NEW c \in Thread, NEW v \in Msg, NEW time \in WaitTime,
             rt_mq_send_wait(c, v, time)
      PROVE  QueueInv'
  <2>1. Asks(c, "send", Receivers) /\ SendSlot(c, v, time) /\ time \in Nat \cup {-1}
    BY <1>1, <1>9 DEF rt_mq_send_wait
  <2> QED BY <1>7, <2>1, SendSlotInv
<1>10. ASSUME NEW c \in Thread, NEW time \in WaitTime, rt_mq_recv(c, time) PROVE QueueInv'
  <2>1. Asks(c, "recv", Receivers) /\ RecvSlot(c, time) /\ time \in Nat \cup {-1}
    BY <1>1, <1>10 DEF rt_mq_recv
  <2> QED BY <1>7, <2>1, RecvSlotInv
<1>11. ASSUME NEW c \in Thread,
              \/ LinkSlot(c) \/ FreeSlot(c)
              \/ rt_mq_control(c) \/ rt_mq_detach(c) \/ rt_mq_init(c)
       PROVE  QueueInv'
  BY <1>11, LinkSlotInv, FreeSlotInv, QueueResetStep, QueueDetachStep, QueueInitializeStep
<1>12. ASSUME NEW v \in Msg, IsrMqSend(v) PROVE QueueInv'
  BY <1>12, IsrSlotInv
<1> QED BY <1>2, <1>3, <1>4, <1>5, <1>6, <1>8, <1>9, <1>10, <1>11, <1>12 DEF MqNext

\* It holds at first: every slot is free.
LEMMA QueueInitInv ==
  ASSUME IsFiniteSet(Thread)
  PROVE  MqInit => QueueInv
<1> SUFFICES ASSUME MqInit PROVE QueueInv
  OBVIOUS
<1>1. ChannelInv /\ k.list[Receivers] = << >> /\ k.list[Senders] = << >>
  BY ChannelStarts DEF MqInit, BothLists
<1>2. /\ mq = EmptyQueue /\ next = [s \in Slot |-> s - 1]
      /\ own = [t \in Thread |-> Nothing] /\ Nothing.slot = Null
  BY DEF MqInit, MqStart, Nothing
<1>3. \A t \in Thread : own[t].slot = Null /\ Null \in Link
  BY <1>2 DEF Link
<1>4. \A t \in Thread : pc[t].at \notin SlotLabels
  BY DEF MqInit, RetryInit, InitStarted, Running, At, SlotLabels
<1>5. HeldSlots = {}
  BY <1>3 DEF HeldSlots
<1>6. HoldersOK
  <2>1. own = [t \in Thread |-> own[t]]
    BY <1>2
  <2> QED BY <1>3, <1>4, <2>1 DEF HoldersOK
<1> DEFINE f == [i \in 1 .. MaxMsgs |-> MaxMsgs + 1 - i]
<1>7. SlotsAre(mq, next, HeldSlots, << >>, f)
  BY <1>2, <1>5, SlotsFresh
<1> HIDE DEF f
<1>8. QueueIs(k, pc, mq, next, HeldSlots, << >>, f)
  BY <1>1, <1>7, NothingToNotice DEF QueueIs
<1> QED BY <1>1, <1>6, <1>8 DEF QueueInv

\* Every slot is in one place: the numbers add up.
LEMMA SlotsCount ==
  ASSUME IsFiniteSet(Thread), QueueInv, NEW p, NEW f, SlotsAre(mq, next, HeldSlots, p, f)
  PROVE  /\ Len(p \o f) + Cardinality({t \in Thread : own[t].slot # Null}) = MaxMsgs
         /\ Members(p \o f) \cup HeldSlots = Slot
<1> DEFINE T == {t \in Thread : own[t].slot # Null}
           H == HeldSlots
           P == Members(p)
           F == Members(f)
<1>1. /\ H \cap P = {} /\ H \cap F = {} /\ P \cap F = {} /\ H \cup P \cup F = Slot
  BY DEF SlotsAre
<1>2. p \in Seq(Slot) /\ f \in Seq(Slot) /\ Injective(p) /\ Injective(f)
  <2>1. Path(next, mq.head, p) /\ Path(next, mq.free, f)
    BY SlotsFacts
  <2> QED BY <2>1 DEF Path
<1>3. Cardinality(P) = Len(p) /\ Cardinality(F) = Len(f) /\ IsFiniteSet(P) /\ IsFiniteSet(F)
  BY <1>2, InjectiveCount
<1>4. Cardinality(Slot) = MaxMsgs /\ IsFiniteSet(Slot)
  BY NullIsNoSlot, FS_Interval DEF Slot
<1>5. Members(p \o f) = P \cup F /\ Len(p \o f) = Len(p) + Len(f) /\ Len(p) \in Nat /\ Len(f) \in Nat
  <2>1. /\ Len(p) \in Nat /\ Len(f) \in Nat /\ DOMAIN p = 1 .. Len(p) /\ DOMAIN f = 1 .. Len(f)
        /\ p \o f \in Seq(Slot) /\ Len(p \o f) = Len(p) + Len(f)
        /\ DOMAIN (p \o f) = 1 .. Len(p) + Len(f)
    BY <1>2
  <2>2. \A i \in 1 .. Len(p) : (p \o f)[i] = p[i]
    BY <1>2
  <2>3. \A i \in 1 .. Len(f) : (p \o f)[Len(p) + i] = f[i]
    BY <1>2
  <2> DEFINE r == p \o f
  <2>4. DOMAIN r = 1 .. Len(p) + Len(f)
    BY <2>1
  <2>5. \A i \in 1 .. Len(p) : r[i] = p[i]
    BY <2>2
  <2>6. \A i \in 1 .. Len(f) : r[Len(p) + i] = f[i]
    BY <2>3
  <2> HIDE DEF r
  <2>7. Members(r) \subseteq P \cup F
    <3> SUFFICES ASSUME NEW i \in 1 .. Len(p) + Len(f) PROVE r[i] \in P \cup F
      BY <2>4 DEF Members
    <3>1. CASE i \in 1 .. Len(p)
      BY <2>1, <2>5, <3>1 DEF Members
    <3>2. CASE i \notin 1 .. Len(p)
      <4>1. i - Len(p) \in 1 .. Len(f) /\ Len(p) + (i - Len(p)) = i
        BY <2>1, <3>2
      <4>2. r[i] = f[i - Len(p)]
        BY <2>6, <4>1
      <4> QED BY <2>1, <4>1, <4>2 DEF Members
    <3> QED BY <3>1, <3>2
  <2>8. P \subseteq Members(r)
    <3>1. \A i \in 1 .. Len(p) : i \in DOMAIN r
      BY <2>1, <2>4
    <3> QED BY <2>1, <2>5, <3>1 DEF Members
  <2>9. F \subseteq Members(r)
    <3>1. \A i \in 1 .. Len(f) : Len(p) + i \in DOMAIN r
      BY <2>1, <2>4
    <3> QED BY <2>1, <2>6, <3>1 DEF Members
  <2> QED BY <2>1, <2>7, <2>8, <2>9 DEF r
<1>6. IsFiniteSet(H) /\ Cardinality(H) = Cardinality(T) /\ Cardinality(H) \in Nat
  <2> DEFINE g == [t \in T |-> own[t].slot]
  <2>1. HoldersOK
    BY QueueFacts
  <2>2. H = {own[t].slot : t \in T}
    BY DEF HeldSlots
  <2>3. \A t, x \in T : own[t].slot = own[x].slot => t = x
    BY <2>1 DEF HoldersOK
  <2>4. IsFiniteSet(T)
    BY FS_Subset
  <2> HIDE DEF T, H
  <2>5. g \in Surjection(T, H)
    BY <2>2 DEF Surjection
  <2>6. g \in Injection(T, H)
    BY <2>2, <2>3 DEF Injection, IsInjective
  <2>7. IsFiniteSet(H)
    BY <2>4, <2>5, FS_Surjection
  <2>8. Cardinality(T) = Cardinality(H)
    BY <2>5, <2>6, <2>7, FS_Injection
  <2> QED BY <2>7, <2>8, FS_CardinalityType
<1> HIDE DEF T, H, P, F
<1>7. Cardinality(P \cup F) = Len(p) + Len(f) /\ IsFiniteSet(P \cup F)
  <2>1. Cardinality(P \cup F) = Cardinality(P) + Cardinality(F) - Cardinality(P \cap F)
    BY <1>3, FS_Union
  <2>2. Cardinality(P \cap F) = 0 /\ IsFiniteSet(P \cup F)
    BY <1>1, <1>3, FS_EmptySet, FS_Union
  <2> QED BY <1>3, <1>5, <2>1, <2>2
<1>8. Cardinality((P \cup F) \cup H) = Len(p) + Len(f) + Cardinality(H)
  <2>1. Cardinality((P \cup F) \cup H) =
          Cardinality(P \cup F) + Cardinality(H) - Cardinality((P \cup F) \cap H)
    BY <1>6, <1>7, FS_Union
  <2>2. (P \cup F) \cap H = {}
    BY <1>1
  <2>3. Cardinality((P \cup F) \cap H) = 0
    BY <2>2, FS_EmptySet
  <2> QED BY <1>5, <1>6, <1>7, <2>1, <2>3
<1>9. (P \cup F) \cup H = Slot
  BY <1>1
<1> QED BY <1>4, <1>5, <1>6, <1>8, <1>9 DEF T, H, P, F

(***************************************************************************)
(* Every slot of the message queue is in the queue, in the free list or    *)
(* held by exactly one caller, and head, tail, entry and the links agree,  *)
(* although senders and receivers copy their messages outside of the       *)
(* critical sections, while the queue is sent to, reset or detached.       *)
(***************************************************************************)
THEOREM SlotsAlwaysConserved ==
  ASSUME Polite, IsFiniteSet(Thread)
  PROVE  MqSpec => []SlotsConserved
<1>1. QueueInv => SlotsConserved
  <2> SUFFICES ASSUME QueueInv PROVE SlotsConserved
    OBVIOUS
  <2>1. PICK p, f : SlotsAre(mq, next, HeldSlots, p, f)
    BY DEF QueueInv, QueueIs
  <2>2. Path(next, mq.head, p) /\ Path(next, mq.free, f) /\ p \in Seq(Slot)
    BY <2>1, SlotsFacts
  <2>3. Chain(mq.head) = p /\ Chain(mq.free) = f
    BY <2>2, ChainIs
  <2>4. mq.entry = Len(p) /\ mq.tail = IF p = << >> THEN Null ELSE p[Len(p)]
    BY <2>1 DEF SlotsAre
  <2>5. mq.entry = 0 <=> p = << >>
    BY <2>2, <2>4
  <2>6. mq.tail = IF mq.entry = 0 THEN Null ELSE Last(p)
    BY <2>4, <2>5 DEF Last
  <2>7. /\ Len(p \o f) + Cardinality({t \in Thread : own[t].slot # Null}) = MaxMsgs
        /\ Members(p \o f) \cup HeldSlots = Slot
    BY <2>1, SlotsCount
  <2> QED BY <2>3, <2>4, <2>6, <2>7 DEF SlotsConserved
<1> QED BY <1>1, QueueInitInv, QueueInvIsInductive, PTL DEF MqSpec

(***************************************************************************)
(* No message and no free slot goes unnoticed: receivers wait only while   *)
(* every queued message has a resumed receiver on its way, and senders     *)
(* only while every free slot has a resumed sender, although the slots     *)
(* change hands in one critical section and waiters are resumed in a later *)
(* one.                                                                    *)
(***************************************************************************)
THEOREM NoMessageIsMissed ==
  ASSUME Polite, IsFiniteSet(Thread)
  PROVE  MqSpec => []MessageNotMissed
<1>1. QueueInv => MessageNotMissed
  <2> SUFFICES ASSUME QueueInv PROVE MessageNotMissed
    OBVIOUS
  <2>1. PICK p, f : QueueIs(k, pc, mq, next, HeldSlots, p, f)
    BY DEF QueueInv
  <2>2. /\ SlotsAre(mq, next, HeldSlots, p, f)
        /\ Noticed(Receivers, k, pc, mq.entry) /\ Noticed(Senders, k, pc, Len(f))
    BY <2>1 DEF QueueIs
  <2>3. Chain(mq.free) = f
    <3>1. Path(next, mq.free, f)
      BY <2>2, SlotsFacts
    <3> QED BY <3>1, ChainIs
  <2>4. k.list[Receivers] # << >> => mq.entry <= Cardinality(Granted(Receivers))
    BY <2>2, GrantedAre DEF Noticed
  <2>5. k.list[Senders] # << >> => Len(f) <= Cardinality(Granted(Senders))
    BY <2>2, GrantedAre DEF Noticed
  <2>6. ASSUME NEW t \in Members(k.list[Senders]) PROVE k.list[Senders] # << >>
    BY DEF Members
  <2> QED BY <2>3, <2>4, <2>5, <2>6 DEF MessageNotMissed
<1> QED BY <1>1, QueueInitInv, QueueInvIsInductive, PTL DEF MqSpec

-----------------------------------------------------------------------------
(***************************************************************************)
(* The message queue as a channel.  The messages of a path are read from   *)
(* the slots; a thread that brings a message, whether it waits for a slot  *)
(* or holds one, still has it when the slot is linked.                     *)
(***************************************************************************)
Says(d, p) == [i \in 1 .. Len(p) |-> d[p[i]]]

Brings(t) ==
  \/ pc[t].at \in {"mq_send", "mq_urgent"}
  \/ pc[t].at \in WaitLabels /\ pc[t].arg = Senders

MsgsOK ==
  /\ data \in [Slot -> Msg \cup {NoMsg}]
  /\ \A t \in Thread : Brings(t) => own[t].msg \in Msg

\* What a step of the queue has to be: one of the channel, or none.
MessageStep ==
  \/ QueuedMessages' = QueuedMessages /\ Copying' = Copying
  \/ \E v \in Msg : /\ Len(QueuedMessages) < MaxMsgs
                    /\ \/ QueuedMessages' = Append(QueuedMessages, v)
                       \/ QueuedMessages' = <<v>> \o QueuedMessages
                    /\ Copying' = Copying
  \/ \E c \in Thread : /\ QueuedMessages # << >>
                       /\ Copying' = [Copying EXCEPT ![c] = Head(QueuedMessages)]
                       /\ QueuedMessages' = Tail(QueuedMessages)
  \/ \E c \in Thread : /\ Copying' = [Copying EXCEPT ![c] = NoMsg]
                       /\ QueuedMessages' = QueuedMessages
  \/ QueuedMessages' = << >> /\ Copying' = Copying

\* The queued messages, before and after a step.
LEMMA MessagesAre ==
  /\ QueuedMessages = Says(data, ChainOf(next, mq.head))
  /\ QueuedMessages' = Says(data', ChainOf(next', mq'.head))
BY DEF QueuedMessages, Chain, ChainOf, Walk, Says

LEMMA MessagesOfPaths ==
  ASSUME NEW H, NEW p, NEW f, SlotsAre(mq, next, H, p, f),
         NEW J, NEW r, NEW h, SlotsAre(mq', next', J, r, h)
  PROVE  QueuedMessages = Says(data, p) /\ QueuedMessages' = Says(data', r)
<1>1. Path(next, mq.head, p) /\ Path(next', mq'.head, r)
  BY DEF SlotsAre
<1>2. ChainOf(next, mq.head) = p /\ ChainOf(next', mq'.head) = r
  BY <1>1, ChainOfIs
<1> QED BY <1>2, MessagesAre

\* What a path says when a slot is taken from it or added to it.
LEMMA SaysFacts ==
  ASSUME NEW d \in [Slot -> Msg \cup {NoMsg}], NEW p \in Seq(Slot)
  PROVE  /\ Says(d, p) \in Seq(Msg \cup {NoMsg}) /\ Len(Says(d, p)) = Len(p)
         /\ Says(d, p) = << >> <=> p = << >>
         /\ p # << >> => /\ Head(Says(d, p)) = d[p[1]]
                         /\ Says(d, Tail(p)) = Tail(Says(d, p))
<1> DEFINE s == Says(d, p)
           M == Msg \cup {NoMsg}
<1>1. Len(p) \in Nat /\ DOMAIN p = 1 .. Len(p) /\ \A i \in 1 .. Len(p) : p[i] \in Slot
  OBVIOUS
<1>2. s = [i \in 1 .. Len(p) |-> d[p[i]]]
  BY DEF Says
<1> HIDE DEF M
<1>3. \A x \in Slot : d[x] \in M
  BY DEF M
<1> HIDE DEF s
<1>4. s \in [1 .. Len(p) -> M] /\ DOMAIN s = 1 .. Len(p)
  BY <1>1, <1>2, <1>3
<1>5. s \in Seq(M)
  BY <1>1, <1>4
<1>6. Len(s) = Len(p)
  BY <1>1, <1>4, <1>5
<1>7. s = << >> <=> p = << >>
  <2>1. s = << >> <=> Len(s) = 0
    BY <1>5
  <2>2. p = << >> <=> Len(p) = 0
    BY <1>1
  <2> QED BY <1>6, <2>1, <2>2
<1>8. ASSUME p # << >> PROVE Head(s) = d[p[1]] /\ Says(d, Tail(p)) = Tail(s)
  <2>1. Len(p) > 0 /\ 1 \in 1 .. Len(p)
    BY <1>1, <1>8
  <2>2. Head(s) = s[1]
    BY <1>5, <1>7, <1>8
  <2>3. Tail(p) \in Seq(Slot) /\ Len(Tail(p)) = Len(p) - 1
        /\ \A i \in 1 .. Len(p) - 1 : Tail(p)[i] = p[i + 1]
    BY <1>8
  <2>4. Tail(s) = [i \in 1 .. Len(s) - 1 |-> s[i + 1]]
    <3>1. s \in Seq(M) /\ s # << >>
      BY <1>5, <1>7, <1>8
    <3>2. /\ Tail(s) \in Seq(M) /\ Len(Tail(s)) = Len(s) - 1
          /\ \A i \in 1 .. Len(s) - 1 : Tail(s)[i] = s[i + 1]
      BY ONLY <3>1
    <3> DEFINE u == Tail(s)
    <3>3. /\ u \in Seq(M) /\ Len(u) = Len(s) - 1
          /\ \A i \in 1 .. Len(s) - 1 : u[i] = s[i + 1]
      BY <3>2
    <3> HIDE DEF u
    <3>4. u \in [1 .. Len(u) -> M]
      BY ONLY <3>3
    <3>5. u = [i \in 1 .. Len(u) |-> u[i]]
      BY ONLY <3>4
    <3>6. u = [i \in 1 .. Len(s) - 1 |-> s[i + 1]]
      BY ONLY <3>3, <3>5
    <3> QED BY <3>6 DEF u
  <2> DEFINE r == Tail(p)
  <2>5. Says(d, r) = [i \in 1 .. Len(p) - 1 |-> d[r[i]]]
    BY <2>3 DEF Says
  <2>6. \A i \in 1 .. Len(p) - 1 : r[i] = p[i + 1] /\ i + 1 \in 1 .. Len(p)
    BY <1>1, <2>3
  <2> HIDE DEF r
  <2>7. \A i \in 1 .. Len(p) - 1 : d[r[i]] = s[i + 1]
    BY <1>2, <2>6
  <2>8. Says(d, r) = Tail(s)
    BY <1>6, <2>4, <2>5, <2>7
  <2> QED BY <1>2, <2>1, <2>2, <2>8 DEF r
<1> QED BY <1>5, <1>6, <1>7, <1>8 DEF s, M

LEMMA SaysAdded ==
  ASSUME NEW d \in [Slot -> Msg \cup {NoMsg}], NEW e \in [Slot -> Msg \cup {NoMsg}],
         NEW p \in Seq(Slot), NEW s \in Slot, \A x \in Members(p) : e[x] = d[x]
  PROVE  /\ Says(e, p) = Says(d, p)
         /\ Says(e, Append(p, s)) = Append(Says(d, p), e[s])
         /\ Says(e, <<s>> \o p) = <<e[s]>> \o Says(d, p)
<1> DEFINE q == Says(d, p)
           n == Len(p)
<1>1. n \in Nat /\ \A i \in 1 .. n : p[i] \in Members(p)
  BY DEF Members
<1>2. q \in Seq(Msg \cup {NoMsg}) /\ Len(q) = n /\ \A i \in 1 .. n : q[i] = d[p[i]]
  <2>1. Says(d, p) \in Seq(Msg \cup {NoMsg}) /\ Len(Says(d, p)) = Len(p)
    BY SaysFacts
  <2>2. \A i \in 1 .. Len(p) : Says(d, p)[i] = d[p[i]]
    BY DEF Says
  <2> QED BY <2>1, <2>2
<1>3. Says(e, p) = Says(d, p)
  BY <1>1 DEF Says
<1>4. e[s] \in Msg \cup {NoMsg}
  OBVIOUS
<1>5. Says(e, Append(p, s)) = Append(q, e[s])
  <2> DEFINE r == Append(p, s)
             a == Append(q, e[s])
  <2>1. Len(r) = n + 1 /\ r[n + 1] = s /\ \A i \in 1 .. n : r[i] = p[i]
    BY <1>1
  <2>2. a = [i \in 1 .. n + 1 |-> IF i = n + 1 THEN e[s] ELSE q[i]]
    <3> HIDE DEF q, n
    <3>1. a = [i \in 1 .. Len(q) + 1 |-> IF i = Len(q) + 1 THEN e[s] ELSE q[i]]
      BY <1>2, <1>4
    <3> QED BY <1>2, <3>1
  <2>3. Says(e, r) = [i \in 1 .. n + 1 |-> e[r[i]]]
    BY <2>1 DEF Says
  <2> HIDE DEF r, a, q, n
  <2>4. \A i \in 1 .. n + 1 : e[r[i]] = IF i = n + 1 THEN e[s] ELSE q[i]
    <3> SUFFICES ASSUME NEW i \in 1 .. n + 1 PROVE e[r[i]] = IF i = n + 1 THEN e[s] ELSE q[i]
      OBVIOUS
    <3>1. CASE i = n + 1
      BY <2>1, <3>1
    <3>2. CASE i # n + 1
      <4>1. i \in 1 .. n
        BY <1>1, <3>2
      <4> QED BY <1>1, <1>2, <2>1, <3>2, <4>1
    <3> QED BY <3>1, <3>2
  <2>5. Says(e, r) = a
    BY <2>2, <2>3, <2>4
  <2> QED BY <2>5 DEF r, a
<1>6. Says(e, <<s>> \o p) = <<e[s]>> \o q
  <2> DEFINE r == <<s>> \o p
             a == <<e[s]>> \o q
  <2>1. Len(r) = n + 1 /\ r[1] = s /\ \A i \in 1 .. n : r[i + 1] = p[i]
    BY <1>1
  <2>2. /\ a \in Seq(Msg \cup {NoMsg}) /\ Len(a) = n + 1 /\ a[1] = e[s]
        /\ \A i \in 1 .. n : a[i + 1] = q[i]
    <3>1. <<e[s]>> \in Seq(Msg \cup {NoMsg}) /\ Len(<<e[s]>>) = 1
      BY <1>4
    <3> HIDE DEF q, n
    <3> QED BY <1>1, <1>2, <1>4, <3>1
  <2>3. Says(e, r) = [i \in 1 .. n + 1 |-> e[r[i]]]
    BY <2>1 DEF Says
  <2> HIDE DEF r, a, q, n
  <2>4. DOMAIN a = 1 .. n + 1 /\ a = [i \in 1 .. n + 1 |-> a[i]]
    BY <2>2
  <2>5. \A i \in 1 .. n + 1 : e[r[i]] = a[i]
    <3> SUFFICES ASSUME NEW i \in 1 .. n + 1 PROVE e[r[i]] = a[i]
      OBVIOUS
    <3>1. CASE i = 1
      BY <2>1, <2>2, <3>1
    <3>2. CASE i # 1
      <4>1. i - 1 \in 1 .. n /\ (i - 1) + 1 = i
        BY <1>1, <3>2
      <4>2. r[i] = p[i - 1] /\ a[i] = q[i - 1]
        BY <2>1, <2>2, <4>1
      <4> QED BY <1>1, <1>2, <4>1, <4>2
    <3> QED BY <3>1, <3>2
  <2>6. Says(e, r) = a
    BY <2>3, <2>4, <2>5
  <2> QED BY <2>6 DEF r, a
<1> QED BY <1>3, <1>5, <1>6

\* A step of c between two labels: what it brings must be a message, and what
\* others copy must not change.
LEMMA MovesMessages ==
  ASSUME QueueInv, MsgsOK, NEW c \in Thread, NEW l, NEW a, pc' = [pc EXCEPT ![c] = At(l, a)],
         \A x \in Thread \ {c} : own'[x] = own[x],
         data' \in [Slot -> Msg \cup {NoMsg}],
         \A x \in Thread \ {c} : pc[x].at = "mq_free" => data'[own[x].slot] = data[own[x].slot],
         l \in {"mq_send", "mq_urgent"} \/ (l \in WaitLabels /\ a = Senders) => own'[c].msg \in Msg
  PROVE  /\ MsgsOK'
         /\ Copying' = [Copying EXCEPT ![c] = IF l = "mq_free" THEN data'[own'[c].slot] ELSE NoMsg]
         /\ pc[c].at # "mq_free" /\ l # "mq_free" => Copying' = Copying
<1>1. /\ pc'[c].at = l /\ pc'[c].arg = a /\ \A x \in Thread \ {c} : pc'[x] = pc[x]
  <2>1. pc = [x \in Thread |-> pc[x]]
    BY QueueFacts
  <2> QED BY <2>1 DEF At
<1>2. MsgsOK'
  <2>1. ASSUME NEW t \in Thread, Brings(t)' PROVE own'[t].msg \in Msg
    <3>1. CASE t = c
      BY <1>1, <2>1, <3>1 DEF Brings
    <3>2. CASE t # c
      BY <1>1, <2>1, <3>2 DEF Brings, MsgsOK
    <3> QED BY <3>1, <3>2
  <2> QED BY <2>1 DEF MsgsOK
<1> DEFINE g == Copying
           v == IF l = "mq_free" THEN data'[own'[c].slot] ELSE NoMsg
<1>3. g = [t \in Thread |-> IF pc[t].at = "mq_free" THEN data[own[t].slot] ELSE NoMsg]
  BY DEF Copying
<1>4. Copying' = [t \in Thread |-> IF pc'[t].at = "mq_free" THEN data'[own'[t].slot] ELSE NoMsg]
  BY DEF Copying
<1>5. Copying' = [t \in Thread |-> IF t = c THEN v ELSE g[t]]
  BY <1>1, <1>3, <1>4
<1> HIDE DEF g
<1>6. Copying' = [g EXCEPT ![c] = v]
  <2> HIDE DEF v
  <2> QED BY <1>3, <1>5
<1>7. ASSUME pc[c].at # "mq_free", l # "mq_free" PROVE Copying' = g
  <2>1. v = NoMsg /\ g[c] = NoMsg
    BY <1>3, <1>7
  <2>2. Copying' = [t \in Thread |-> g[t]] /\ g = [t \in Thread |-> g[t]]
    <3>1. \A t \in Thread : (IF t = c THEN v ELSE g[t]) = g[t]
      BY <2>1
    <3> HIDE DEF v
    <3> QED BY <1>3, <1>5, <3>1
  <2> QED BY <2>2
<1> QED BY <1>2, <1>6, <1>7 DEF g

\* A step that leaves the slots alone and neither takes nor frees one.
LEMMA SameMessages ==
  ASSUME QueueInv, MsgsOK, UNCHANGED mqObject, NEW c \in Thread, NEW l, NEW a,
         pc' = [pc EXCEPT ![c] = At(l, a)], l \notin SlotLabels, pc[c].at \notin SlotLabels,
         \A x \in Thread \ {c} : own'[x] = own[x],
         l \in WaitLabels /\ a = Senders => own'[c].msg \in Msg
  PROVE  MsgsOK' /\ MessageStep
<1>1. data' = data /\ next' = next /\ mq' = mq
  BY DEF mqObject
<1>2. QueuedMessages' = QueuedMessages
  BY <1>1, MessagesAre
<1>3. l # "mq_free" /\ pc[c].at # "mq_free" /\ l \notin {"mq_send", "mq_urgent"}
  BY DEF SlotLabels
<1>4. data \in [Slot -> Msg \cup {NoMsg}]
  BY DEF MsgsOK
<1>5. MsgsOK' /\ Copying' = Copying
  BY <1>1, <1>3, <1>4, MovesMessages
<1> QED BY <1>2, <1>5 DEF MessageStep

\* A step that leaves the slots, their holders and the labels alone.
LEMMA StillMessages ==
  ASSUME MsgsOK, UNCHANGED <<mqObject, own>>,
         \A x \in Thread : pc'[x] = pc[x] \/ (pc[x].at \in Label /\ pc'[x].at \in Label)
  PROVE  MsgsOK' /\ MessageStep
<1>1. data' = data /\ next' = next /\ mq' = mq /\ own' = own
  BY DEF mqObject
<1>2. QueuedMessages' = QueuedMessages
  BY <1>1, MessagesAre
<1>3. \A l \in {"mq_send", "mq_urgent", "mq_free"} \cup WaitLabels : l \notin Label
  BY DEF Label, WaitLabels
<1>4. \A x \in Thread : pc'[x].at = "mq_free" <=> pc[x].at = "mq_free"
  BY <1>3
<1>5. Copying' = Copying
  BY <1>1, <1>4 DEF Copying
<1>6. \A x \in Thread : Brings(x)' => Brings(x)
  BY <1>3 DEF Brings
<1>7. MsgsOK'
  BY <1>1, <1>6 DEF MsgsOK
<1> QED BY <1>2, <1>5, <1>7 DEF MessageStep

\* A slot is taken from the free list.
LEMMA TakeMessages ==
  ASSUME QueueInv, MsgsOK, NEW c \in Thread, pc[c].at \notin SlotLabels, NEW v \in Msg,
         NEW l \in {"mq_send", "mq_urgent"}, mq.free # Null, TakeSlot(c, v, l)
  PROVE  MsgsOK' /\ MessageStep
<1>1. /\ mq' = [mq EXCEPT !.free = next[mq.free]] /\ next' = next /\ data' = data
      /\ own' = [own EXCEPT ![c] = [slot |-> mq.free, msg |-> v]]
      /\ pc' = [pc EXCEPT ![c] = At(l, Senders)]
  BY DEF TakeSlot, Goto
<1>2. PICK p, f : SlotsAre(mq, next, HeldSlots, p, f)
  BY DEF QueueInv, QueueIs
<1>3. SlotsAre(mq', next', HeldSlots \cup {mq.free}, p, Tail(f))
  BY <1>1, <1>2, SlotTaken
<1>4. QueuedMessages' = QueuedMessages
  BY <1>1, <1>2, <1>3, MessagesOfPaths
<1>5. own = [x \in Thread |-> own[x]]
  BY QueueFacts DEF HoldersOK
<1>6. own'[c].msg = v /\ \A x \in Thread \ {c} : own'[x] = own[x]
  <2> DEFINE w == [slot |-> mq.free, msg |-> v]
  <2>1. w.msg = v /\ own' = [own EXCEPT ![c] = w]
    BY <1>1
  <2> HIDE DEF w
  <2> QED BY <1>5, <2>1
<1>7. MsgsOK' /\ Copying' = Copying
  <2>1. pc[c].at # "mq_free" /\ l # "mq_free" /\ data \in [Slot -> Msg \cup {NoMsg}]
    BY DEF SlotLabels, MsgsOK
  <2> QED BY <1>1, <1>6, <2>1, MovesMessages
<1> QED BY <1>4, <1>7 DEF MessageStep

\* The queue is not full while a slot is not in it.
LEMMA PathHasRoom ==
  ASSUME NEW nx, NEW s, NEW p, Path(nx, s, p), NEW x \in Slot, x \notin Members(p)
  PROVE  Len(p) < MaxMsgs
<1>1. p \in Seq(Slot) /\ Injective(p)
  BY DEF Path
<1>2. IsFiniteSet(Members(p)) /\ Cardinality(Members(p)) = Len(p)
  BY <1>1, InjectiveCount
<1>3. IsFiniteSet(Slot) /\ Cardinality(Slot) = MaxMsgs /\ MaxMsgs \in Nat
  <2>1. 1 \in Int /\ MaxMsgs \in Int /\ MaxMsgs \in Nat /\ MaxMsgs > 0
    BY NullIsNoSlot
  <2>2. /\ IsFiniteSet(1 .. MaxMsgs)
        /\ Cardinality(1 .. MaxMsgs) = IF 1 > MaxMsgs THEN 0 ELSE MaxMsgs - 1 + 1
    BY <2>1, FS_Interval
  <2> QED BY <2>1, <2>2 DEF Slot
<1>4. Members(p) \in SUBSET Slot /\ Members(p) # Slot
  BY <1>1 DEF Members
<1>5. Cardinality(Members(p)) <= Cardinality(Slot) /\ Cardinality(Members(p)) # Cardinality(Slot)
  BY <1>3, <1>4, FS_Subset
<1>6. Len(p) \in Nat
  BY <1>1
<1> QED BY <1>2, <1>3, <1>5, <1>6

\* A message v is written to slot s and linked.
LEMMA LinkMessages ==
  ASSUME MsgsOK, NEW H, NEW p, NEW f, SlotsAre(mq, next, H, p, f),
         NEW s \in Slot, s \notin Members(p), NEW v \in Msg, data' = [data EXCEPT ![s] = v],
         NEW r, r = Append(p, s) \/ r = <<s>> \o p,
         NEW J, NEW h, SlotsAre(mq', next', J, r, h), Copying' = Copying
  PROVE  MessageStep
<1>1. p \in Seq(Slot) /\ Path(next, mq.head, p)
  BY SlotsFacts
<1>2. QueuedMessages = Says(data, p) /\ QueuedMessages' = Says(data', r)
  BY MessagesOfPaths
<1>3. /\ data \in [Slot -> Msg \cup {NoMsg}] /\ data' \in [Slot -> Msg \cup {NoMsg}]
      /\ data'[s] = v /\ \A x \in Members(p) : data'[x] = data[x]
  <2>1. Members(p) \subseteq Slot
    BY <1>1 DEF Members
  <2> QED BY <2>1 DEF MsgsOK
<1>4. /\ Says(data', Append(p, s)) = Append(Says(data, p), v)
      /\ Says(data', <<s>> \o p) = <<v>> \o Says(data, p)
  <2> DEFINE e == data'
  <2>1. /\ e \in [Slot -> Msg \cup {NoMsg}] /\ e[s] = v
        /\ \A x \in Members(p) : e[x] = data[x]
    BY <1>3
  <2> HIDE DEF e
  <2>2. /\ Says(e, Append(p, s)) = Append(Says(data, p), e[s])
        /\ Says(e, <<s>> \o p) = <<e[s]>> \o Says(data, p)
    BY ONLY <1>1, <1>3, <2>1, SaysAdded, s \in Slot
  <2> QED BY <2>1, <2>2 DEF e
<1>5. Len(QueuedMessages) < MaxMsgs
  <2>1. Len(p) < MaxMsgs
    BY <1>1, PathHasRoom
  <2> QED BY <1>1, <1>2, <1>3, <2>1, SaysFacts
<1> QED BY <1>2, <1>4, <1>5 DEF MessageStep

\* LinkSlot sends the message, urgent ones to the front.
LEMMA LinkSlotMessages ==
  ASSUME QueueInv, MsgsOK, NEW c \in Thread, LinkSlot(c)
  PROVE  MsgsOK' /\ MessageStep
<1> DEFINE s == own[c].slot
           v == own[c].msg
           H == HeldSlots
<1>1. HoldersOK
  BY QueueFacts
<1>2. PICK l \in {"mq_send", "mq_urgent"} : Executes(c, l)
  BY DEF LinkSlot
<1>3. s \in H /\ s # Null /\ pc[c].at = l
  <2>1. l \in SlotLabels
    BY DEF SlotLabels
  <2> QED BY <1>2, <2>1, HolderFacts
<1>4. /\ own' = [own EXCEPT ![c] = Nothing] /\ Completes(c, Receivers)
      /\ data' = [data EXCEPT ![s] = v]
  BY DEF LinkSlot
<1>5. \/ mq' = LinkLast(mq, s).mq /\ next' = LinkLast(mq, s).next
      \/ mq' = LinkFirst(mq, s).mq /\ next' = LinkFirst(mq, s).next
  BY DEF LinkSlot
<1>6. PICK p, f : SlotsAre(mq, next, H, p, f)
  BY DEF QueueInv, QueueIs
<1>7. s \in Slot /\ s \notin Members(p) /\ v \in Msg
  <2>1. H \subseteq Slot /\ H \cap Members(p) = {}
    BY <1>6, SlotsFacts DEF SlotsAre
  <2>2. v \in Msg
    BY <1>3 DEF MsgsOK, Brings
  <2> QED BY <1>3, <2>1, <2>2
<1>8. PICK r : /\ r = Append(p, s) \/ r = <<s>> \o p
               /\ SlotsAre(mq', next', H \ {s}, r, f)
  <2>1. CASE mq' = LinkLast(mq, s).mq /\ next' = LinkLast(mq, s).next
    <3>1. SlotsAre(mq', next', H \ {s}, Append(p, s), f)
      BY <1>3, <1>6, <2>1, SlotLinkedLast
    <3> QED BY <3>1
  <2>2. CASE mq' = LinkFirst(mq, s).mq /\ next' = LinkFirst(mq, s).next
    <3>1. SlotsAre(mq', next', H \ {s}, <<s>> \o p, f)
      BY <1>3, <1>6, <2>2, SlotLinkedFirst
    <3> QED BY <3>1
  <2> QED BY <1>5, <2>1, <2>2
<1>9. PICK ll \in {"run", "sched"} : pc' = [pc EXCEPT ![c] = At(ll, c)]
  BY <1>4 DEF Completes, Return, Goto
<1>10. MsgsOK' /\ Copying' = Copying
  <2>1. \A x \in Thread \ {c} : own'[x] = own[x]
    BY <1>1, <1>4 DEF HoldersOK
  <2>2. data' \in [Slot -> Msg \cup {NoMsg}]
    BY <1>4, <1>7 DEF MsgsOK
  <2>3. ASSUME NEW x \in Thread \ {c}, pc[x].at = "mq_free"
        PROVE  data'[own[x].slot] = data[own[x].slot]
    <3>1. own[x].slot # Null /\ own[x].slot \in Link
      BY <1>1, <2>3 DEF HoldersOK, SlotLabels
    <3>2. own[x].slot # s
      BY <1>1, <1>3, <3>1 DEF HoldersOK
    <3>3. own[x].slot \in Slot
      BY <3>1 DEF Link
    <3> QED BY <1>4, <3>2, <3>3 DEF MsgsOK
  <2>4. ll # "mq_free" /\ pc[c].at # "mq_free" /\ ll \notin {"mq_send", "mq_urgent"}
        /\ ll \notin WaitLabels
    BY <1>3 DEF WaitLabels
  <2> QED BY <1>9, <2>1, <2>2, <2>3, <2>4, MovesMessages
<1> HIDE DEF s, v, H
<1>11. MessageStep
  BY <1>4, <1>6, <1>7, <1>8, <1>10, LinkMessages
<1> QED BY <1>10, <1>11

\* The first message is received.
LEMMA UnlinkMessages ==
  ASSUME QueueInv, MsgsOK, NEW c \in Thread, mq.entry # 0, mq' = Unlink,
         Goto(c, "mq_free", Senders),
         own' = [own EXCEPT ![c] = [slot |-> mq.head, msg |-> NoMsg]], UNCHANGED <<next, data>>
  PROVE  MsgsOK' /\ MessageStep
<1>1. PICK p, f : SlotsAre(mq, next, HeldSlots, p, f)
  BY DEF QueueInv, QueueIs
<1>2. SlotsAre(mq', next', HeldSlots \cup {mq.head}, Tail(p), f) /\ Len(p) = mq.entry
  BY <1>1, SlotUnlinked
<1>3. /\ QueuedMessages = Says(data, p) /\ QueuedMessages' = Says(data', Tail(p))
  BY <1>1, <1>2, MessagesOfPaths
<1>4. p \in Seq(Slot) /\ p # << >> /\ mq.head = p[1]
  <2>1. p \in Seq(Slot) /\ Path(next, mq.head, p)
    BY <1>1, SlotsFacts
  <2>2. p # << >>
    BY <1>2
  <2> QED BY <2>1, <2>2 DEF Path
<1>5. data \in [Slot -> Msg \cup {NoMsg}]
  BY DEF MsgsOK
<1>6. /\ QueuedMessages # << >> /\ Head(QueuedMessages) = data[mq.head]
      /\ QueuedMessages' = Tail(QueuedMessages)
  BY <1>3, <1>4, <1>5, SaysFacts
<1>7. own'[c].slot = mq.head /\ \A x \in Thread \ {c} : own'[x] = own[x]
  <2> DEFINE w == [slot |-> mq.head, msg |-> NoMsg]
  <2>1. w.slot = mq.head /\ own' = [own EXCEPT ![c] = w]
    OBVIOUS
  <2>2. own = [x \in Thread |-> own[x]]
    BY QueueFacts DEF HoldersOK
  <2> HIDE DEF w
  <2> QED BY <2>1, <2>2
<1>8. MsgsOK' /\ Copying' = [Copying EXCEPT ![c] = Head(QueuedMessages)]
  <2> DEFINE l == "mq_free"
  <2>1. /\ l \notin {"mq_send", "mq_urgent"} /\ l \notin WaitLabels /\ l = "mq_free"
        /\ pc' = [pc EXCEPT ![c] = At(l, Senders)]
    BY DEF WaitLabels, Goto
  <2> HIDE DEF l
  <2>2. MsgsOK' /\ Copying' = [Copying EXCEPT ![c] = IF l = "mq_free" THEN data'[own'[c].slot] ELSE NoMsg]
    BY <1>5, <1>7, <2>1, MovesMessages
  <2>3. (IF l = "mq_free" THEN data'[own'[c].slot] ELSE NoMsg) = Head(QueuedMessages)
    BY <1>6, <1>7, <2>1
  <2> QED BY <2>2, <2>3
<1> QED BY <1>6, <1>8 DEF MessageStep

\* A slot whose message has been copied becomes free.
LEMMA FreeSlotMessages ==
  ASSUME QueueInv, MsgsOK, NEW c \in Thread, FreeSlot(c)
  PROVE  MsgsOK' /\ MessageStep
<1> DEFINE s == own[c].slot
           H == HeldSlots
<1>1. HoldersOK
  BY QueueFacts
<1>2. s \in H
  <2>1. "mq_free" \in SlotLabels /\ Executes(c, "mq_free")
    BY DEF SlotLabels, FreeSlot
  <2> QED BY <2>1, HolderFacts
<1>3. /\ own' = [own EXCEPT ![c] = Nothing] /\ Completes(c, Senders) /\ data' = data
      /\ mq' = [mq EXCEPT !.free = s] /\ next' = [next EXCEPT ![s] = mq.free]
  BY DEF FreeSlot
<1>4. PICK p, f : SlotsAre(mq, next, H, p, f)
  BY DEF QueueInv, QueueIs
<1>5. SlotsAre(mq', next', H \ {s}, p, <<s>> \o f)
  BY <1>2, <1>3, <1>4, SlotFreed
<1>6. QueuedMessages' = QueuedMessages
  BY <1>3, <1>4, <1>5, MessagesOfPaths
<1>7. PICK ll \in {"run", "sched"} : pc' = [pc EXCEPT ![c] = At(ll, c)]
  BY <1>3 DEF Completes, Return, Goto
<1>8. MsgsOK' /\ Copying' = [Copying EXCEPT ![c] = NoMsg]
  <2>1. \A x \in Thread \ {c} : own'[x] = own[x]
    BY <1>1, <1>3 DEF HoldersOK
  <2>2. data' \in [Slot -> Msg \cup {NoMsg}]
    BY <1>3 DEF MsgsOK
  <2>3. ll # "mq_free" /\ ll \notin {"mq_send", "mq_urgent"} /\ ll \notin WaitLabels
    BY DEF WaitLabels
  <2>4. MsgsOK' /\ Copying' = [Copying EXCEPT ![c] = IF ll = "mq_free" THEN data'[own'[c].slot] ELSE NoMsg]
    BY <1>3, <1>7, <2>1, <2>2, <2>3, MovesMessages
  <2> QED BY <2>3, <2>4
<1> QED BY <1>6, <1>8 DEF MessageStep

\* An interrupt handler sends.
LEMMA IsrMessages ==
  ASSUME QueueInv, MsgsOK, NEW v \in Msg, IsrMqSend(v)
  PROVE  MsgsOK' /\ MessageStep
<1> DEFINE s == mq.free
           m == [mq EXCEPT !.free = next[s]]
           H == HeldSlots
<1>1. /\ UNCHANGED <<pc, own>> /\ s # Null /\ data' = [data EXCEPT ![s] = v]
      /\ mq' = LinkLast(m, s).mq /\ next' = LinkLast(m, s).next
  BY DEF IsrMqSend
<1>2. HoldersOK
  BY QueueFacts
<1>3. PICK p, f : SlotsAre(mq, next, H, p, f)
  BY DEF QueueInv, QueueIs
<1>4. SlotsAre(m, next, H \cup {s}, p, Tail(f)) /\ s \in Slot /\ s \notin H
  BY <1>1, <1>3, SlotTaken
<1>5. s \notin Members(p)
  BY <1>4 DEF SlotsAre
<1>6. SlotsAre(mq', next', (H \cup {s}) \ {s}, Append(p, s), Tail(f))
  <2> HIDE DEF m, s, H
  <2>1. s \in H \cup {s}
    OBVIOUS
  <2>2. SlotsAre(LinkLast(m, s).mq, LinkLast(m, s).next, (H \cup {s}) \ {s}, Append(p, s), Tail(f))
    BY ONLY <1>4, <2>1, SlotLinkedLast
  <2> QED BY <1>1, <2>2
<1>7. data' \in [Slot -> Msg \cup {NoMsg}]
  BY <1>1, <1>4 DEF MsgsOK
<1>8. Copying' = Copying
  <2>1. ASSUME NEW t \in Thread, pc[t].at = "mq_free" PROVE data'[own[t].slot] = data[own[t].slot]
    <3>1. own[t].slot # Null /\ own[t].slot \in Link
      BY <1>2, <2>1 DEF HoldersOK, SlotLabels
    <3>2. own[t].slot \in H /\ own[t].slot \in Slot
      BY <3>1 DEF HeldSlots, Link
    <3> QED BY <1>1, <1>4, <3>2 DEF MsgsOK
  <2> QED BY <1>1, <2>1 DEF Copying
<1>9. MsgsOK'
  BY <1>1, <1>7 DEF MsgsOK, Brings
<1> HIDE DEF m, s, H
<1>10. MessageStep
  BY <1>1, <1>3, <1>4, <1>5, <1>6, <1>8, LinkMessages
<1> QED BY <1>9, <1>10

\* The reset and the initialization leave no message.
LEMMA EmptyMessages ==
  ASSUME QueueInv, MsgsOK, NEW H, NEW h, SlotsAre(mq', next', H, << >>, h),
         Copying' = Copying, MsgsOK'
  PROVE  MessageStep
<1>1. PICK p, f : SlotsAre(mq, next, HeldSlots, p, f)
  BY DEF QueueInv, QueueIs
<1>2. QueuedMessages' = Says(data', << >>)
  BY <1>1, MessagesOfPaths
<1>3. Says(data', << >>) = << >>
  BY DEF Says
<1> QED BY <1>2, <1>3 DEF MessageStep

LEMMA ResetMessages ==
  ASSUME QueueInv, MsgsOK, NEW c \in Thread, rt_mq_control(c)
  PROVE  MsgsOK' /\ MessageStep
<1>1. /\ UNCHANGED <<data, own>> /\ next' = Recycled.next /\ pc' = [pc EXCEPT ![c] = At("sched", c)]
      /\ mq' = [head |-> Null, tail |-> Null, free |-> Recycled.free, entry |-> 0]
      /\ pc[c].at = "run"
  BY DEF rt_mq_control, Asks, Executes, Goto
<1>2. PICK p, f : SlotsAre(mq, next, HeldSlots, p, f)
  BY DEF QueueInv, QueueIs
<1>3. PICK h : SlotsAre(mq', next', HeldSlots, << >>, h)
  BY <1>1, <1>2, SlotsReset
<1>4. MsgsOK' /\ Copying' = Copying
  <2> DEFINE l == "sched"
  <2>1. /\ l \notin {"mq_send", "mq_urgent", "mq_free"} /\ l \notin WaitLabels /\ pc[c].at # "mq_free"
        /\ pc' = [pc EXCEPT ![c] = At(l, c)] /\ data' \in [Slot -> Msg \cup {NoMsg}]
    BY <1>1 DEF WaitLabels, MsgsOK
  <2> HIDE DEF l
  <2>2. data' = data /\ own' = own /\ l # "mq_free" /\ l \notin {"mq_send", "mq_urgent"}
    BY <1>1, <2>1
  <2>3. /\ MsgsOK'
        /\ pc[c].at # "mq_free" /\ l # "mq_free" => Copying' = Copying
    BY <2>1, <2>2, MovesMessages
  <2> QED BY <2>1, <2>2, <2>3
<1> QED BY <1>3, <1>4, EmptyMessages

LEMMA InitializeMessages ==
  ASSUME QueueInv, MsgsOK, NEW c \in Thread, rt_mq_init(c)
  PROVE  MsgsOK' /\ MessageStep
<1>1. /\ mq' = EmptyQueue /\ next' = [s \in Slot |-> s - 1] /\ UNCHANGED <<pc, own, data>>
  BY DEF rt_mq_init, InitializeBoth
<1>2. MsgsOK' /\ Copying' = Copying
  BY <1>1 DEF MsgsOK, Brings, Copying
<1>3. SlotsAre(mq', next', {}, << >>, [i \in 1 .. MaxMsgs |-> MaxMsgs + 1 - i])
  BY <1>1, SlotsFresh
<1> QED BY <1>2, <1>3, EmptyMessages

\* rt_mq_send_wait and rt_mq_recv, when they are called and when they look again.
LEMMA SendSlotMessages ==
  ASSUME QueueInv, MsgsOK, NEW c \in Thread, pc[c].at \notin SlotLabels, NEW v \in Msg,
         NEW time, SendSlot(c, v, time)
  PROVE  MsgsOK' /\ MessageStep
<1>1. own = [x \in Thread |-> own[x]]
  BY QueueFacts DEF HoldersOK
<1>2. CASE mq.free # Null /\ TakeSlot(c, v, "mq_send")
  BY <1>2, TakeMessages
<1>3. CASE Return(c) /\ own' = [own EXCEPT ![c] = Nothing] /\ UNCHANGED mqObject
  <2> DEFINE l == "run"
  <2>1. pc' = [pc EXCEPT ![c] = At(l, c)] /\ l \notin SlotLabels /\ l \notin WaitLabels
    BY <1>3 DEF Return, Goto, SlotLabels, WaitLabels
  <2>2. \A x \in Thread \ {c} : own'[x] = own[x]
    BY <1>1, <1>3
  <2> HIDE DEF l
  <2> QED BY <1>3, <2>1, <2>2, SameMessages
<1>4. CASE /\ Waits(c, Senders, time) /\ UNCHANGED mqObject
           /\ own' = [own EXCEPT ![c] = [slot |-> Null, msg |-> v]]
  <2> DEFINE l == "ipc_sched"
             w == [slot |-> Null, msg |-> v]
  <2>1. pc' = [pc EXCEPT ![c] = At(l, Senders)] /\ l \notin SlotLabels
    BY <1>4 DEF Waits, Goto, SlotLabels
  <2>2. w.msg = v /\ own' = [own EXCEPT ![c] = w]
    BY <1>4
  <2> HIDE DEF l, w
  <2>3. own'[c].msg = v /\ \A x \in Thread \ {c} : own'[x] = own[x]
    BY <1>1, <2>2
  <2> QED BY <1>4, <2>1, <2>3, SameMessages
<1> QED BY <1>2, <1>3, <1>4 DEF SendSlot

LEMMA RecvSlotMessages ==
  ASSUME QueueInv, MsgsOK, NEW c \in Thread, pc[c].at \notin SlotLabels,
         NEW time, RecvSlot(c, time)
  PROVE  MsgsOK' /\ MessageStep
<1>1. CASE /\ mq.entry # 0 /\ mq' = Unlink /\ Goto(c, "mq_free", Senders)
           /\ own' = [own EXCEPT ![c] = [slot |-> mq.head, msg |-> NoMsg]]
           /\ UNCHANGED <<next, data>>
  BY <1>1, UnlinkMessages
<1>2. CASE Return(c) /\ UNCHANGED <<mqObject, own>>
  <2> DEFINE l == "run"
  <2>1. pc' = [pc EXCEPT ![c] = At(l, c)] /\ l \notin SlotLabels /\ l \notin WaitLabels
    BY <1>2 DEF Return, Goto, SlotLabels, WaitLabels
  <2> HIDE DEF l
  <2> QED BY <1>2, <2>1, SameMessages
<1>3. CASE Waits(c, Receivers, time) /\ UNCHANGED <<mqObject, own>>
  <2> DEFINE l == "ipc_sched"
  <2>1. pc' = [pc EXCEPT ![c] = At(l, Receivers)] /\ l \notin SlotLabels /\ Receivers # Senders
    BY <1>3, QueueFacts DEF Waits, Goto, SlotLabels
  <2> HIDE DEF l
  <2> QED BY <1>3, <2>1, SameMessages
<1> QED BY <1>1, <1>2, <1>3 DEF RecvSlot

\* The steps of a blocked caller and of a detach.
LEMMA ContinueMessages ==
  ASSUME QueueInv, MsgsOK, NEW c \in Thread, ChannelContinue(c), UNCHANGED <<mqObject, own>>
  PROVE  MsgsOK' /\ MessageStep
<1>1. CASE BlockSchedule(c)
  <2> DEFINE l == "ipc_end"
  <2>1. /\ pc' = [pc EXCEPT ![c] = At(l, pc[c].arg)] /\ l \notin SlotLabels
        /\ pc[c].at = "ipc_sched" /\ pc[c].at \notin SlotLabels
    BY <1>1 DEF BlockSchedule, Executes, Goto, SlotLabels
  <2>2. pc[c].arg = Senders => own'[c].msg \in Msg
    BY <2>1 DEF MsgsOK, Brings, WaitLabels
  <2> HIDE DEF l
  <2> QED BY <2>1, <2>2, SameMessages
<1>2. CASE ~ BlockSchedule(c)
  <2>1. PICK l, a : /\ l \in {"run", "ipc_test", "ipc_next"}
                    /\ pc' = [pc EXCEPT ![c] = At(l, a)]
    BY <1>2 DEF ChannelContinue, ResumeAllNext, ResumeBothTest, ReceiversResumed,
                ResumeAllTest, RetryFails, Goto, Return
  <2>2. pc[c].at \in {"ipc_end", "ipc_test", "ipc_next"}
    BY <1>2 DEF ChannelContinue, ResumeAllNext, ResumeBothTest, ReceiversResumed,
                ResumeAllTest, RetryFails, Executes
  <2>3. l \notin SlotLabels /\ l \notin WaitLabels /\ pc[c].at \notin SlotLabels
    BY <2>1, <2>2 DEF SlotLabels, WaitLabels
  <2> QED BY <2>1, <2>3, SameMessages
<1> QED BY <1>1, <1>2

\* Every step is one of the channel, or none.
LEMMA MessageSteps ==
  ASSUME Polite
  PROVE  QueueInv /\ MsgsOK /\ [MqNext]_mqVars => MsgsOK' /\ MessageStep
<1> SUFFICES ASSUME QueueInv, MsgsOK, [MqNext]_mqVars PROVE MsgsOK' /\ MessageStep
  OBVIOUS
<1>1. ChannelInv /\ ObjInv /\ pc = [x \in Thread |-> pc[x]]
  BY QueueFacts
<1>2. CASE UNCHANGED mqVars
  <2>1. UNCHANGED <<pc, mqObject, own>>
    BY <1>2 DEF mqVars, retryVars, ipcVars
  <2> QED BY <2>1, StillMessages
<1>3. CASE KernelStep /\ UNCHANGED <<mqObject, own>>
  <2>1. \A x \in Thread : Unmoved(x)
    BY <1>1, <1>3, NextIpcInv DEF ObjInv, KernelStep
  <2> QED BY <1>3, <2>1, StillMessages DEF Unmoved
<1>4. ASSUME NEW c \in Thread, ChannelContinue(c) /\ UNCHANGED <<mqObject, own>>
      PROVE  MsgsOK' /\ MessageStep
  BY <1>4, ContinueMessages
<1>5. ASSUME NEW c \in Thread, pc[c].at \in {"run", "ipc_end"}
      PROVE  pc[c].at \notin SlotLabels
  BY <1>5 DEF SlotLabels
<1>6. ASSUME NEW c \in Thread, MqSendAgain(c) PROVE MsgsOK' /\ MessageStep
  <2>1. /\ pc[c].at = "ipc_end" /\ pc[c].arg = Senders
        /\ SendSlot(c, own[c].msg, Remaining(wait[c]))
    BY <1>6 DEF MqSendAgain, Again, Executes
  <2>2. own[c].msg \in Msg
    BY <2>1 DEF MsgsOK, Brings, WaitLabels
  <2> QED BY <1>5, <2>1, <2>2, SendSlotMessages
<1>7. ASSUME NEW c \in Thread, MqRecvAgain(c) PROVE MsgsOK' /\ MessageStep
  <2>1. pc[c].at = "ipc_end" /\ RecvSlot(c, Remaining(wait[c]))
    BY <1>7 DEF MqRecvAgain, Again, Executes
  <2> QED BY <1>5, <2>1, RecvSlotMessages
<1>8. ASSUME NEW c \in Thread, NEW v \in Msg, rt_mq_urgent(c, v)
      PROVE  MsgsOK' /\ MessageStep
  <2>1. pc[c].at = "run" /\ mq.free # Null /\ TakeSlot(c, v, "mq_urgent")
    BY <1>8 DEF rt_mq_urgent, Asks, Executes
  <2> QED BY <1>5, <2>1, TakeMessages
<1>9. ASSUME NEW c \in Thread, NEW v \in Msg, NEW time, rt_mq_send_wait(c, v, time)
      PROVE  MsgsOK' /\ MessageStep
  <2>1. pc[c].at = "run" /\ SendSlot(c, v, time)
    BY <1>9 DEF rt_mq_send_wait, Asks, Executes
  <2> QED BY <1>5, <2>1, SendSlotMessages
<1>10. ASSUME NEW c \in Thread, NEW time, rt_mq_recv(c, time)
       PROVE  MsgsOK' /\ MessageStep
  <2>1. pc[c].at = "run" /\ RecvSlot(c, time)
    BY <1>10 DEF rt_mq_recv, Asks, Executes
  <2> QED BY <1>5, <2>1, RecvSlotMessages
<1>11. ASSUME NEW c \in Thread, rt_mq_detach(c) PROVE MsgsOK' /\ MessageStep
  <2> DEFINE l == "ipc_test"
  <2>1. /\ pc[c].at = "run" /\ pc' = [pc EXCEPT ![c] = At(l, Receivers)]
        /\ l \notin SlotLabels /\ l \notin WaitLabels /\ UNCHANGED <<mqObject, own>>
    BY <1>11 DEF rt_mq_detach, DetachBoth, Asks, Executes, Goto, SlotLabels, WaitLabels
  <2> HIDE DEF l
  <2> QED BY <1>5, <2>1, SameMessages
<1>12. ASSUME NEW c \in Thread,
              LinkSlot(c) \/ FreeSlot(c) \/ rt_mq_control(c) \/ rt_mq_init(c)
       PROVE  MsgsOK' /\ MessageStep
  BY <1>12, LinkSlotMessages, FreeSlotMessages, ResetMessages, InitializeMessages
<1>13. ASSUME NEW v \in Msg, IsrMqSend(v) PROVE MsgsOK' /\ MessageStep
  BY <1>13, IsrMessages
<1> QED BY <1>2, <1>3, <1>4, <1>6, <1>7, <1>8, <1>9, <1>10, <1>11, <1>12, <1>13
        DEF MqNext

(***************************************************************************)
(* The message queue implements a bounded channel: messages are delivered  *)
(* once, unchanged and in the order they were sent, urgent ones first,     *)
(* although a slot's contents are written and read with interrupts         *)
(* enabled, between two critical sections, while others send, receive,     *)
(* reset or detach.                                                        *)
(***************************************************************************)
THEOREM QueueImplementsChannel ==
  ASSUME Polite, IsFiniteSet(Thread)
  PROVE  MqSpec => QueueIsChannel
<1>1. MqInit => MsgsOK /\ MqChannel!CInit
  <2> SUFFICES ASSUME MqInit PROVE MsgsOK /\ MqChannel!CInit
    OBVIOUS
  <2>1. /\ mq = EmptyQueue /\ next = [s \in Slot |-> s - 1] /\ data = [s \in Slot |-> NoMsg]
        /\ \A t \in Thread : pc[t].at = "run"
    BY DEF MqInit, MqStart, RetryInit, InitStarted, Running, At
  <2>2. MsgsOK
    BY <2>1 DEF MsgsOK, Brings, WaitLabels
  <2>3. Copying = [t \in Thread |-> NoMsg]
    BY <2>1 DEF Copying
  <2>4. QueuedMessages = << >>
    <3>1. SlotsAre(mq, next, {}, << >>, [i \in 1 .. MaxMsgs |-> MaxMsgs + 1 - i])
      BY <2>1, SlotsFresh
    <3>2. Path(next, mq.head, << >>)
      BY <3>1 DEF SlotsAre
    <3>3. QueuedMessages = Says(data, << >>)
      BY <3>2, ChainOfIs, MessagesAre
    <3> QED BY <3>3 DEF Says
  <2> QED BY <2>2, <2>3, <2>4 DEF MqChannel!CInit
<1>2. QueueInv /\ MsgsOK /\ [MqNext]_mqVars => [MqChannel!CNext]_MqChannel!cVars
  <2> SUFFICES ASSUME QueueInv, MsgsOK, [MqNext]_mqVars
               PROVE  [MqChannel!CNext]_MqChannel!cVars
    OBVIOUS
  <2>1. MessageStep
    BY MessageSteps
  <2> QED BY <2>1 DEF MessageStep, MqChannel!CNext, MqChannel!cVars, MqChannel!CSend,
             MqChannel!CUrgent, MqChannel!CReceive, MqChannel!CReturn, MqChannel!CReset
<1>3. QueueInv /\ MsgsOK /\ [MqNext]_mqVars => MsgsOK'
  BY MessageSteps
<1> QED BY <1>1, <1>2, <1>3, QueueInitInv, QueueInvIsInductive, PTL
        DEF MqSpec, QueueIsChannel, MqChannel!CSpec
=============================================================================
