---------------------------- MODULE KernelProofs ----------------------------
(***************************************************************************)
(* Lemmas about the kernel's operations: each keeps the consistency of the *)
(* lists, the priority group and the thread states (Core), and says which  *)
(* threads it touches (Local, Moves).                                      *)
(***************************************************************************)
EXTENDS Kernel, SequenceTheorems, WellFoundedInduction, TLAPS

Injective(s) == \A i, j \in DOMAIN s : s[i] = s[j] => i = j

\* What SequencesExt!RemoveAt returns: the sequence without its i-th element.
LEMMA RemoveAtFacts ==
  ASSUME NEW T, NEW s \in Seq(T), NEW i \in DOMAIN s
  PROVE  LET r == RemoveAt(s, i)
         IN  /\ r \in Seq(T)
             /\ Len(r) = Len(s) - 1
             /\ \A j \in 1 .. Len(r) : r[j] = IF j < i THEN s[j] ELSE s[j + 1]
<1> DEFINE u == SubSeq(s, 1, i - 1)
           v == SubSeq(s, i + 1, Len(s))
<1>1. DOMAIN s = 1 .. Len(s) /\ Len(s) \in Nat
  OBVIOUS
<1>2. /\ u \in Seq(T) /\ Len(u) = i - 1
      /\ \A j \in 1 .. i - 1 : u[j] = s[j]
  BY <1>1
<1>3. /\ v \in Seq(T) /\ Len(v) = Len(s) - i
      /\ \A j \in 1 .. Len(s) - i : v[j] = s[i + j]
  BY <1>1
<1> HIDE DEF u, v
<1>4. /\ u \o v \in Seq(T) /\ Len(u \o v) = Len(u) + Len(v)
      /\ \A j \in 1 .. Len(u) + Len(v) :
           (u \o v)[j] = IF j <= Len(u) THEN u[j] ELSE v[j - Len(u)]
  BY <1>2, <1>3, ConcatProperties
<1>5. ASSUME NEW j \in 1 .. Len(s) - 1
      PROVE  (u \o v)[j] = IF j < i THEN s[j] ELSE s[j + 1]
  <2>1. CASE j < i
    BY <1>1, <1>2, <1>3, <1>4, <2>1
  <2>2. CASE j >= i
    <3>1. (u \o v)[j] = v[j - (i - 1)]
      BY SMTT(30), <1>1, <1>2, <1>3, <1>4, <2>2
    <3>2. j - (i - 1) \in 1 .. Len(s) - i /\ i + (j - (i - 1)) = j + 1
      BY <1>1, <2>2
    <3> QED BY <3>1, <3>2, <1>3, <2>2
  <2>3. j < i \/ j >= i
    BY <1>1
  <2> QED BY <2>1, <2>2, <2>3
<1>6. Len(u) + Len(v) = Len(s) - 1
  BY <1>1, <1>2, <1>3
<1> QED BY <1>4, <1>5, <1>6 DEF RemoveAt, u, v

\* Dropping a thread (rt_list_remove) from a list that holds it at most once takes
\* it out, keeps the others and keeps the list free of duplicates.
LEMMA DropFacts ==
  ASSUME NEW T, NEW s \in Seq(T), NEW t, Injective(s)
  PROVE  /\ Drop(s, t) \in Seq(T)
         /\ Injective(Drop(s, t))
         /\ Members(Drop(s, t)) = Members(s) \ {t}
<1>1. CASE t \notin Members(s)
  BY <1>1 DEF Drop
<1>2. CASE t \in Members(s)
  <2> DEFINE i == CHOOSE i \in DOMAIN s : s[i] = t
             r == RemoveAt(s, i)
  <2>1. i \in DOMAIN s /\ s[i] = t
    BY <1>2 DEF Members
  <2>2. Drop(s, t) = r
    BY <1>2 DEF Drop
  <2>3. r \in Seq(T) /\ Len(r) = Len(s) - 1
    BY <2>1, RemoveAtFacts
  <2>4. \A j \in 1 .. Len(r) : r[j] = IF j < i THEN s[j] ELSE s[j + 1]
    BY <2>1, RemoveAtFacts
  <2> HIDE DEF i, r
  <2>5. DOMAIN r = 1 .. Len(s) - 1 /\ DOMAIN s = 1 .. Len(s) /\ Len(s) \in Nat
    BY <2>3
  <2>6. Injective(r)
    <3> SUFFICES ASSUME NEW j1 \in 1 .. Len(s) - 1, NEW j2 \in 1 .. Len(s) - 1,
                        r[j1] = r[j2]
                 PROVE  j1 = j2
      BY <2>5 DEF Injective
    <3> DEFINE f(j) == IF j < i THEN j ELSE j + 1
    <3>1. f(j1) \in DOMAIN s /\ f(j2) \in DOMAIN s
      BY <2>1, <2>5
    <3>2. r[j1] = s[f(j1)] /\ r[j2] = s[f(j2)]
      BY <2>3, <2>4, <2>5
    <3>3. f(j1) = f(j2)
      BY <3>1, <3>2 DEF Injective
    <3> QED BY <3>3, <2>1, <2>5
  <2>7. ASSUME NEW x \in Members(r)
        PROVE  x \in Members(s) \ {t}
    <3>1. PICK j \in DOMAIN r : r[j] = x
      BY <2>7 DEF Members
    <3> DEFINE m == IF j < i THEN j ELSE j + 1
    <3>2. m \in DOMAIN s /\ m # i /\ s[m] = x
      BY <3>1, <2>1, <2>3, <2>4, <2>5
    <3> QED BY <3>2, <2>1 DEF Members, Injective
  <2>8. ASSUME NEW x \in Members(s) \ {t}
        PROVE  x \in Members(r)
    <3>1. PICK j \in DOMAIN s : s[j] = x
      BY <2>8 DEF Members
    <3>2. CASE j < i
      <4>1. j \in DOMAIN r /\ r[j] = x
        BY <3>1, <3>2, <2>1, <2>3, <2>4, <2>5
      <4> QED BY <4>1 DEF Members
    <3>3. CASE j > i
      <4>1. j - 1 \in DOMAIN r /\ r[j - 1] = x
        BY <3>1, <3>3, <2>1, <2>3, <2>4, <2>5
      <4> QED BY <4>1 DEF Members
    <3>4. j # i
      BY <3>1, <2>1, <2>8
    <3> QED BY <3>1, <3>2, <3>3, <3>4, <2>1, <2>5
  <2> QED BY <2>2, <2>3, <2>6, <2>7, <2>8
<1> QED BY <1>1, <1>2

\* Appending a thread (rt_list_insert_before) adds it to the members, and keeps the
\* list free of duplicates if the thread was not in it.
LEMMA AppendMembers ==
  ASSUME NEW T, NEW s \in Seq(T), NEW t \in T, Injective(s), t \notin Members(s)
  PROVE  /\ Append(s, t) \in Seq(T)
         /\ Injective(Append(s, t))
         /\ Members(Append(s, t)) = Members(s) \cup {t}
<1>1. Append(s, t) \in Seq(T) /\ Len(Append(s, t)) = Len(s) + 1
  OBVIOUS
<1>2. \A j \in 1 .. Len(s) + 1 :
        Append(s, t)[j] = IF j <= Len(s) THEN s[j] ELSE t
  OBVIOUS
<1>3. DOMAIN s = 1 .. Len(s) /\ Len(s) \in Nat
  OBVIOUS
<1> DEFINE r == Append(s, t)
<1>4. r \in Seq(T) /\ DOMAIN r = 1 .. Len(s) + 1
  BY <1>1
<1>5. \A j \in 1 .. Len(s) + 1 : r[j] = IF j <= Len(s) THEN s[j] ELSE t
  BY <1>2
<1> HIDE DEF r
<1>6. Injective(r)
  BY <1>3, <1>4, <1>5 DEF Injective, Members
<1>7. ASSUME NEW x \in Members(r) PROVE x \in Members(s) \cup {t}
  BY <1>3, <1>4, <1>5, <1>7 DEF Members
<1>8. ASSUME NEW x \in Members(s) PROVE x \in Members(r)
  <2>1. PICK j \in DOMAIN s : s[j] = x
    BY <1>8 DEF Members
  <2>2. j \in DOMAIN r /\ r[j] = x
    BY <2>1, <1>3, <1>4, <1>5
  <2> QED BY <2>2 DEF Members
<1>9. t \in Members(r)
  <2>1. Len(s) + 1 \in DOMAIN r /\ r[Len(s) + 1] = t
    BY <1>3, <1>4, <1>5
  <2> QED BY <2>1 DEF Members
<1> QED BY <1>4, <1>6, <1>7, <1>8, <1>9 DEF r

\* The same of rt_list_insert_after.
LEMMA PrependMembers ==
  ASSUME NEW T, NEW s \in Seq(T), NEW t \in T, Injective(s), t \notin Members(s)
  PROVE  /\ <<t>> \o s \in Seq(T)
         /\ Injective(<<t>> \o s)
         /\ Members(<<t>> \o s) = Members(s) \cup {t}
<1> DEFINE r == <<t>> \o s
<1>1. <<t>> \in Seq(T) /\ Len(<<t>>) = 1 /\ <<t>>[1] = t
  OBVIOUS
<1>2. DOMAIN s = 1 .. Len(s) /\ Len(s) \in Nat
  OBVIOUS
<1>3. /\ r \in Seq(T) /\ Len(r) = Len(s) + 1
      /\ \A j \in 1 .. Len(s) + 1 : r[j] = IF j <= 1 THEN <<t>>[j] ELSE s[j - 1]
  BY <1>1, <1>2, ConcatProperties
<1> HIDE DEF r
<1>4. DOMAIN r = 1 .. Len(s) + 1
  BY <1>3
<1>5. r[1] = t /\ \A j \in 2 .. Len(s) + 1 : r[j] = s[j - 1]
  BY <1>1, <1>2, <1>3
<1>6. Injective(r)
  BY SMTT(30), <1>2, <1>4, <1>5 DEF Injective, Members
<1>7. ASSUME NEW x \in Members(r) PROVE x \in Members(s) \cup {t}
  BY <1>2, <1>4, <1>5, <1>7 DEF Members
<1>8. ASSUME NEW x \in Members(s) PROVE x \in Members(r)
  <2>1. PICK j \in DOMAIN s : s[j] = x
    BY <1>8 DEF Members
  <2>2. j + 1 \in DOMAIN r /\ r[j + 1] = x
    BY <2>1, <1>2, <1>4, <1>5
  <2> QED BY <2>2 DEF Members
<1>9. t \in Members(r)
  BY <1>2, <1>4, <1>5 DEF Members
<1> QED BY <1>3, <1>6, <1>7, <1>8, <1>9 DEF r

\* A list is empty exactly if it has no members.
LEMMA EmptyMembers ==
  ASSUME NEW T, NEW s \in Seq(T)
  PROVE  s = << >> <=> Members(s) = {}
<1>1. DOMAIN s = 1 .. Len(s) /\ Len(s) \in Nat
  OBVIOUS
<1>2. CASE s = << >>
  BY <1>2 DEF Members
<1>3. CASE s # << >>
  <2>1. 1 \in DOMAIN s
    BY <1>1, <1>3
  <2>2. s[1] \in Members(s)
    BY <2>1 DEF Members
  <2> QED BY <1>3, <2>2
<1> QED BY <1>2, <1>3

-----------------------------------------------------------------------------
(***************************************************************************)
(* The invariant with the threads of X exempted: they are in no list, and  *)
(* their state, which a caller is about to set, is not constrained.        *)
(***************************************************************************)
\* The fields that list operations leave alone.
Frame(k, u) ==
  /\ u.prio = k.prio /\ u.timer = k.timer /\ u.lock = k.lock /\ u.err = k.err
  /\ u.slice = k.slice /\ u.yld = k.yld /\ u.current = k.current

StatOK(k, t) ==
  /\ k.stat[t] = "READY" => t \in Members(k.list[k.prio[t]])
  /\ k.stat[t] = "RUNNING" => t = k.current
  /\ k.timer[t] # Off => k.stat[t] = "SUSPEND"

Core(k, X) ==
  /\ k \in KernelType
  /\ \A h \in Head_ : Injective(k.list[h])
  /\ ListsMatchStat(k)
  /\ QueuesDisjoint(k)
  /\ k.group = {p \in Prio : Members(k.list[p]) # {}}
  /\ \A t \in X : Unlinked(k, t)
  /\ \A t \in Thread \ X : StatOK(k, t)

\* With no thread exempted, Core is the invariant the kernel promises.
LEMMA CoreIsKernelInv ==
  ASSUME NEW k \in KernelType
  PROVE  KernelInv(k) <=>
           Core(k, {}) /\ k.stat[k.current] \in {"RUNNING", "SUSPEND", "CLOSE"}
<1>1. \A h \in Head_ : k.list[h] \in Seq(Thread)
  BY DEF KernelType
<1>2. \A p \in Prio : k.list[p] = << >> <=> Members(k.list[p]) = {}
  BY <1>1, EmptyMembers DEF Head_
<1>3. GroupIsNonEmpty(k) <=> k.group = {p \in Prio : Members(k.list[p]) # {}}
  BY <1>2 DEF GroupIsNonEmpty
<1>4. ListsInjective(k) <=> \A h \in Head_ : Injective(k.list[h])
  BY DEF ListsInjective, Injective
<1> QED BY <1>3, <1>4 DEF KernelInv, Core, StatOK, ReadyIsQueued, OneRunning,
           TimerImpliesSuspended

\* rt_list_remove takes one thread out of every list and changes nothing else.
LEMMA ListRemoveFacts ==
  ASSUME NEW k \in KernelType, NEW t \in Thread,
         \A h \in Head_ : Injective(k.list[h])
  PROVE  LET u == rt_list_remove(k, t)
         IN  /\ u \in KernelType
             /\ \A h \in Head_ : Injective(u.list[h])
             /\ \A h \in Head_ : Members(u.list[h]) = Members(k.list[h]) \ {t}
             /\ \A h \in Head_ :
                  t \notin Members(k.list[h]) => u.list[h] = k.list[h]
             /\ Frame(k, u) /\ u.stat = k.stat /\ u.group = k.group
<1> DEFINE u == rt_list_remove(k, t)
<1>1. \A h \in Head_ : k.list[h] \in Seq(Thread)
  BY DEF KernelType
<1>2. \A h \in Head_ : u.list[h] = Drop(k.list[h], t)
  BY DEF rt_list_remove, KernelType
<1>3. \A h \in Head_ : /\ u.list[h] \in Seq(Thread)
                       /\ Injective(u.list[h])
                       /\ Members(u.list[h]) = Members(k.list[h]) \ {t}
  BY <1>1, <1>2, DropFacts
<1>4. u = [k EXCEPT !.list = [h \in Head_ |-> Drop(k.list[h], t)]]
  BY DEF rt_list_remove
<1>5. [h \in Head_ |-> Drop(k.list[h], t)] \in [Head_ -> Seq(Thread)]
  BY <1>2, <1>3
<1>6. u \in KernelType
  BY <1>4, <1>5 DEF KernelType
<1>7. Frame(k, u) /\ u.stat = k.stat /\ u.group = k.group
  BY <1>4 DEF KernelType, Frame
<1>8. \A h \in Head_ : t \notin Members(k.list[h]) => u.list[h] = k.list[h]
  BY <1>2 DEF Drop
<1> QED BY <1>3, <1>6, <1>7, <1>8

\* Taking a thread off the ready queue, or off any other list, exempts it.
LEMMA RemoveThreadCore ==
  ASSUME NEW k, NEW t \in Thread, Core(k, {})
  PROVE  LET u == rt_schedule_remove_thread(k, t)
         IN  /\ Core(u, {t})
             /\ Frame(k, u) /\ u.stat = k.stat
             /\ u.group \subseteq k.group
             /\ \A h \in Head_ : Members(u.list[h]) = Members(k.list[h]) \ {t}
             /\ \A h \in Head_ :
                  t \notin Members(k.list[h]) => u.list[h] = k.list[h]
<1> DEFINE r == rt_list_remove(k, t)
           u == rt_schedule_remove_thread(k, t)
<1>1. k \in KernelType /\ \A h \in Head_ : Injective(k.list[h])
  BY DEF Core
<1>2. /\ r \in KernelType
      /\ \A h \in Head_ : Injective(r.list[h])
      /\ \A h \in Head_ : Members(r.list[h]) = Members(k.list[h]) \ {t}
      /\ Frame(k, r) /\ r.stat = k.stat /\ r.group = k.group
  BY <1>1, ListRemoveFacts
<1> HIDE DEF r
<1>3. k.prio[t] \in Prio /\ \A p \in Prio : r.list[p] \in Seq(Thread)
  BY <1>1, <1>2 DEF KernelType, Head_
<1>4. r.list[k.prio[t]] = << >> <=> Members(r.list[k.prio[t]]) = {}
  BY <1>3, EmptyMembers
<1>5. u = [r EXCEPT !.group = IF Members(r.list[k.prio[t]]) = {}
                                THEN k.group \ {k.prio[t]} ELSE k.group]
  BY <1>2, <1>4 DEF rt_schedule_remove_thread, r, KernelType
<1>6. /\ u \in KernelType
      /\ Frame(k, u) /\ u.stat = k.stat
      /\ u.list = r.list
      /\ u.group = IF Members(r.list[k.prio[t]]) = {}
                     THEN k.group \ {k.prio[t]} ELSE k.group
  BY ZenonT(60), <1>1, <1>2, <1>5 DEF KernelType, Frame
<1> HIDE DEF u
<1>7. /\ u.stat = k.stat /\ u.prio = k.prio /\ u.timer = k.timer
      /\ u.current = k.current
  BY <1>6 DEF Frame
<1>8. ListsMatchStat(u)
  BY SMTT(30), <1>2, <1>6, <1>7 DEF Core, ListsMatchStat, Head_
<1>9. QueuesDisjoint(u)
  BY <1>2, <1>6 DEF Core, QueuesDisjoint, Head_
<1>10. u.group = {p \in Prio : Members(u.list[p]) # {}}
  <2>1. k.group = {p \in Prio : Members(k.list[p]) # {}}
    BY DEF Core
  <2>2. \A p \in Prio : t \in Members(k.list[p]) => p = k.prio[t]
    BY DEF Core, ListsMatchStat
  <2>3. \A p \in Prio : Members(r.list[p]) = Members(k.list[p]) \ {t}
    BY <1>2 DEF Head_
  <2>4. ASSUME NEW p \in Prio
        PROVE  p \in u.group <=> Members(u.list[p]) # {}
    <3>1. u.list[p] = r.list[p]
      BY <1>6
    <3>2. CASE p = k.prio[t]
      <4>1. u.group = IF Members(r.list[p]) = {} THEN k.group \ {p} ELSE k.group
        BY <1>6, <3>2
      <4> QED BY <4>1, <3>1, <2>1, <2>3
    <3>3. CASE p # k.prio[t]
      <4>1. p \in u.group <=> p \in k.group
        BY <1>6, <3>3
      <4> QED BY <4>1, <3>1, <3>3, <2>1, <2>2, <2>3
    <3> QED BY <3>2, <3>3
  <2>5. u.group \subseteq Prio
    BY <1>6 DEF KernelType
  <2> QED BY <2>4, <2>5
<1>11. Unlinked(u, t)
  BY <1>2, <1>6 DEF Unlinked
<1>12. ASSUME NEW x \in Thread \ {t} PROVE StatOK(u, x)
  <2>1. StatOK(k, x)
    BY DEF Core
  <2>2. k.prio[x] \in Head_
    BY <1>1 DEF KernelType, Head_
  <2> QED BY <1>2, <1>6, <1>7, <2>1, <2>2 DEF StatOK
<1>13. Core(u, {t})
  BY <1>2, <1>6, <1>8, <1>9, <1>10, <1>11, <1>12 DEF Core
<1>14. u.group \subseteq k.group
  BY <1>6
<1>15. \A h \in Head_ : t \notin Members(k.list[h]) => u.list[h] = k.list[h]
  BY <1>1, <1>6, ListRemoveFacts DEF r
<1> QED BY <1>2, <1>6, <1>13, <1>14, <1>15 DEF u

\* Unlinking a thread that is not READY exempts it too.
LEMMA UnlinkCore ==
  ASSUME NEW k, NEW t \in Thread, Core(k, {}), k.stat[t] # "READY"
  PROVE  LET u == rt_list_remove(k, t)
         IN  /\ Core(u, {t})
             /\ Frame(k, u) /\ u.stat = k.stat /\ u.group = k.group
             /\ \A h \in Head_ : Members(u.list[h]) = Members(k.list[h]) \ {t}
             /\ \A h \in Head_ :
                  t \notin Members(k.list[h]) => u.list[h] = k.list[h]
<1> DEFINE u == rt_list_remove(k, t)
<1>1. k \in KernelType /\ \A h \in Head_ : Injective(k.list[h])
  BY DEF Core
<1>2. /\ u \in KernelType
      /\ \A h \in Head_ : Injective(u.list[h])
      /\ \A h \in Head_ : Members(u.list[h]) = Members(k.list[h]) \ {t}
      /\ Frame(k, u) /\ u.stat = k.stat /\ u.group = k.group
  BY <1>1, ListRemoveFacts
<1> HIDE DEF u
<1>3. /\ u.stat = k.stat /\ u.prio = k.prio /\ u.timer = k.timer
      /\ u.current = k.current /\ u.group = k.group
  BY <1>2 DEF Frame
<1>4. ListsMatchStat(u)
  BY <1>2, <1>3 DEF Core, ListsMatchStat, Head_
<1>5. QueuesDisjoint(u)
  BY <1>2 DEF Core, QueuesDisjoint, Head_
<1>6. u.group = {p \in Prio : Members(u.list[p]) # {}}
  <2>1. \A p \in Prio : t \notin Members(k.list[p])
    BY DEF Core, ListsMatchStat
  <2>2. \A p \in Prio : Members(u.list[p]) = Members(k.list[p])
    BY <1>2, <2>1 DEF Head_
  <2> QED BY <1>3, <2>2 DEF Core
<1>7. Unlinked(u, t)
  BY <1>2 DEF Unlinked
<1>8. ASSUME NEW x \in Thread \ {t} PROVE StatOK(u, x)
  <2>1. StatOK(k, x)
    BY DEF Core
  <2>2. k.prio[x] \in Head_
    BY <1>1 DEF KernelType, Head_
  <2> QED BY <1>2, <1>3, <2>1, <2>2 DEF StatOK
<1>9. \A h \in Head_ : t \notin Members(k.list[h]) => u.list[h] = k.list[h]
  BY <1>1, ListRemoveFacts DEF u
<1>10. Core(u, {t})
  BY <1>2, <1>4, <1>5, <1>6, <1>7, <1>8 DEF Core
<1> QED BY <1>2, <1>9, <1>10 DEF u

\* A thread that is in no list may be exempted.
LEMMA ExemptCore ==
  ASSUME NEW k, NEW t \in Thread, Core(k, {}), Unlinked(k, t)
  PROVE  Core(k, {t})
BY DEF Core

\* A RUNNING, INIT or NONE thread is in no list.
LEMMA UnlinkedByStat ==
  ASSUME NEW k, NEW t \in Thread, Core(k, {}),
         k.stat[t] \notin {"READY", "SUSPEND", "CLOSE"}
  PROVE  Unlinked(k, t)
BY DEF Core, ListsMatchStat, Unlinked, Head_

\* The fields of an exempted thread may be set at will.
LEMMA SetFieldsCore ==
  ASSUME NEW k, NEW t \in Thread, Core(k, {t}), NEW u \in KernelType,
         u.list = k.list, u.group = k.group, u.current = k.current,
         \A x \in Thread \ {t} :
           /\ u.stat[x] = k.stat[x] /\ u.prio[x] = k.prio[x]
           /\ u.timer[x] = k.timer[x]
  PROVE  Core(u, {t})
<1>1. k \in KernelType
  BY DEF Core
<1>2. \A h \in Head_ : t \notin Members(k.list[h])
  BY DEF Core, Unlinked
<1>3. \A h \in Head_ : Members(k.list[h]) \subseteq Thread
  BY <1>1 DEF KernelType, Members
<1>4. ListsMatchStat(u)
  <2>1. ListsMatchStat(k)
    BY DEF Core
  <2> QED BY <1>2, <1>3, <2>1 DEF ListsMatchStat, Head_
<1>5. QueuesDisjoint(u) /\ Unlinked(u, t)
  BY DEF Core, QueuesDisjoint, Unlinked
<1>6. ASSUME NEW x \in Thread \ {t} PROVE StatOK(u, x)
  BY DEF Core, StatOK
<1> QED BY <1>4, <1>5, <1>6 DEF Core

\* An exempted thread whose state says that it is in no list is treated.
LEMMA AdmitCore ==
  ASSUME NEW k, NEW t \in Thread, Core(k, {t}), StatOK(k, t)
  PROVE  Core(k, {})
BY DEF Core

\* The fields of the kernel after rt_schedule_insert_thread of a thread other
\* than the current one.
LEMMA InsertThreadFields ==
  ASSUME NEW k \in KernelType, NEW t \in Thread, t # k.current
  PROVE  LET n == rt_schedule_insert_thread(k, t)
         IN  /\ n.current = k.current /\ n.timer = k.timer /\ n.prio = k.prio
             /\ n.lock = k.lock /\ n.err = k.err /\ n.slice = k.slice
             /\ n.stat = [k.stat EXCEPT ![t] = "READY"]
             /\ n.group = k.group \cup {k.prio[t]}
             /\ n.list = [k.list EXCEPT
                            ![k.prio[t]] = Append(k.list[k.prio[t]], t)]
BY DEF rt_schedule_insert_thread, SetStat, rt_list_insert_before, KernelType

\* An exempted thread is put into the ready queue, or goes on running.
LEMMA InsertThreadCore ==
  ASSUME NEW k, NEW t \in Thread, Core(k, {t}), k.timer[t] = Off
  PROVE  Core(rt_schedule_insert_thread(k, t), {})
<1> DEFINE u == rt_schedule_insert_thread(k, t)
<1>1. k \in KernelType
  BY DEF Core
<1>2. CASE t = k.current
  <2>1. u = [k EXCEPT !.stat[t] = "RUNNING"]
    BY <1>2 DEF rt_schedule_insert_thread, SetStat
  <2>2. u \in KernelType
    <3>1. [k.stat EXCEPT ![t] = "RUNNING"] \in [Thread -> Stat]
      BY <1>1 DEF KernelType, Stat
    <3> QED BY <1>1, <2>1, <3>1 DEF KernelType
  <2>3. /\ u.list = k.list /\ u.group = k.group /\ u.current = k.current
        /\ u.prio = k.prio /\ u.timer = k.timer
        /\ u.stat = [k.stat EXCEPT ![t] = "RUNNING"]
    BY <1>1, <2>1 DEF KernelType
  <2> HIDE DEF u
  <2>4. \A x \in Thread \ {t} : u.stat[x] = k.stat[x]
    BY <1>1, <2>3 DEF KernelType
  <2>5. Core(u, {t})
    BY <2>2, <2>3, <2>4, SetFieldsCore
  <2>6. u.stat[t] = "RUNNING"
    BY <1>1, <2>3 DEF KernelType
  <2>7. StatOK(u, t)
    BY <1>2, <2>3, <2>6 DEF StatOK
  <2> QED BY <2>5, <2>7, AdmitCore DEF u
<1>3. CASE t # k.current
  <2> DEFINE p == k.prio[t]
  <2>1. p \in Prio /\ p \in Head_ /\ k.list[p] \in Seq(Thread)
    BY <1>1 DEF KernelType, Head_
  <2>2. t \notin Members(k.list[p]) /\ Injective(k.list[p])
    BY <2>1 DEF Core, Unlinked
  <2>3. /\ Append(k.list[p], t) \in Seq(Thread)
        /\ Injective(Append(k.list[p], t))
        /\ Members(Append(k.list[p], t)) = Members(k.list[p]) \cup {t}
    BY <2>1, <2>2, AppendMembers
  <2>4. u = [k EXCEPT !.stat[t] = "READY",
                      !.list[p] = Append(k.list[p], t),
                      !.group = k.group \cup {p}]
    BY <1>1, <1>3 DEF rt_schedule_insert_thread, SetStat, rt_list_insert_before,
       KernelType
  <2>5. u \in KernelType
    <3>1. [k.stat EXCEPT ![t] = "READY"] \in [Thread -> Stat]
      BY <1>1 DEF KernelType, Stat
    <3>2. [k.list EXCEPT ![p] = Append(k.list[p], t)] \in [Head_ -> Seq(Thread)]
      BY <1>1, <2>3 DEF KernelType
    <3>3. k.group \cup {p} \in SUBSET Prio
      BY <1>1, <2>1 DEF KernelType
    <3> HIDE DEF p
    <3> QED BY <1>1, <2>4, <3>1, <3>2, <3>3 DEF KernelType
  <2>6. /\ u.list = [k.list EXCEPT ![p] = Append(k.list[p], t)]
        /\ u.group = k.group \cup {p} /\ u.current = k.current
        /\ u.prio = k.prio /\ u.timer = k.timer
        /\ u.stat = [k.stat EXCEPT ![t] = "READY"]
    BY <1>1, <2>4 DEF KernelType
  <2> HIDE DEF u
  <2>7. u.stat[t] = "READY" /\ \A x \in Thread \ {t} : u.stat[x] = k.stat[x]
    BY <1>1, <2>6 DEF KernelType
  <2>8. /\ Members(u.list[p]) = Members(k.list[p]) \cup {t}
        /\ Injective(u.list[p])
        /\ \A h \in Head_ \ {p} : u.list[h] = k.list[h]
    BY <1>1, <2>1, <2>3, <2>6 DEF KernelType
  <2> HIDE DEF p
  <2>9. \A h \in Head_ : Injective(u.list[h])
    BY <2>8 DEF Core
  <2>10. \A h \in Head_ : Members(k.list[h]) \subseteq Thread \ {t}
    BY <1>1 DEF KernelType, Members, Core, Unlinked
  <2>11. ListsMatchStat(u)
    <3>1. ListsMatchStat(k)
      BY DEF Core
    <3>2. \A x \in Thread : u.prio[x] = k.prio[x]
      BY <2>6
    <3>3. \A q \in Prio : \A x \in Members(u.list[q]) :
             u.stat[x] = "READY" /\ u.prio[x] = q
      BY <2>1, <2>6, <2>7, <2>8, <2>10, <3>1, <3>2 DEF ListsMatchStat, Head_, p
    <3>4. \A q \in Queue \cup {Defunct} : q \in Head_ \ {p}
      BY <2>1, HeadAssumption DEF Head_
    <3>5. \A q \in Queue \cup {Defunct} : Members(u.list[q]) = Members(k.list[q])
      BY <2>8, <3>4
    <3> QED BY <2>7, <2>10, <3>1, <3>3, <3>4, <3>5 DEF ListsMatchStat
  <2>12. QueuesDisjoint(u)
    <3>1. \A q \in Queue : u.list[q] = k.list[q]
      BY <2>1, <2>8, HeadAssumption DEF Head_
    <3> QED BY <3>1 DEF Core, QueuesDisjoint
  <2>13. u.group = {q \in Prio : Members(u.list[q]) # {}}
    <3>1. k.group = {q \in Prio : Members(k.list[q]) # {}}
      BY DEF Core
    <3>2. \A q \in Prio \ {p} : u.list[q] = k.list[q]
      BY <2>8 DEF Head_
    <3> QED BY <2>1, <2>6, <2>8, <3>1, <3>2
  <2>14. ASSUME NEW x \in Thread PROVE StatOK(u, x)
    <3>1. CASE x = t
      BY <3>1, <2>6, <2>7, <2>8 DEF StatOK, p
    <3>2. CASE x # t
      <4>1. StatOK(k, x)
        BY <3>2 DEF Core
      <4>2. k.prio[x] \in Head_
        BY <1>1 DEF KernelType, Head_
      <4> QED BY <3>2, <4>1, <4>2, <2>6, <2>7, <2>8 DEF StatOK
    <3> QED BY <3>1, <3>2
  <2> QED BY <2>5, <2>9, <2>11, <2>12, <2>13, <2>14 DEF Core, u
<1> QED BY <1>2, <1>3

-----------------------------------------------------------------------------
\* A non-empty set of naturals has a least element, so __rt_ffs finds a priority.
LEMMA SmallestExists ==
  ASSUME NEW G \in SUBSET Nat, G # {}
  PROVE  \E p \in G : \A q \in G : p <= q
<1> DEFINE R == OpToRel(<, Nat)
<1>1. IsWellFoundedOn(R, Nat)
  BY NatLessThanWellFounded
<1>2. \A x, y \in Nat : <<x, y>> \in R <=> x < y
  BY DEF OpToRel
<1> HIDE DEF R
<1>3. PICK x \in G : \A y \in G : <<y, x>> \notin R
  BY <1>1, WFMin
<1>4. ASSUME NEW q \in G PROVE x <= q
  <2>1. x \in Nat /\ q \in Nat
    OBVIOUS
  <2>2. ~ (q < x)
    BY <1>2, <1>3, <2>1
  <2> QED BY <2>1, <2>2
<1> QED BY <1>4

\* The head of the highest non-empty ready list is a READY thread.
LEMMA HighestReady ==
  ASSUME NEW k, Core(k, {}), k.group # {}
  PROVE  LET t == get_highest_priority_thread(k)
         IN  /\ t \in Thread /\ k.stat[t] = "READY"
             /\ k.prio[t] = Highest(k)
             /\ Highest(k) \in Prio
             /\ \A q \in k.group : Highest(k) <= q
<1> DEFINE p == Highest(k)
           t == get_highest_priority_thread(k)
<1>1. k \in KernelType
  BY DEF Core
<1>2. k.group \in SUBSET Nat
  BY <1>1 DEF KernelType, Prio
<1>3. p \in k.group /\ \A q \in k.group : p <= q
  BY <1>2, SmallestExists DEF Highest
<1>4. p \in Prio
  BY <1>1, <1>3 DEF KernelType
<1> HIDE DEF p
<1>5. Members(k.list[p]) # {}
  BY <1>3 DEF Core
<1>6. k.list[p] \in Seq(Thread)
  BY <1>1, <1>4 DEF KernelType, Head_
<1>7. k.list[p] # << >>
  BY <1>5, <1>6, EmptyMembers
<1>8. 1 \in DOMAIN k.list[p] /\ Head(k.list[p]) = k.list[p][1]
  BY <1>6, <1>7
<1>9. t \in Members(k.list[p])
  BY <1>8 DEF get_highest_priority_thread, p, Members
<1>10. t \in Thread
  BY <1>6, <1>9 DEF Members
<1>11. k.stat[t] = "READY" /\ k.prio[t] = p
  BY <1>4, <1>9 DEF Core, ListsMatchStat
<1> QED BY <1>3, <1>4, <1>10, <1>11 DEF p

\* Giving the CPU to the thread rt_current_thread already names.
LEMMA DispatchCore ==
  ASSUME NEW k, NEW t \in Thread, Core(k, {}), t = k.current, k.timer[t] = Off
  PROVE  LET u == Dispatch(k, t)
         IN  /\ Core(u, {})
             /\ u.stat = [k.stat EXCEPT ![t] = "RUNNING"]
             /\ Frame(k, u)
             /\ u.group \subseteq k.group
             /\ \A h \in Head_ :
                  t \notin Members(k.list[h]) => u.list[h] = k.list[h]
<1> DEFINE r == rt_schedule_remove_thread(k, t)
           u == Dispatch(k, t)
<1>1. k \in KernelType
  BY DEF Core
<1>2. /\ Core(r, {t})
      /\ Frame(k, r) /\ r.stat = k.stat
      /\ r.group \subseteq k.group
      /\ \A h \in Head_ : t \notin Members(k.list[h]) => r.list[h] = k.list[h]
  BY RemoveThreadCore
<1>3. u = [r EXCEPT !.stat[t] = "RUNNING"]
  BY DEF Dispatch, SetStat
<1> HIDE DEF r
<1>4. r \in KernelType
  BY <1>2 DEF Core
<1>5. /\ r.stat = k.stat /\ r.prio = k.prio /\ r.timer = k.timer
      /\ r.current = k.current
  BY <1>2 DEF Frame
<1>6. [r.stat EXCEPT ![t] = "RUNNING"] \in [Thread -> Stat]
  BY <1>4 DEF KernelType, Stat
<1>7. u \in KernelType
  BY <1>3, <1>4, <1>6 DEF KernelType
<1>8. /\ u.list = r.list /\ u.group = r.group /\ u.current = k.current
      /\ u.prio = k.prio /\ u.timer = k.timer
      /\ u.stat = [k.stat EXCEPT ![t] = "RUNNING"]
  BY <1>3, <1>4, <1>5 DEF KernelType
<1>9. Frame(k, u)
  BY <1>2, <1>3, <1>4 DEF KernelType, Frame
<1> HIDE DEF u
<1>10. u.stat[t] = "RUNNING" /\ \A x \in Thread \ {t} : u.stat[x] = k.stat[x]
  BY <1>1, <1>8 DEF KernelType
<1>11. Core(u, {t})
  <2>1. Core(r, {t})
    BY <1>2
  <2>2. u.list = r.list /\ u.group = r.group /\ u.current = r.current
    BY <1>5, <1>8
  <2>3. \A x \in Thread \ {t} :
          /\ u.stat[x] = r.stat[x] /\ u.prio[x] = r.prio[x]
          /\ u.timer[x] = r.timer[x]
    BY <1>5, <1>8, <1>10
  <2> QED BY <1>7, <2>1, <2>2, <2>3, SetFieldsCore
<1>12. StatOK(u, t)
  BY <1>8, <1>10 DEF StatOK
<1>13. Core(u, {})
  BY <1>11, <1>12, AdmitCore
<1> QED BY <1>2, <1>8, <1>9, <1>13 DEF u

\* What scheduling may change: only READY and RUNNING threads are concerned,
\* lists other than the ready queue stay as they are.
Moves(k, u) ==
  /\ u.timer = k.timer /\ u.prio = k.prio /\ u.lock = k.lock
  /\ u.err = k.err /\ u.slice = k.slice
  /\ \A x \in Thread :
       \/ u.stat[x] = k.stat[x]
       \/ {u.stat[x], k.stat[x]} \subseteq {"READY", "RUNNING"}
  /\ \A q \in Queue \cup {Defunct} : u.list[q] = k.list[q]
  /\ u.current = k.current \/ k.stat[u.current] = "READY"

CurrentOK(k) == k.stat[k.current] \in {"RUNNING", "SUSPEND", "CLOSE"}

\* The context switch of rt_schedule keeps the invariant, and the thread it
\* switches to has the highest priority.
LEMMA SwitchToCore ==
  ASSUME NEW k, Core(k, {}), k.group # {}, ~ Keeps(k), CurrentOK(k)
  PROVE  LET u == SwitchTo(k, get_highest_priority_thread(k))
         IN  Core(u, {}) /\ CurrentOK(u) /\ Moves(k, u) /\ TopRuns(u)
<1> DEFINE to   == get_highest_priority_thread(k)
           from == k.current
           s    == [k EXCEPT !.current = to]
           y    == [s EXCEPT !.yld[from] = FALSE]
           n    == rt_schedule_insert_thread(y, from)
           m    == IF k.stat[from] = "RUNNING" THEN n ELSE s
           u    == Dispatch(m, to)
<1>1. k \in KernelType
  BY DEF Core
<1>2. from \in Thread
  BY <1>1 DEF KernelType
<1>3. /\ to \in Thread /\ k.stat[to] = "READY" /\ k.prio[to] = Highest(k)
      /\ Highest(k) \in Prio /\ \A q \in k.group : Highest(k) <= q
  BY HighestReady
<1>4. SwitchTo(k, to) = u
  BY DEF SwitchTo
<1> HIDE DEF to
<1>5. from # to
  BY <1>3 DEF CurrentOK
<1>6. /\ s \in KernelType /\ s.list = k.list /\ s.group = k.group
      /\ s.stat = k.stat /\ s.prio = k.prio /\ s.timer = k.timer
      /\ s.current = to /\ s.lock = k.lock /\ s.err = k.err /\ s.slice = k.slice
  BY <1>1, <1>3 DEF KernelType
<1>7. /\ y \in KernelType /\ y.list = k.list /\ y.group = k.group
      /\ y.stat = k.stat /\ y.prio = k.prio /\ y.timer = k.timer
      /\ y.current = to /\ y.lock = k.lock /\ y.err = k.err /\ y.slice = k.slice
  BY <1>1, <1>2, <1>3 DEF KernelType
<1> HIDE DEF s, y
\* The thread that gives up the CPU.
<1>8. /\ Core(m, {}) /\ m.current = to
      /\ m.timer = k.timer /\ m.prio = k.prio /\ m.lock = k.lock
      /\ m.err = k.err /\ m.slice = k.slice
      /\ \A x \in Thread \ {from} : m.stat[x] = k.stat[x]
      /\ \/ m.stat[from] = k.stat[from]
         \/ k.stat[from] = "RUNNING" /\ m.stat[from] = "READY"
      /\ \A q \in Queue \cup {Defunct} : m.list[q] = k.list[q]
      /\ \A q \in m.group : k.prio[to] <= q
  <2>1. CASE k.stat[from] = "RUNNING"
    <3>1. Unlinked(k, from)
      BY <1>2, <2>1, UnlinkedByStat
    <3>2. Core(y, {from})
      <4>1. \A x \in Thread \ {from} : StatOK(k, x) /\ k.stat[x] # "RUNNING"
        BY DEF Core, StatOK
      <4>2. \A x \in Thread \ {from} : StatOK(y, x)
        BY <1>7, <4>1 DEF StatOK
      <4>3. ListsMatchStat(y) /\ QueuesDisjoint(y) /\ Unlinked(y, from)
        BY <1>7, <3>1 DEF Core, ListsMatchStat, QueuesDisjoint, Unlinked
      <4>4. \A h \in Head_ : Injective(y.list[h])
        BY <1>7 DEF Core
      <4>5. y.group = {p \in Prio : Members(y.list[p]) # {}}
        BY <1>7 DEF Core
      <4> QED BY <1>7, <4>2, <4>3, <4>4, <4>5 DEF Core
    <3>3. k.timer[from] = Off
      BY <1>2, <2>1 DEF Core, StatOK
    <3>4. Core(n, {})
      BY <1>2, <1>7, <3>2, <3>3, InsertThreadCore
    <3>5. from \in Thread /\ from # y.current
      BY <1>2, <1>5, <1>7
    <3>6. /\ n.current = to /\ n.timer = k.timer /\ n.prio = k.prio
          /\ n.lock = k.lock /\ n.err = k.err /\ n.slice = k.slice
          /\ n.stat = [k.stat EXCEPT ![from] = "READY"]
          /\ n.group = k.group \cup {k.prio[from]}
          /\ n.list = [k.list EXCEPT
                         ![k.prio[from]] = Append(k.list[k.prio[from]], from)]
      <4>1. y \in KernelType
        BY <1>7
      <4>2. /\ n.current = y.current /\ n.timer = y.timer /\ n.prio = y.prio
            /\ n.lock = y.lock /\ n.err = y.err /\ n.slice = y.slice
            /\ n.stat = [y.stat EXCEPT ![from] = "READY"]
            /\ n.group = y.group \cup {y.prio[from]}
            /\ n.list = [y.list EXCEPT
                           ![y.prio[from]] = Append(y.list[y.prio[from]], from)]
        BY <4>1, <3>5, InsertThreadFields
      <4> HIDE DEF n, m, u, from
      <4> QED BY <1>7, <4>2
    <3>7. k.prio[from] \in Prio
      BY <1>1, <1>2 DEF KernelType
    <3>8. \A q \in Queue \cup {Defunct} : q \in Head_ /\ q # k.prio[from]
      BY <3>7, HeadAssumption DEF Head_
    <3>9. \A q \in Queue \cup {Defunct} : n.list[q] = k.list[q]
      BY <1>1, <3>6, <3>8 DEF KernelType
    <3>10. k.prio[to] <= k.prio[from]
      BY <1>3, <2>1, <3>7 DEF Keeps, Prio
    <3>11. \A q \in n.group : k.prio[to] <= q
      BY <1>3, <3>6, <3>10
    <3>12. /\ n.stat[from] = "READY"
           /\ \A x \in Thread \ {from} : n.stat[x] = k.stat[x]
      BY <1>1, <1>2, <3>6 DEF KernelType
    <3>13. m = n
      BY <2>1
    <3> HIDE DEF n, m
    <3> QED BY <2>1, <3>4, <3>6, <3>9, <3>11, <3>12, <3>13
  <2>2. CASE k.stat[from] # "RUNNING"
    <3>1. \A x \in Thread : StatOK(k, x) /\ k.stat[x] # "RUNNING"
      BY <2>2 DEF Core, StatOK
    <3>2. \A x \in Thread : StatOK(s, x)
      BY <1>6, <3>1 DEF StatOK
    <3>3. ListsMatchStat(s) /\ QueuesDisjoint(s)
      BY <1>6 DEF Core, ListsMatchStat, QueuesDisjoint
    <3>4. \A h \in Head_ : Injective(s.list[h])
      BY <1>6 DEF Core
    <3>5. s.group = {p \in Prio : Members(s.list[p]) # {}}
      BY <1>6 DEF Core
    <3>6. Core(s, {})
      BY <1>6, <3>2, <3>3, <3>4, <3>5 DEF Core
    <3>7. m = s
      BY <2>2
    <3> HIDE DEF m
    <3> QED BY <1>3, <1>6, <3>6, <3>7
  <2> QED BY <2>1, <2>2
<1> HIDE DEF m
\* The thread that gets it.
<1>9. m.stat[to] = "READY" /\ m \in KernelType
  BY <1>3, <1>5, <1>8 DEF Core
<1>10. m.timer[to] = Off
  BY <1>3, <1>8, <1>9 DEF Core, StatOK
<1>11. /\ Core(u, {})
       /\ u.stat = [m.stat EXCEPT ![to] = "RUNNING"]
       /\ Frame(m, u)
       /\ u.group \subseteq m.group
       /\ \A h \in Head_ :
            to \notin Members(m.list[h]) => u.list[h] = m.list[h]
  <2>1. to \in Thread /\ Core(m, {}) /\ to = m.current /\ m.timer[to] = Off
    BY <1>3, <1>8, <1>10
  <2> HIDE DEF from, n
  <2> QED BY <2>1, DispatchCore
<1> HIDE DEF u
<1>12. /\ u.current = to /\ u.timer = k.timer /\ u.prio = k.prio
       /\ u.lock = k.lock /\ u.err = k.err /\ u.slice = k.slice
  BY <1>8, <1>11 DEF Frame
<1>13. /\ u.stat[to] = "RUNNING"
       /\ \A x \in Thread \ {to} : u.stat[x] = m.stat[x]
  BY <1>3, <1>9, <1>11 DEF KernelType
<1>14. \A q \in Queue \cup {Defunct} : u.list[q] = k.list[q]
  <2>1. \A q \in Queue \cup {Defunct} : q \in Head_ /\ to \notin Members(m.list[q])
    BY <1>8, <1>9 DEF Core, ListsMatchStat, Head_
  <2> QED BY <1>8, <1>11, <2>1
<1>15. ASSUME NEW x \in Thread
       PROVE  \/ u.stat[x] = k.stat[x]
              \/ {u.stat[x], k.stat[x]} \subseteq {"READY", "RUNNING"}
  BY <1>3, <1>8, <1>13
<1>16. Moves(k, u)
  BY <1>3, <1>12, <1>14, <1>15 DEF Moves
<1>17. CurrentOK(u) /\ TopRuns(u)
  BY <1>8, <1>11, <1>12, <1>13 DEF CurrentOK, TopRuns
<1> QED BY <1>4, <1>11, <1>16, <1>17 DEF to

\* rt_schedule keeps the invariant; unless the scheduler is locked, a thread of
\* the highest ready priority runs when it returns.
LEMMA ScheduleCore ==
  ASSUME NEW k, Core(k, {}), CurrentOK(k)
  PROVE  LET u == rt_schedule(k)
         IN  /\ Core(u, {}) /\ CurrentOK(u) /\ Moves(k, u)
             /\ k.lock = 0 => TopRuns(u)
<1> DEFINE u == rt_schedule(k)
<1>1. k \in KernelType
  BY DEF Core
<1>2. Moves(k, k)
  BY DEF Moves
<1>3. CASE k.lock # 0 \/ k.group = {}
  <2>1. u = k
    BY <1>3 DEF rt_schedule
  <2>2. k.lock = 0 => TopRuns(k)
    BY <1>3 DEF TopRuns
  <2> QED BY <1>2, <2>1, <2>2
<1>4. CASE k.lock = 0 /\ k.group # {} /\ Keeps(k)
  <2> DEFINE c == k.current
             d == Dispatch(k, c)
  <2>1. u = d
    BY <1>4 DEF rt_schedule
  <2>2. /\ c \in Thread /\ k.stat[c] = "RUNNING"
    BY <1>1, <1>4 DEF KernelType, Keeps
  <2>3. k.timer[c] = Off
    BY <2>2 DEF Core, StatOK
  <2>4. /\ Core(d, {})
        /\ d.stat = [k.stat EXCEPT ![c] = "RUNNING"]
        /\ Frame(k, d)
        /\ d.group \subseteq k.group
        /\ \A h \in Head_ : c \notin Members(k.list[h]) => d.list[h] = k.list[h]
    BY <2>2, <2>3, DispatchCore
  <2> HIDE DEF d
  <2>5. /\ d.current = c /\ d.timer = k.timer /\ d.prio = k.prio
        /\ d.lock = k.lock /\ d.err = k.err /\ d.slice = k.slice
    BY <2>4 DEF Frame
  <2>6. \A x \in Thread : d.stat[x] = k.stat[x]
    BY <1>1, <2>2, <2>4 DEF KernelType
  <2>7. \A q \in Queue \cup {Defunct} : d.list[q] = k.list[q]
    <3>1. Unlinked(k, c)
      BY <2>2, UnlinkedByStat
    <3> QED BY <2>4, <3>1 DEF Unlinked, Head_
  <2>8. Moves(k, d)
    BY <2>5, <2>7, <2>6 DEF Moves
  <2>9. CurrentOK(d)
    BY <2>2, <2>5, <2>6 DEF CurrentOK
  <2>10. TopRuns(d)
    <3>1. Highest(k) \in Prio /\ \A q \in k.group : Highest(k) <= q
      BY <1>4, HighestReady
    <3>2. k.prio[c] \in Prio /\ k.prio[c] <= Highest(k)
      BY <1>1, <1>4, <2>2, <3>1 DEF Keeps, KernelType, Prio
    <3>3. k.group \subseteq Prio
      BY <1>1 DEF KernelType
    <3>4. \A q \in d.group : k.prio[c] <= q
      BY <2>4, <3>1, <3>2, <3>3 DEF Prio
    <3> QED BY <2>5, <3>4 DEF TopRuns
  <2> QED BY <2>1, <2>4, <2>8, <2>9, <2>10
<1>5. CASE k.lock = 0 /\ k.group # {} /\ ~ Keeps(k)
  <2>1. u = SwitchTo(k, get_highest_priority_thread(k))
    BY <1>5 DEF rt_schedule
  <2> QED BY <1>5, <2>1, SwitchToCore
<1> QED BY <1>3, <1>4, <1>5

-----------------------------------------------------------------------------
(***************************************************************************)
(* What the other operations keep.  Local(k, u, t): only thread t has      *)
(* changed, and it may have left a list other than the ready queue.        *)
(***************************************************************************)
Local(k, u, t) ==
  /\ u.current = k.current /\ u.lock = k.lock
  /\ \A x \in Thread \ {t} :
       /\ u.stat[x] = k.stat[x] /\ u.timer[x] = k.timer[x]
       /\ u.prio[x] = k.prio[x] /\ u.err[x] = k.err[x]
       /\ \A h \in Head_ : x \in Members(u.list[h]) <=> x \in Members(k.list[h])
  /\ \A h \in Queue \cup {Defunct} : Members(u.list[h]) \subseteq Members(k.list[h])

(***************************************************************************)
(* Steady(k, u, X): what a thread that waits sees of a step.  The threads  *)
(* outside X keep their error and stay in the suspend lists they are in;   *)
(* no thread joins one.                                                    *)
(***************************************************************************)
Steady(k, u, X) ==
  /\ u.lock = k.lock
  /\ \A x \in Thread \ X :
       /\ u.err[x] = k.err[x]
       /\ \/ u.stat[x] = k.stat[x]
          \/ {u.stat[x], k.stat[x]} \subseteq {"READY", "RUNNING"}
       /\ \A q \in Queue : x \in Members(u.list[q]) <=> x \in Members(k.list[q])
  /\ \A q \in Queue : Members(u.list[q]) \subseteq Members(k.list[q])

(***************************************************************************)
(* Untouched(k, u, t): the waiters keep their order in the suspend lists   *)
(* and the timers of all threads but t stay as they are.                   *)
(***************************************************************************)
Untouched(k, u, t) ==
  /\ \A q \in Queue : u.list[q] = k.list[q]
  /\ \A x \in Thread \ {t} : u.timer[x] = k.timer[x]

\* A local change and a context switch are steady, and so is one after the
\* other.
LEMMA LocalSteady ==
  ASSUME NEW k, NEW u, NEW t, Local(k, u, t)
  PROVE  Steady(k, u, {t})
BY DEF Local, Steady, Head_

\* A context switch disturbs nobody's waiting.
LEMMA MovesSteady ==
  ASSUME NEW k, NEW u, NEW X, Moves(k, u)
  PROVE  Steady(k, u, X)
BY DEF Moves, Steady

\* One step after another.
LEMMA SteadyTrans ==
  ASSUME NEW k, NEW u, NEW v, NEW X, Steady(k, u, X), Steady(u, v, X)
  PROVE  Steady(k, v, X)
<1>1. \A x \in Thread \ X : \A q \in Queue :
        x \in Members(v.list[q]) <=> x \in Members(k.list[q])
  BY DEF Steady
<1>2. \A x \in Thread \ X :
        \/ v.stat[x] = k.stat[x]
        \/ {v.stat[x], k.stat[x]} \subseteq {"READY", "RUNNING"}
  BY DEF Steady
<1> QED BY <1>1, <1>2 DEF Steady

\* A step about another thread leaves a held thread alone.
LEMMA HeldLocal ==
  ASSUME NEW k, NEW u, NEW t, NEW x \in Thread \ {t}, Local(k, u, t), Held(k, x)
  PROVE  Held(u, x)
BY DEF Local, Held, Unlinked

\* A context switch leaves a held thread alone.
LEMMA HeldMoves ==
  ASSUME NEW k, NEW u, NEW x \in Thread, Moves(k, u), Core(u, {}), Held(k, x)
  PROVE  Held(u, x)
<1>1. u.stat[x] = k.stat[x] /\ u.timer[x] = Off
  BY DEF Moves, Held
<1>2. x # u.current
  BY DEF Moves, Held
<1>3. \A p \in Prio : x \notin Members(u.list[p])
  BY <1>1 DEF Core, ListsMatchStat, Held
<1>4. \A q \in Queue \cup {Defunct} : x \notin Members(u.list[q])
  BY DEF Moves, Held, Unlinked, Head_
<1> QED BY <1>1, <1>2, <1>3, <1>4 DEF Held, Unlinked, Head_

\* Setting fields of one unlinked thread is a local change.
LEMMA SetFieldsLocal ==
  ASSUME NEW k, NEW t \in Thread, Core(k, {t}), NEW u \in KernelType,
         u.list = k.list, u.group = k.group, u.current = k.current,
         u.lock = k.lock,
         \A x \in Thread \ {t} :
           /\ u.stat[x] = k.stat[x] /\ u.prio[x] = k.prio[x]
           /\ u.timer[x] = k.timer[x] /\ u.err[x] = k.err[x]
  PROVE  Core(u, {t}) /\ Local(k, u, t)
<1>1. Core(u, {t})
  BY SetFieldsCore
<1>2. Local(k, u, t)
  BY DEF Local
<1> QED BY <1>1, <1>2

\* Two steps about one thread are a step about that thread.
LEMMA LocalTrans ==
  ASSUME NEW k, NEW u, NEW v, NEW t, Local(k, u, t), Local(u, v, t)
  PROVE  Local(k, v, t)
<1>1. \A x \in Thread \ {t} : \A h \in Head_ :
        x \in Members(v.list[h]) <=> x \in Members(k.list[h])
  BY DEF Local
<1> QED BY ZenonT(60), <1>1 DEF Local

\* rt_schedule_remove_thread is about one thread only.
LEMMA RemoveThreadLocal ==
  ASSUME NEW k, NEW t \in Thread, Core(k, {})
  PROVE  Local(k, rt_schedule_remove_thread(k, t), t)
<1> DEFINE u == rt_schedule_remove_thread(k, t)
<1>1. /\ Frame(k, u) /\ u.stat = k.stat
      /\ \A h \in Head_ : Members(u.list[h]) = Members(k.list[h]) \ {t}
  BY RemoveThreadCore
<1> HIDE DEF u
<1>2. Queue \cup {Defunct} \subseteq Head_
  BY DEF Head_
<1> QED BY <1>1, <1>2 DEF Local, Frame, u

\* rt_list_remove of a thread that is not READY is about that thread only.
LEMMA UnlinkLocal ==
  ASSUME NEW k, NEW t \in Thread, Core(k, {}), k.stat[t] # "READY"
  PROVE  Local(k, rt_list_remove(k, t), t)
<1> DEFINE u == rt_list_remove(k, t)
<1>1. /\ Frame(k, u) /\ u.stat = k.stat
      /\ \A h \in Head_ : Members(u.list[h]) = Members(k.list[h]) \ {t}
  BY ZenonT(60), UnlinkCore
<1> HIDE DEF u
<1>2. Queue \cup {Defunct} \subseteq Head_
  BY DEF Head_
<1> QED BY <1>1, <1>2 DEF Local, Frame, u

\* rt_schedule_insert_thread is about one thread only, and makes it READY or,
\* if it has the CPU, RUNNING.
LEMMA InsertThreadLocal ==
  ASSUME NEW k, NEW t \in Thread, Core(k, {t})
  PROVE  LET u == rt_schedule_insert_thread(k, t)
         IN  /\ Local(k, u, t)
             /\ u.stat[t] = IF t = k.current THEN "RUNNING" ELSE "READY"
<1> DEFINE u == rt_schedule_insert_thread(k, t)
           p == k.prio[t]
<1>1. k \in KernelType
  BY DEF Core
<1>2. CASE t = k.current
  <2>1. u = [k EXCEPT !.stat[t] = "RUNNING"]
    BY <1>2 DEF rt_schedule_insert_thread, SetStat
  <2> QED BY <1>1, <1>2, <2>1 DEF KernelType, Local
<1>3. CASE t # k.current
  <2>1. /\ u.current = k.current /\ u.timer = k.timer /\ u.prio = k.prio
        /\ u.lock = k.lock /\ u.err = k.err
        /\ u.stat = [k.stat EXCEPT ![t] = "READY"]
        /\ u.list = [k.list EXCEPT ![p] = Append(k.list[p], t)]
    BY <1>1, <1>3, InsertThreadFields
  <2> HIDE DEF u
  <2>2. p \in Prio /\ p \in Head_ /\ k.list[p] \in Seq(Thread)
    BY <1>1 DEF KernelType, Head_
  <2>3. t \notin Members(k.list[p]) /\ Injective(k.list[p])
    BY <2>2 DEF Core, Unlinked
  <2>4. Members(Append(k.list[p], t)) = Members(k.list[p]) \cup {t}
    BY <2>2, <2>3, AppendMembers
  <2>5. /\ u.list[p] = Append(k.list[p], t)
        /\ \A h \in Head_ \ {p} : u.list[h] = k.list[h]
    BY <1>1, <2>1, <2>2 DEF KernelType
  <2> HIDE DEF p
  <2>6. \A x \in Thread \ {t} : \A h \in Head_ :
          x \in Members(u.list[h]) <=> x \in Members(k.list[h])
    BY <2>4, <2>5
  <2>7. \A h \in Queue \cup {Defunct} : u.list[h] = k.list[h]
    BY <2>2, <2>5, HeadAssumption DEF Head_
  <2>8. u.stat[t] = "READY" /\ \A x \in Thread \ {t} : u.stat[x] = k.stat[x]
    BY <1>1, <2>1 DEF KernelType
  <2> QED BY <1>3, <2>1, <2>6, <2>7, <2>8 DEF Local, u
<1> QED BY <1>2, <1>3

-----------------------------------------------------------------------------
(***************************************************************************)
(* The operations of thread.c.                                             *)
(***************************************************************************)
LEMMA SuspendBodyCore ==
  ASSUME NEW k, NEW t \in Thread, Core(k, {}), CurrentOK(k)
  PROVE  LET u == SuspendBody(k, t)
         IN  /\ Core(u, {}) /\ CurrentOK(u) /\ Local(k, u, t)
             /\ u.stat[t] = "SUSPEND" /\ u.timer[t] = Off /\ Unlinked(u, t)
             /\ u.group \subseteq k.group /\ u.err = k.err
<1> DEFINE r == rt_schedule_remove_thread(k, t)
           u == SuspendBody(k, t)
<1>1. Core(r, {t}) /\ Frame(k, r) /\ r.stat = k.stat /\ r.group \subseteq k.group
  BY RemoveThreadCore
<1>2. Local(k, r, t)
  BY RemoveThreadLocal
<1>3. u = [[r EXCEPT !.stat[t] = "SUSPEND"] EXCEPT !.timer[t] = Off]
  BY DEF SuspendBody, SetStat, rt_timer_stop
<1> HIDE DEF r
<1>4. r \in KernelType
  BY <1>1 DEF Core
<1>5. u \in KernelType
  <2>1. [r.stat EXCEPT ![t] = "SUSPEND"] \in [Thread -> Stat]
    BY <1>4 DEF KernelType, Stat
  <2>2. [r.timer EXCEPT ![t] = Off] \in [Thread -> Nat \cup {Off}]
    BY <1>4 DEF KernelType
  <2> QED BY <1>3, <1>4, <2>1, <2>2 DEF KernelType
<1>6. /\ u.list = r.list /\ u.group = r.group /\ u.current = r.current
      /\ u.lock = r.lock /\ u.prio = r.prio /\ u.err = r.err
      /\ u.stat = [r.stat EXCEPT ![t] = "SUSPEND"]
      /\ u.timer = [r.timer EXCEPT ![t] = Off]
  BY <1>3, <1>4 DEF KernelType
<1> HIDE DEF u
<1>7. u.stat[t] = "SUSPEND" /\ u.timer[t] = Off
  BY <1>4, <1>6 DEF KernelType
<1>8. \A x \in Thread \ {t} : /\ u.stat[x] = r.stat[x] /\ u.prio[x] = r.prio[x]
                              /\ u.timer[x] = r.timer[x] /\ u.err[x] = r.err[x]
  BY <1>4, <1>6 DEF KernelType
<1>9. Core(u, {t}) /\ Local(r, u, t)
  BY <1>1, <1>5, <1>6, <1>8, SetFieldsLocal
<1>10. Core(u, {})
  BY <1>7, <1>9, AdmitCore DEF StatOK
<1>11. Local(k, u, t)
  BY <1>2, <1>9, LocalTrans
<1>12. CurrentOK(u)
  BY <1>7, <1>11 DEF CurrentOK, Local, Core, KernelType
<1>13. Unlinked(u, t)
  BY <1>9 DEF Core
<1> QED BY <1>1, <1>6, <1>7, <1>10, <1>11, <1>12, <1>13 DEF u, Frame

\* rt_thread_sleep's critical section: the timer of the suspended current thread.
LEMMA TimerStartCore ==
  ASSUME NEW k, NEW t \in Thread, NEW d \in Nat, Core(k, {}), CurrentOK(k),
         k.stat[t] = "SUSPEND"
  PROVE  LET u == rt_timer_start(k, t, d)
         IN  /\ Core(u, {}) /\ CurrentOK(u) /\ Local(k, u, t)
             /\ u.group = k.group /\ u.stat = k.stat
             /\ u.list = k.list /\ u.err = k.err
<1> DEFINE u == rt_timer_start(k, t, d)
<1>1. k \in KernelType
  BY DEF Core
<1>2. [k.timer EXCEPT ![t] = d] \in [Thread -> Nat \cup {Off}]
  BY <1>1 DEF KernelType
<1>3. u \in KernelType
  BY <1>1, <1>2 DEF rt_timer_start, KernelType
<1>4. /\ u.list = k.list /\ u.group = k.group /\ u.current = k.current
      /\ u.lock = k.lock /\ u.prio = k.prio /\ u.stat = k.stat
      /\ u.err = k.err
      /\ \A x \in Thread \ {t} : u.timer[x] = k.timer[x]
  BY <1>1 DEF rt_timer_start, KernelType
<1> HIDE DEF u
<1>5. \A x \in Thread : StatOK(u, x)
  BY <1>4 DEF Core, StatOK
<1>6. ListsMatchStat(u) /\ QueuesDisjoint(u)
  BY <1>4 DEF Core, ListsMatchStat, QueuesDisjoint
<1>7. \A h \in Head_ : Injective(u.list[h])
  BY <1>4 DEF Core
<1>8. u.group = {p \in Prio : Members(u.list[p]) # {}}
  BY <1>4 DEF Core
<1>9. Core(u, {})
  BY <1>3, <1>5, <1>6, <1>7, <1>8 DEF Core
<1>10. CurrentOK(u) /\ Local(k, u, t)
  BY <1>4 DEF CurrentOK, Local
<1> QED BY <1>4, <1>9, <1>10 DEF u

\* The critical section of rt_thread_resume, on a thread in no list.
LEMMA ResumeUnlinkCore ==
  ASSUME NEW k, NEW t \in Thread, Core(k, {}), Held(k, t)
  PROVE  LET u == ResumeUnlink(k, t)
         IN  /\ Core(u, {}) /\ Local(k, u, t) /\ Held(u, t)
             /\ u.stat = k.stat /\ u.group = k.group
<1> DEFINE r == rt_list_remove(k, t)
           u == ResumeUnlink(k, t)
<1>1. k.stat[t] # "READY"
  BY DEF Held
<1>2. Core(r, {t}) /\ Frame(k, r) /\ r.stat = k.stat /\ r.group = k.group
  BY <1>1, UnlinkCore
<1>3. Local(k, r, t)
  BY <1>1, UnlinkLocal
<1>4. u = [r EXCEPT !.timer[t] = Off]
  BY DEF ResumeUnlink, rt_timer_stop
<1> HIDE DEF r
<1>5. r \in KernelType
  BY <1>2 DEF Core
<1>6. [r.timer EXCEPT ![t] = Off] \in [Thread -> Nat \cup {Off}]
  BY <1>5 DEF KernelType
<1>7. u \in KernelType
  BY <1>4, <1>5, <1>6 DEF KernelType
<1>8. /\ u.list = r.list /\ u.group = r.group /\ u.current = r.current
      /\ u.lock = r.lock /\ u.prio = r.prio /\ u.stat = r.stat
      /\ u.timer = [r.timer EXCEPT ![t] = Off] /\ u.err = r.err
  BY <1>4, <1>5 DEF KernelType
<1> HIDE DEF u
<1>9. u.timer[t] = Off /\ \A x \in Thread \ {t} : u.timer[x] = r.timer[x]
  BY <1>5, <1>8 DEF KernelType
<1>10. Core(u, {t}) /\ Local(r, u, t)
  BY <1>2, <1>7, <1>8, <1>9, SetFieldsLocal
<1>11. u.stat = k.stat /\ u.current = k.current /\ u.group = k.group
  BY <1>2, <1>8 DEF Frame
<1>12. StatOK(u, t)
  BY <1>9, <1>11 DEF StatOK, Held
<1>13. Core(u, {})
  BY <1>10, <1>12, AdmitCore
<1>14. Local(k, u, t)
  BY <1>3, <1>10, LocalTrans
<1>15. Unlinked(u, t)
  BY <1>10 DEF Core
<1>16. Held(u, t)
  BY <1>9, <1>11, <1>15 DEF Held
<1> QED BY <1>11, <1>13, <1>14, <1>16 DEF u

\* Making a thread ready that is in no list.
LEMMA InsertHeldCore ==
  ASSUME NEW k, NEW t \in Thread, Core(k, {}), CurrentOK(k), Held(k, t)
  PROVE  LET u == rt_schedule_insert_thread(k, t)
         IN  /\ Core(u, {}) /\ CurrentOK(u) /\ Local(k, u, t)
             /\ u.stat[t] = "READY"
<1> DEFINE u == rt_schedule_insert_thread(k, t)
<1>1. Core(k, {t}) /\ k.timer[t] = Off /\ t # k.current
  BY ExemptCore DEF Held
<1>2. Core(u, {})
  BY <1>1, InsertThreadCore
<1>3. Local(k, u, t) /\ u.stat[t] = "READY"
  BY <1>1, InsertThreadLocal
<1> HIDE DEF u
<1>4. CurrentOK(u)
  BY <1>1, <1>3 DEF Local, CurrentOK, Core, KernelType
<1> QED BY <1>2, <1>3, <1>4 DEF u

\* rt_thread_timeout up to its call of rt_schedule.
Wake(k, t) ==
  rt_schedule_insert_thread(
    rt_list_remove([rt_timer_stop(k, t) EXCEPT !.err[t] = "ETIMEOUT"], t), t)

\* rt_thread_timeout up to its call of rt_schedule: a SUSPENDed thread becomes
\* ready and the invariant is kept.
LEMMA WakeCore ==
  ASSUME NEW k, NEW t \in Thread, Core(k, {}), CurrentOK(k),
         k.stat[t] = "SUSPEND"
  PROVE  LET u == Wake(k, t)
         IN  /\ Core(u, {}) /\ CurrentOK(u) /\ Local(k, u, t)
             /\ u.stat[t] \in {"READY", "RUNNING"}
             /\ rt_thread_timeout(k, t) = rt_schedule(u)
<1> DEFINE e == [rt_timer_stop(k, t) EXCEPT !.err[t] = "ETIMEOUT"]
           r == rt_list_remove(e, t)
           u == rt_schedule_insert_thread(r, t)
<1>1. k \in KernelType
  BY DEF Core
<1>2. e \in KernelType
  <2>1. [k.timer EXCEPT ![t] = Off] \in [Thread -> Nat \cup {Off}]
    BY <1>1 DEF KernelType
  <2>2. [k.err EXCEPT ![t] = "ETIMEOUT"] \in [Thread -> Error]
    BY <1>1 DEF KernelType, Error
  <2> QED BY <1>1, <2>1, <2>2 DEF rt_timer_stop, KernelType
<1>3. /\ e.list = k.list /\ e.group = k.group /\ e.current = k.current
      /\ e.lock = k.lock /\ e.prio = k.prio /\ e.stat = k.stat
      /\ e.timer[t] = Off /\ \A x \in Thread \ {t} : e.timer[x] = k.timer[x]
      /\ \A x \in Thread \ {t} : e.err[x] = k.err[x]
  BY <1>1 DEF rt_timer_stop, KernelType
<1>4. rt_thread_timeout(k, t) = rt_schedule(u) /\ Wake(k, t) = u
  BY DEF rt_thread_timeout, Wake
<1> HIDE DEF e
<1>5. Core(e, {})
  <2>1. \A x \in Thread : StatOK(e, x)
    BY <1>3 DEF Core, StatOK
  <2>2. ListsMatchStat(e) /\ QueuesDisjoint(e)
    BY <1>3 DEF Core, ListsMatchStat, QueuesDisjoint
  <2>3. \A h \in Head_ : Injective(e.list[h])
    BY <1>3 DEF Core
  <2>4. e.group = {p \in Prio : Members(e.list[p]) # {}}
    BY <1>3 DEF Core
  <2> QED BY <1>2, <2>1, <2>2, <2>3, <2>4 DEF Core
<1>6. Local(k, e, t)
  BY <1>3 DEF Local
<1>7. e.stat[t] # "READY"
  BY <1>3
<1>8. Core(r, {t}) /\ Frame(e, r) /\ Local(e, r, t)
  BY <1>5, <1>7, UnlinkCore, UnlinkLocal
<1> HIDE DEF r
<1>9. r.timer[t] = Off
  BY <1>3, <1>8 DEF Frame
<1>10. Core(u, {})
  BY <1>8, <1>9, InsertThreadCore
<1>11. /\ Local(r, u, t)
       /\ u.stat[t] = IF t = r.current THEN "RUNNING" ELSE "READY"
  BY <1>8, InsertThreadLocal
<1> HIDE DEF u
<1>12. Local(k, u, t)
  BY <1>6, <1>8, <1>11, LocalTrans
<1>13. CurrentOK(u)
  <2>1. u.current = k.current /\ r.current = k.current
    BY <1>3, <1>8, <1>12 DEF Local, Frame
  <2>2. u.current \in Thread
    BY <1>1, <2>1 DEF KernelType
  <2>3. CASE t = k.current
    BY <2>1, <2>3, <1>11 DEF CurrentOK
  <2>4. CASE t # k.current
    BY <2>1, <2>2, <2>4, <1>12 DEF CurrentOK, Local
  <2> QED BY <2>3, <2>4
<1> QED BY <1>4, <1>10, <1>11, <1>12, <1>13

\* Changing a priority moves a READY thread to its new list and keeps the
\* invariant.
LEMMA ChangePriorityCore ==
  ASSUME NEW k, NEW t \in Thread, NEW p \in Prio, Core(k, {}), CurrentOK(k)
  PROVE  LET u == ChangePriority(k, t, p)
         IN  /\ Core(u, {}) /\ CurrentOK(u) /\ Local(k, u, t)
             /\ Held(k, t) => Held(u, t)
             /\ u.stat[t] = k.stat[t]
<1> DEFINE u == ChangePriority(k, t, p)
<1>1. k \in KernelType
  BY DEF Core
<1>2. CASE k.stat[t] = "READY"
  <2> DEFINE r == rt_schedule_remove_thread(k, t)
             v == [r EXCEPT !.prio[t] = p]
             n == rt_schedule_insert_thread(v, t)
  <2>1. u = n
    BY <1>2 DEF ChangePriority
  <2>2. Core(r, {t}) /\ Frame(k, r) /\ r.stat = k.stat
    BY RemoveThreadCore
  <2>3. Local(k, r, t)
    BY RemoveThreadLocal
  <2> HIDE DEF r
  <2>4. r \in KernelType
    BY <2>2 DEF Core
  <2>5. [r.prio EXCEPT ![t] = p] \in [Thread -> Prio]
    BY <2>4 DEF KernelType
  <2>6. v \in KernelType
    BY <2>4, <2>5 DEF KernelType
  <2>7. /\ v.list = r.list /\ v.group = r.group /\ v.current = r.current
        /\ v.lock = r.lock /\ v.stat = r.stat /\ v.timer = r.timer
        /\ v.err = r.err
        /\ \A x \in Thread \ {t} : v.prio[x] = r.prio[x]
    BY <2>4 DEF KernelType
  <2> HIDE DEF v
  <2>8. Core(v, {t}) /\ Local(r, v, t)
    BY <2>2, <2>6, <2>7, SetFieldsLocal
  <2>9. k.timer[t] = Off
    BY <1>2 DEF Core, StatOK
  <2>10. v.timer[t] = Off /\ v.current = k.current
    BY <2>2, <2>7, <2>9 DEF Frame
  <2>11. Core(n, {})
    BY <2>8, <2>10, InsertThreadCore
  <2>12. /\ Local(v, n, t)
         /\ n.stat[t] = IF t = v.current THEN "RUNNING" ELSE "READY"
    BY <2>8, InsertThreadLocal
  <2> HIDE DEF n
  <2>13. Local(k, n, t)
    BY <2>3, <2>8, <2>12, LocalTrans
  <2>14. t # k.current
    BY <1>2 DEF CurrentOK
  <2>15. n.stat[t] = "READY"
    BY <2>10, <2>12, <2>14
  <2>16. CurrentOK(n)
    BY <1>1, <2>13, <2>14 DEF CurrentOK, Local, KernelType
  <2>17. ~ Held(k, t)
    BY <1>2 DEF Held
  <2> QED BY <1>2, <2>1, <2>11, <2>13, <2>15, <2>16, <2>17
<1>3. CASE k.stat[t] # "READY"
  <2>1. u = [k EXCEPT !.prio[t] = p]
    BY <1>3 DEF ChangePriority
  <2>2. [k.prio EXCEPT ![t] = p] \in [Thread -> Prio]
    BY <1>1 DEF KernelType
  <2>3. u \in KernelType
    BY <1>1, <2>1, <2>2 DEF KernelType
  <2>4. /\ u.list = k.list /\ u.group = k.group /\ u.current = k.current
        /\ u.lock = k.lock /\ u.stat = k.stat /\ u.timer = k.timer
        /\ u.err = k.err
        /\ \A x \in Thread \ {t} : u.prio[x] = k.prio[x]
    BY <1>1, <2>1 DEF KernelType
  <2> HIDE DEF u
  <2>5. \A x \in Thread : StatOK(u, x)
    BY <1>3, <2>4 DEF Core, StatOK
  <2>6. ListsMatchStat(u)
    <3>1. \A q \in Prio : t \notin Members(k.list[q])
      BY <1>3 DEF Core, ListsMatchStat
    <3>2. \A h \in Head_ : Members(k.list[h]) \subseteq Thread
      BY <1>1 DEF KernelType, Members
    <3>3. ListsMatchStat(k)
      BY DEF Core
    <3> QED BY <2>4, <3>1, <3>2, <3>3 DEF ListsMatchStat, Head_
  <2>7. QueuesDisjoint(u)
    BY <2>4 DEF Core, QueuesDisjoint
  <2>8. \A h \in Head_ : Injective(u.list[h])
    BY <2>4 DEF Core
  <2>9. u.group = {q \in Prio : Members(u.list[q]) # {}}
    BY <2>4 DEF Core
  <2>10. Core(u, {})
    BY <2>3, <2>5, <2>6, <2>7, <2>8, <2>9 DEF Core
  <2>11. CurrentOK(u) /\ Local(k, u, t) /\ (Held(k, t) => Held(u, t))
    BY <2>4 DEF CurrentOK, Local, Held, Unlinked
  <2> QED BY <2>4, <2>10, <2>11 DEF u
<1> QED BY <1>2, <1>3

\* A change of fields that the invariant does not mention.
LEMMA SameCore ==
  ASSUME NEW k, NEW u \in KernelType, Core(k, {}), CurrentOK(k),
         u.list = k.list, u.group = k.group, u.current = k.current,
         u.stat = k.stat, u.prio = k.prio,
         \A x \in Thread : u.timer[x] = Off <=> k.timer[x] = Off
  PROVE  /\ Core(u, {}) /\ CurrentOK(u)
         /\ \A x \in Thread : Held(k, x) => Held(u, x)
         /\ TopRuns(k) => TopRuns(u)
<1>1. \A x \in Thread : StatOK(u, x)
  BY DEF Core, StatOK
<1>2. ListsMatchStat(u) /\ QueuesDisjoint(u)
  BY DEF Core, ListsMatchStat, QueuesDisjoint
<1>3. \A h \in Head_ : Injective(u.list[h])
  BY DEF Core
<1>4. u.group = {p \in Prio : Members(u.list[p]) # {}}
  BY DEF Core
<1>5. Core(u, {})
  BY <1>1, <1>2, <1>3, <1>4 DEF Core
<1>6. CurrentOK(u) /\ (TopRuns(k) => TopRuns(u))
  BY DEF CurrentOK, TopRuns
<1>7. \A x \in Thread : Held(k, x) => Held(u, x)
  BY DEF Held, Unlinked
<1> QED BY <1>5, <1>6, <1>7

\* The states of the threads that are not READY or RUNNING stay.
KeepsBlocked(k, u) ==
  \A x \in Thread :
    \/ u.stat[x] = k.stat[x]
    \/ {u.stat[x], k.stat[x]} \subseteq {"READY", "RUNNING"}

\* The tick's charge to the current thread, with the yield at the end of its
\* slice, keeps the invariant and leaves blocked threads alone.
LEMMA TickSliceCore ==
  ASSUME NEW k, Core(k, {}), CurrentOK(k), k.slice[k.current] > 0
  PROVE  LET u == TickSlice(k)
         IN  /\ Core(u, {}) /\ CurrentOK(u) /\ KeepsBlocked(k, u)
             /\ u.lock = k.lock /\ u.list[Defunct] = k.list[Defunct]
             /\ Steady(k, u, {})
             /\ u.timer = k.timer /\ \A q \in Queue : u.list[q] = k.list[q]
             /\ u.current = k.current \/ k.stat[u.current] = "READY"
             /\ \A x \in Thread : Held(k, x) => Held(u, x)
             /\ \A x \in Thread : k.slice[x] > 0 => u.slice[x] > 0
             /\ k.lock = 0 =>
                  (TopRuns(u) \/ (u.current = k.current /\ ~ TopRuns(k)))
<1> DEFINE c == k.current
           d == [k EXCEPT !.slice[c] = k.slice[c] - 1]
           e == [d EXCEPT !.slice[c] = InitTick[c], !.yld[c] = TRUE]
           u == TickSlice(k)
<1>1. k \in KernelType /\ c \in Thread
  BY DEF Core, KernelType
<1>2. k.slice[c] \in Nat /\ k.slice[c] - 1 \in Nat
  BY <1>1 DEF KernelType
<1>3. d \in KernelType
  <2>1. [k.slice EXCEPT ![c] = k.slice[c] - 1] \in [Thread -> Nat]
    BY <1>1, <1>2 DEF KernelType
  <2> QED BY <1>1, <2>1 DEF KernelType
<1>4. /\ d.list = k.list /\ d.group = k.group /\ d.current = k.current
      /\ d.stat = k.stat /\ d.prio = k.prio /\ d.timer = k.timer
      /\ d.lock = k.lock /\ d.err = k.err
      /\ d.slice = [k.slice EXCEPT ![c] = k.slice[c] - 1]
  BY <1>1 DEF KernelType
<1>5. e \in KernelType
  <2>1. InitTick[c] \in Nat
    BY <1>1, ThreadAssumption
  <2>2. [d.slice EXCEPT ![c] = InitTick[c]] \in [Thread -> Nat]
    BY <1>1, <1>3, <2>1 DEF KernelType
  <2>3. [d.yld EXCEPT ![c] = TRUE] \in [Thread -> BOOLEAN]
    BY <1>1, <1>3 DEF KernelType
  <2> HIDE DEF d
  <2> QED BY <1>3, <2>2, <2>3 DEF KernelType
<1>6. /\ e.list = k.list /\ e.group = k.group /\ e.current = k.current
      /\ e.stat = k.stat /\ e.prio = k.prio /\ e.timer = k.timer
      /\ e.lock = k.lock /\ e.err = k.err
      /\ e.slice = [d.slice EXCEPT ![c] = InitTick[c]]
  BY <1>1 DEF KernelType
<1>7. u = IF d.slice[c] = 0 THEN rt_schedule(e) ELSE d
  BY DEF TickSlice
<1> HIDE DEF d, e, u
<1>8. d.slice[c] = k.slice[c] - 1
      /\ \A x \in Thread \ {c} : d.slice[x] = k.slice[x]
  BY <1>1, <1>4 DEF KernelType
<1>9. CASE d.slice[c] # 0
  <2>1. u = d
    BY <1>7, <1>9
  <2>2. /\ Core(d, {}) /\ CurrentOK(d)
        /\ \A x \in Thread : Held(k, x) => Held(d, x)
    BY <1>3, <1>4, SameCore
  <2>3. TopRuns(k) => TopRuns(d)
    BY <1>4 DEF TopRuns
  <2>4. \A x \in Thread : k.slice[x] > 0 => d.slice[x] > 0
    BY <1>1, <1>2, <1>8, <1>9
  <2>5. Steady(k, d, {})
    BY <1>4 DEF Steady
  <2> QED BY <1>4, <2>1, <2>2, <2>3, <2>4, <2>5 DEF KeepsBlocked, u
<1>10. CASE d.slice[c] = 0
  <2>1. u = rt_schedule(e)
    BY <1>7, <1>10
  <2>2. /\ Core(e, {}) /\ CurrentOK(e)
        /\ \A x \in Thread : Held(k, x) => Held(e, x)
    BY <1>5, <1>6, SameCore
  <2>3. /\ Core(u, {}) /\ CurrentOK(u) /\ Moves(e, u)
        /\ e.lock = 0 => TopRuns(u)
    BY <2>1, <2>2, ScheduleCore
  <2>4. \A x \in Thread : Held(k, x) => Held(u, x)
    BY <2>2, <2>3, HeldMoves
  <2>5. \A x \in Thread : k.slice[x] > 0 => e.slice[x] > 0
    <3>1. InitTick[c] > 0
      BY <1>1, ThreadAssumption
    <3>2. e.slice[c] = InitTick[c] /\ \A x \in Thread \ {c} : e.slice[x] = d.slice[x]
      BY <1>1, <1>3, <1>6 DEF KernelType
    <3> QED BY <1>1, <1>8, <3>1, <3>2
  <2>6. KeepsBlocked(k, u)
    BY <1>6, <2>3 DEF Moves, KeepsBlocked
  <2>7. Steady(k, u, {})
    BY <1>6, <2>3 DEF Moves, Steady
  <2> QED BY <1>6, <2>3, <2>4, <2>5, <2>6, <2>7 DEF Moves, u
<1> QED BY <1>9, <1>10 DEF u

\* Counting a tick of the thread timers keeps the invariant.
LEMMA TickTimersCore ==
  ASSUME NEW k, Core(k, {}), CurrentOK(k)
  PROVE  LET u == TickTimers(k)
         IN  /\ Core(u, {}) /\ CurrentOK(u) /\ u.stat = k.stat
             /\ u.lock = k.lock /\ u.list = k.list /\ u.current = k.current
             /\ u.slice = k.slice /\ u.err = k.err
             /\ \A x \in Thread :
                  u.timer[x] = IF k.timer[x] > 0 THEN k.timer[x] - 1 ELSE k.timer[x]
             /\ \A x \in Thread : Held(k, x) => Held(u, x)
             /\ TopRuns(k) => TopRuns(u)
<1> DEFINE f == [t \in Thread |-> IF k.timer[t] > 0 THEN k.timer[t] - 1
                                  ELSE k.timer[t]]
           u == TickTimers(k)
<1>1. k \in KernelType
  BY DEF Core
<1>2. \A t \in Thread : k.timer[t] \in Nat \/ k.timer[t] = -1
  BY <1>1 DEF KernelType, Off
<1>3. /\ f \in [Thread -> Nat \cup {Off}]
      /\ \A t \in Thread : f[t] = Off <=> k.timer[t] = Off
      /\ \A t \in Thread :
           f[t] = IF k.timer[t] > 0 THEN k.timer[t] - 1 ELSE k.timer[t]
  BY <1>2 DEF Off
<1>4. u = [k EXCEPT !.timer = f]
  BY DEF TickTimers
<1> HIDE DEF f
<1>5. u \in KernelType
  BY <1>1, <1>3, <1>4 DEF KernelType
<1>6. /\ u.list = k.list /\ u.group = k.group /\ u.current = k.current
      /\ u.stat = k.stat /\ u.prio = k.prio /\ u.timer = f
      /\ u.lock = k.lock /\ u.slice = k.slice /\ u.err = k.err
  BY <1>1, <1>4 DEF KernelType
<1> HIDE DEF u
<1>7. \A x \in Thread : u.timer[x] = Off <=> k.timer[x] = Off
  BY <1>3, <1>6
<1>8. /\ Core(u, {}) /\ CurrentOK(u)
      /\ \A x \in Thread : Held(k, x) => Held(u, x)
      /\ TopRuns(k) => TopRuns(u)
  BY <1>5, <1>6, <1>7, SameCore
<1> QED BY <1>3, <1>6, <1>8 DEF u

=============================================================================
