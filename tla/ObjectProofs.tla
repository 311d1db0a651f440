---------------------------- MODULE ObjectProofs ----------------------------
(***************************************************************************)
(* The memory pool and the mailbox, for any number of threads, blocks and  *)
(* mails, and the deadlines of mailbox and message queue. What pool and    *)
(* mailbox store depends on nobody's scheduling, so nothing is assumed of  *)
(* the calls threads make: the pool's blocks are conserved, and the        *)
(* mailbox is a bounded channel. That no block, mail or free entry is      *)
(* missed by a waiter is proved on top of what all IPC objects share, and  *)
(* so is that those who wait for the mailbox or the message queue time out *)
(* when their calls are due.                                               *)
(***************************************************************************)
EXTENDS MemPool, Mailbox, MessageQueue, IpcProofs

\* The pool as a record of a free list, a count and the application's blocks.
PoolTypeOK ==
  pool \in [free : Seq(BlockNo), count : Nat, used : SUBSET BlockNo]

PoolInv == PoolTypeOK /\ BlocksConserved

\* What is left of a list without duplicates when its first element is taken.
LEMMA TailMembers ==
  ASSUME NEW T, NEW s \in Seq(T), s # << >>, IsInjective(s)
  PROVE  /\ Tail(s) \in Seq(T) /\ Len(Tail(s)) = Len(s) - 1
         /\ IsInjective(Tail(s))
         /\ Head(s) \in Members(s)
         /\ Members(Tail(s)) = Members(s) \ {Head(s)}
<1> DEFINE r == Tail(s)
<1>1. /\ Len(s) \in Nat /\ Len(s) > 0 /\ DOMAIN s = 1 .. Len(s)
      /\ Head(s) = s[1]
  OBVIOUS
<1>2. /\ r \in Seq(T) /\ Len(r) = Len(s) - 1
      /\ \A i \in 1 .. Len(s) - 1 : r[i] = s[i + 1]
  OBVIOUS
<1> HIDE DEF r
<1>3. DOMAIN r = 1 .. Len(s) - 1
  BY <1>1, <1>2
<1>4. IsInjective(r)
  BY SMTT(30), <1>1, <1>2, <1>3 DEF IsInjective
<1>5. Head(s) \in Members(s)
  BY <1>1 DEF Members
<1>6. ASSUME NEW x \in Members(r) PROVE x \in Members(s) \ {Head(s)}
  <2>1. PICK i \in 1 .. Len(s) - 1 : r[i] = x
    BY <1>3, <1>6 DEF Members
  <2>2. i + 1 \in DOMAIN s /\ s[i + 1] = x /\ i + 1 # 1 /\ 1 \in DOMAIN s
    BY <1>1, <1>2, <2>1
  <2> QED BY <1>1, <2>2 DEF Members, IsInjective
<1>7. ASSUME NEW x \in Members(s) \ {Head(s)} PROVE x \in Members(r)
  <2>1. PICK i \in 1 .. Len(s) : s[i] = x
    BY <1>1, <1>7 DEF Members
  <2>2. i - 1 \in 1 .. Len(s) - 1 /\ (i - 1) + 1 = i
    BY <1>1, <1>7, <2>1
  <2>3. r[i - 1] = x
    BY <1>2, <2>1, <2>2
  <2> QED BY <1>3, <2>2, <2>3 DEF Members
<1> QED BY <1>2, <1>4, <1>5, <1>6, <1>7 DEF r

\* A pool that has just been initialized: every block is free.
LEMMA AllFreeFacts ==
  /\ AllFree \in [free : Seq(BlockNo), count : Nat, used : SUBSET BlockNo]
  /\ AllFree.count = Len(AllFree.free)
  /\ IsInjective(AllFree.free)
  /\ Members(AllFree.free) = BlockNo \ AllFree.used
<1> DEFINE f == [i \in BlockNo |-> i]
<1>1. NumBlocks \in Nat /\ BlockNo = 1 .. NumBlocks
  BY PoolAssumption DEF BlockNo
<1>2. f \in Seq(BlockNo) /\ Len(f) = NumBlocks /\ DOMAIN f = BlockNo
  BY <1>1
<1>3. IsInjective(f) /\ Members(f) = BlockNo
  BY DEF IsInjective, Members
<1>4. AllFree = [free |-> f, count |-> NumBlocks, used |-> {}]
  BY DEF AllFree
<1> HIDE DEF f
<1> QED BY <1>1, <1>2, <1>3, <1>4

\* What a step of the pool does to its blocks.
LEMMA MpSteps ==
  ASSUME MpNext
  PROVE  \/ UNCHANGED pool
         \/ pool.count # 0 /\ pool' = Allocated
         \/ \E b \in pool.used : pool' = Freed(b)
         \/ pool' = AllFree
<1>1. ASSUME NEW c \in Thread, NEW time, AllocLoop(c, time)
      PROVE  UNCHANGED pool \/ (pool.count # 0 /\ pool' = Allocated)
  BY <1>1 DEF AllocLoop
<1>2. ASSUME NEW c \in Thread, rt_mp_detach(c) \/ Recalculate(c)
      PROVE  UNCHANGED pool
  BY <1>2 DEF rt_mp_detach, Recalculate
<1>3. ASSUME NEW c \in Thread, rt_mp_init(c)
      PROVE  pool' = AllFree
  BY <1>3 DEF rt_mp_init
<1>4. ASSUME NEW b, IsrFree(b) \/ \E c \in Thread : rt_mp_free(c, b)
      PROVE  b \in pool.used /\ pool' = Freed(b)
  BY <1>4 DEF IsrFree, rt_mp_free
<1> QED BY <1>1, <1>2, <1>3, <1>4 DEF MpNext, rt_mp_alloc, AllocAgain

\* Taking the first free block, and putting a block back, conserve the blocks.
LEMMA AllocatedInv ==
  ASSUME PoolInv, pool.count # 0, pool' = Allocated
  PROVE  PoolInv'
<1>1. /\ pool.free \in Seq(BlockNo) /\ pool.used \subseteq BlockNo
      /\ pool.count = Len(pool.free) /\ IsInjective(pool.free)
      /\ Members(pool.free) = BlockNo \ pool.used
  BY DEF PoolInv, PoolTypeOK, BlocksConserved
<1>2. pool.free # << >> /\ pool.count - 1 \in Nat
  BY <1>1
<1> DEFINE b == Head(pool.free)
           r == Tail(pool.free)
<1>3. /\ r \in Seq(BlockNo) /\ Len(r) = pool.count - 1 /\ IsInjective(r)
      /\ b \in Members(pool.free) /\ Members(r) = Members(pool.free) \ {b}
  BY <1>1, <1>2, TailMembers
<1>4. pool' = [free |-> r, count |-> pool.count - 1, used |-> pool.used \cup {b}]
  BY DEF Allocated
<1> HIDE DEF b, r
<1>5. /\ pool'.free = r /\ pool'.count = pool.count - 1
      /\ pool'.used = pool.used \cup {b}
  BY <1>4
<1>6. PoolTypeOK'
  BY <1>1, <1>2, <1>3, <1>4 DEF PoolTypeOK
<1>7. BlocksConserved'
  BY <1>1, <1>3, <1>5 DEF BlocksConserved
<1> QED BY <1>6, <1>7 DEF PoolInv

\* rt_mp_free puts a block that was given out at the head of the free list.
LEMMA FreedInv ==
  ASSUME PoolInv, NEW b \in pool.used, pool' = Freed(b)
  PROVE  PoolInv'
<1>1. /\ pool.free \in Seq(BlockNo) /\ pool.used \subseteq BlockNo
      /\ pool.count = Len(pool.free) /\ Injective(pool.free)
      /\ Members(pool.free) = BlockNo \ pool.used
  BY DEF PoolInv, PoolTypeOK, BlocksConserved, IsInjective, Injective
<1> DEFINE r == <<b>> \o pool.free
<1>2. b \in BlockNo /\ b \notin Members(pool.free)
  BY <1>1
<1>3. /\ r \in Seq(BlockNo) /\ Injective(r)
      /\ Members(r) = Members(pool.free) \cup {b}
  BY <1>1, <1>2, PrependMembers
<1>4. Len(r) = pool.count + 1
  BY <1>1, <1>2, ConcatProperties
<1>5. pool' = [free |-> r, count |-> pool.count + 1, used |-> pool.used \ {b}]
  BY DEF Freed
<1> HIDE DEF r
<1>6. /\ pool'.free = r /\ pool'.count = pool.count + 1
      /\ pool'.used = pool.used \ {b}
  BY <1>5
<1>7. PoolTypeOK'
  BY <1>1, <1>3, <1>5 DEF PoolTypeOK
<1>8. BlocksConserved'
  BY <1>1, <1>2, <1>3, <1>4, <1>6 DEF BlocksConserved, IsInjective, Injective
<1> QED BY <1>7, <1>8 DEF PoolInv

\* The blocks are conserved by every step.
LEMMA PoolInvKept ==
  ASSUME PoolInv, MpNext
  PROVE  PoolInv'
<1>1. CASE UNCHANGED pool
  BY <1>1 DEF PoolInv, PoolTypeOK, BlocksConserved
<1>2. CASE pool.count # 0 /\ pool' = Allocated
  BY <1>2, AllocatedInv
<1>3. ASSUME NEW b \in pool.used, pool' = Freed(b) PROVE PoolInv'
  BY <1>3, FreedInv
<1>4. CASE pool' = AllFree
  BY <1>4, AllFreeFacts DEF PoolInv, PoolTypeOK, BlocksConserved
<1> QED BY <1>1, <1>2, <1>3, <1>4, MpSteps

(***************************************************************************)
(* The blocks of a memory pool: in every program, each block is on the     *)
(* free list once or with the application, never both, and                 *)
(* block_free_count is the length of the list.                             *)
(***************************************************************************)
THEOREM BlocksAlwaysConserved == MpSpec => []BlocksConserved
<1>1. MpInit => PoolInv
  BY AllFreeFacts DEF MpInit, MpStart, PoolInv, PoolTypeOK, BlocksConserved
<1>2. PoolInv /\ [MpNext]_poolVars => PoolInv'
  BY PoolInvKept DEF poolVars, PoolInv, PoolTypeOK, BlocksConserved
<1>3. PoolInv => BlocksConserved
  BY DEF PoolInv
<1> QED BY <1>1, <1>2, <1>3, PTL DEF MpSpec

-----------------------------------------------------------------------------
(***************************************************************************)
(* The pool's waiters.  A free block is noticed because every block that   *)
(* is freed while somebody waits puts one more thread on its way, and a    *)
(* thread that gets nothing found the pool empty.  The invariant also says *)
(* that one thread at most detaches the pool and that nobody is on its way *)
(* to a pool that is not live, so that no thread waits on one that is      *)
(* gone.                                                                   *)
(***************************************************************************)
\* Thread t has been resumed and looks, or will look, for a block.
Coming(kk, p, t) == CallOf(Pool, kk, p, t) = "granted" \/ p[t].at = "mp_again"

\* Thread t is in the loop that detaches q.
Detaches(q, p, t) == p[t].at \in {"ipc_test", "ipc_next"} /\ p[t].arg = q

WaitOK == wait \in [Thread -> [timeout : Nat \cup {-1}, spent : Nat]]

OneDetaches ==
  \A t \in Thread : Detaches(Pool, pc, t) =>
    /\ obj[Pool] = "leaving"
    /\ \A x \in Thread : Detaches(Pool, pc, x) => x = t

MpInv ==
  /\ ObjInv /\ PoolInv /\ WaitOK /\ OneDetaches
  /\ obj[Pool] # "live" => OnTheirWay = {}
  /\ BlockNotMissed

LEMMA OnTheirWayIs ==
  /\ OnTheirWay = {t \in Thread : Coming(k, pc, t)}
  /\ OnTheirWay' = {t \in Thread : Coming(k', pc', t)}
<1>1. OnTheirWay = {t \in Thread : Coming(k, pc, t)}
  BY DEF OnTheirWay, Granted, Waiting, Inside, Coming, CallOf, WaitLabels
<1>2. OnTheirWay' = {t \in Thread : Coming(k', pc', t)}
  BY DEF OnTheirWay, Granted, Waiting, Inside, Coming, CallOf, WaitLabels
<1> QED BY <1>1, <1>2

\* Counting the threads on their way.
LEMMA CountThreads ==
  ASSUME IsFiniteSet(Thread), NEW S \in SUBSET Thread, NEW t \in Thread
  PROVE  /\ Cardinality(S) \in Nat
         /\ t \notin S => Cardinality(S \cup {t}) = Cardinality(S) + 1
         /\ Cardinality(S \ {t}) \in Nat /\ Cardinality(S) - 1 <= Cardinality(S \ {t})
<1>1. IsFiniteSet(S) /\ Cardinality(S) \in Nat
  BY FS_Subset, FS_CardinalityType
<1>2. t \notin S => Cardinality(S \cup {t}) = Cardinality(S) + 1
  BY <1>1, FS_AddElement
<1>3. CASE t \in S
  <2>1. Cardinality(S \ {t}) = Cardinality(S) - 1 /\ IsFiniteSet(S \ {t})
    BY <1>1, <1>3, FS_RemoveElement
  <2>2. Cardinality(S \ {t}) \in Nat
    BY <2>1, FS_CardinalityType
  <2> QED BY <1>1, <1>2, <2>1, <2>2
<1>4. CASE t \notin S
  <2>1. S \ {t} = S
    BY <1>4
  <2>2. Cardinality(S \ {t}) \in Nat /\ Cardinality(S) - 1 <= Cardinality(S \ {t})
    BY <1>1, <2>1
  <2> QED BY <1>1, <1>2, <2>2
<1> QED BY <1>3, <1>4

\* The remaining time of a wait, and what a tick leaves of it.
LEMMA WaitTimes ==
  ASSUME NEW w \in [timeout : Nat \cup {-1}, spent : Nat]
  PROVE  /\ Remaining(w) \in Nat \cup {-1}
         /\ Spend(w) \in [timeout : Nat \cup {-1}, spent : Nat]
<1>1. w = [timeout |-> w.timeout, spent |-> w.spent]
      /\ w.timeout \in Nat \cup {-1} /\ w.spent \in Nat
  OBVIOUS
<1>2. Remaining(w) \in Nat \cup {-1}
  BY <1>1 DEF Remaining
<1>3. Spend(w) \in [timeout : Nat \cup {-1}, spent : Nat]
  <2>1. [w EXCEPT !.spent = @ + 1] \in [timeout : Nat \cup {-1}, spent : Nat]
    BY <1>1
  <2> QED BY <2>1 DEF Spend
<1> QED BY <1>2, <1>3

\* The local variables of a call keep their type.
LEMMA WaitKept ==
  ASSUME WaitOK,
         \/ UNCHANGED wait
         \/ \E c \in Thread, time \in Nat \cup {-1} :
              wait' = [wait EXCEPT ![c] = [timeout |-> time, spent |-> 0]]
         \/ \E c \in Thread : Leaves(c)
         \/ KernelStep
  PROVE  WaitOK'
<1>1. CASE UNCHANGED wait
  BY <1>1 DEF WaitOK
<1>2. ASSUME NEW c \in Thread, NEW time \in Nat \cup {-1},
             wait' = [wait EXCEPT ![c] = [timeout |-> time, spent |-> 0]]
      PROVE  WaitOK'
  <2>1. [timeout |-> time, spent |-> 0] \in [timeout : Nat \cup {-1}, spent : Nat]
    OBVIOUS
  <2> QED BY <1>2, <2>1 DEF WaitOK
<1>3. CASE \E c \in Thread : Leaves(c)
  BY <1>2, <1>3 DEF Leaves, NotWaiting
<1>4. CASE KernelStep
  <2>1. CASE Ticks
    <3>1. wait' = [t \in Thread |-> Spend(wait[t])]
      BY <1>4, <2>1 DEF KernelStep
    <3> QED BY <3>1, WaitTimes DEF WaitOK
  <2>2. CASE ~ Ticks
    <3>1. UNCHANGED wait
      BY <1>4, <2>2 DEF KernelStep
    <3> QED BY <1>1, <3>1
  <2> QED BY <2>1, <2>2
<1> QED BY <1>1, <1>2, <1>3, <1>4

\* A step in which nobody begins to detach.
LEMMA OneDetachesKept ==
  ASSUME OneDetaches, obj'[Pool] = obj[Pool],
         \A x \in Thread : Detaches(Pool, pc', x) => Detaches(Pool, pc, x)
  PROVE  OneDetaches'
BY DEF OneDetaches

\* A step of c, which was not detaching, to a label outside that loop.
LEMMA OtherDetaches ==
  ASSUME ObjInv, NEW c \in Thread, NEW l, NEW a, pc' = [pc EXCEPT ![c] = At(l, a)],
         NEW q, l \notin {"ipc_test", "ipc_next"} \/ a # q
  PROVE  \A x \in Thread : Detaches(q, pc', x) => Detaches(q, pc, x)
<1>1. pc = [x \in Thread |-> pc[x]]
  BY DEF ObjInv, IpcInv, IInv, StateOK
<1>2. /\ pc'[c].at = l /\ pc'[c].arg = a
      /\ \A x \in Thread \ {c} : pc'[x] = pc[x]
  BY <1>1 DEF At
<1> QED BY <1>2 DEF Detaches

\* A step that lets nobody join the list and changes neither the pool nor who
\* is on its way.
LEMMA SameWayInv ==
  ASSUME MpInv, ObjInv', WaitOK', OneDetaches', UNCHANGED pool,
         Members(k'.list[Pool]) \subseteq Members(k.list[Pool]),
         \A x \in Thread : Coming(k', pc', x) <=> Coming(k, pc, x),
         obj'[Pool] # "live" => obj[Pool] # "live" \/ OnTheirWay = {}
  PROVE  MpInv'
<1>1. OnTheirWay' = OnTheirWay
  BY OnTheirWayIs
<1>2. PoolInv'
  BY DEF MpInv, PoolInv, PoolTypeOK, BlocksConserved
<1>3. k.list[Pool] = << >> => k'.list[Pool] = << >>
  BY StaysEmpty, PoolAssumption DEF MpInv, ObjInv, IpcInv, IInv
<1>4. BlockNotMissed'
  BY <1>1, <1>3 DEF MpInv, BlockNotMissed
<1> QED BY <1>1, <1>2, <1>4 DEF MpInv

-----------------------------------------------------------------------------
\* The critical section in which a caller of rt_mp_alloc blocks puts it at the
\* front of the list.
LEMMA PoolBlockCore ==
  ASSUME ObjInv, NEW c \in Thread, Runs(c), NEW time \in Nat \cup {-1}
  PROVE  LET u == PoolBlock(c, time)
         IN  Core(u, {}) /\ CurrentOK(u) /\ Blocks(k, u, Pool, c)
<1> DEFINE s == SelfSuspended(k, c)
           w == rt_list_insert_after(s, Pool, c)
<1>1. PoolBlock(c, time) = IF time > 0 THEN rt_timer_start(w, c, time) ELSE w
  BY DEF PoolBlock, SelfSuspended
<1>2. Core(k, {}) /\ CurrentOK(k) /\ k.stat[c] = "RUNNING" /\ Pool \in Queue
  BY PoolAssumption DEF ObjInv, IpcInv, IInv, Runs
<1>3. s \in KernelType /\ Injective(s.list[Pool]) /\ c \notin Members(s.list[Pool])
  BY <1>2, BeforeJoin
<1>4. Joins(s, w, Pool, c)
  <2> DEFINE r == <<c>> \o s.list[Pool]
             f == [s.list EXCEPT ![Pool] = r]
  <2>1. Pool \in Head_ /\ s.list \in [Head_ -> Seq(Thread)] /\ s.list[Pool] \in Seq(Thread)
    BY <1>2, <1>3 DEF KernelType, Head_
  <2>2. r \in Seq(Thread) /\ Injective(r) /\ Members(r) = Members(s.list[Pool]) \cup {c}
    BY <1>3, <2>1, PrependMembers
  <2>3. w = [s EXCEPT !.list = f]
    BY DEF rt_list_insert_after
  <2> HIDE DEF r, s, w
  <2>4. /\ f \in [Head_ -> Seq(Thread)] /\ f[Pool] = r
        /\ \A h \in Head_ \ {Pool} : f[h] = s.list[h]
    BY <2>1, <2>2
  <2> HIDE DEF f
  <2>5. w \in KernelType /\ OnlyLists(s, w) /\ w.list = f
    BY <1>3, <2>3, <2>4 DEF KernelType, OnlyLists
  <2> QED BY <2>2, <2>4, <2>5 DEF Joins
<1> HIDE DEF w
<1> QED BY <1>1, <1>2, <1>4, JoinCore DEF s

\* A thread that goes back to application code.
LEMMA ReturnGoes ==
  ASSUME NEW c \in Thread, Runs(c), NEW l \in {"run", "sched"}
  PROVE  Goes(c, l, c) /\ l \notin WaitLabels
BY DEF Goes, LabelOK, RacyLabels, HoldLabels, Label, WaitLabels, Runs

\* rt_mp_alloc takes a block, gives up or waits, when it is called and when it
\* looks again.
LEMMA AllocLoopInv ==
  ASSUME IsFiniteSet(Thread), MpInv, PoolInv', NEW c \in Thread, Runs(c),
         obj[Pool] = "live", pc[c].at \in {"run", "mp_again"},
         NEW time \in Nat \cup {-1}, AllocLoop(c, time)
  PROVE  MpInv'
<1>1. /\ ObjInv /\ WaitOK /\ OneDetaches /\ BlockNotMissed /\ PoolTypeOK
      /\ UNCHANGED <<isr, obj>> /\ Pool \in Queue /\ obj'[Pool] = "live"
  BY PoolAssumption DEF MpInv, AllocLoop, PoolInv
<1>2. pool.count \in Nat /\ OnTheirWay \in SUBSET Thread /\ OnTheirWay' \in SUBSET Thread
  BY <1>1, OnTheirWayIs DEF PoolTypeOK
<1>3. Goes(c, "run", c) /\ "run" \notin WaitLabels
  BY ReturnGoes
<1>4. \A l, a : pc' = [pc EXCEPT ![c] = At(l, a)] /\ l \in {"run", "ipc_sched"} =>
        OneDetaches'
  <2> SUFFICES ASSUME NEW l, NEW a, pc' = [pc EXCEPT ![c] = At(l, a)], l \in {"run", "ipc_sched"}
               PROVE  OneDetaches'
    OBVIOUS
  <2>1. \A x \in Thread : Detaches(Pool, pc', x) => Detaches(Pool, pc, x)
    BY <1>1, OtherDetaches
  <2> QED BY <1>1, <2>1, OneDetachesKept
<1>5. CASE pool.count # 0 /\ pool' = Allocated /\ Return(c) /\ Leaves(c) /\ UNCHANGED k
  <2>1. pc' = [pc EXCEPT ![c] = At("run", c)]
    BY <1>5 DEF Return, Goto
  <2>2. ObjInv'
    BY <1>1, <1>3, <1>5, <2>1, SameObjInv
  <2>3. WaitOK' /\ OneDetaches'
    BY <1>1, <1>4, <1>5, <2>1, WaitKept
  <2>4. /\ CallOf(Pool, k', pc', c) = "none"
        /\ \A x \in Thread \ {c} : CallOf(Pool, k', pc', x) = CallOf(Pool, k, pc, x)
    BY <1>1, <1>3, <1>5, <2>1, MovedCalls
  <2>5. pc'[c].at = "run" /\ \A x \in Thread \ {c} : pc'[x] = pc[x]
    <3>1. pc = [x \in Thread |-> pc[x]]
      BY <1>1 DEF ObjInv, IpcInv, IInv, StateOK
    <3> QED BY <2>1, <3>1 DEF At
  <2>6. OnTheirWay' = OnTheirWay \ {c}
    BY <2>4, <2>5, OnTheirWayIs DEF Coming
  <2>7. pool'.count = pool.count - 1
    BY <1>5 DEF Allocated
  <2>8. /\ Cardinality(OnTheirWay) \in Nat /\ Cardinality(OnTheirWay') \in Nat
        /\ Cardinality(OnTheirWay) - 1 <= Cardinality(OnTheirWay')
    BY <1>2, <2>6, CountThreads
  <2>9. BlockNotMissed'
    BY <1>1, <1>2, <1>5, <2>7, <2>8 DEF BlockNotMissed
  <2> QED BY <1>1, <2>2, <2>3, <2>9 DEF MpInv
<1>6. ASSUME pool.count = 0, UNCHANGED pool, ObjInv', WaitOK', OneDetaches'
      PROVE  MpInv'
  <2>1. Cardinality(OnTheirWay') \in Nat
    BY <1>2, CountThreads
  <2>2. BlockNotMissed'
    BY <1>6, <2>1 DEF BlockNotMissed
  <2> QED BY <1>1, <1>6, <2>2 DEF MpInv
<1>7. CASE /\ pool.count = 0 /\ k' = [k EXCEPT !.err[c] = "ETIMEOUT"]
           /\ Return(c) /\ Leaves(c) /\ UNCHANGED pool
  <2>1. pc' = [pc EXCEPT ![c] = At("run", c)]
    BY <1>7 DEF Return, Goto
  <2>2. "ETIMEOUT" \in Error
    BY DEF Error
  <2>3. ObjInv'
    BY <1>1, <1>3, <1>7, <2>1, <2>2, ErrorObjInv
  <2>4. WaitOK' /\ OneDetaches'
    BY <1>1, <1>4, <1>7, <2>1, WaitKept
  <2> QED BY <1>6, <1>7, <2>3, <2>4
<1>8. CASE /\ pool.count = 0 /\ k' = PoolBlock(c, time) /\ Goto(c, "ipc_sched", Pool)
           /\ wait' = [wait EXCEPT ![c] = [timeout |-> time, spent |-> 0]]
           /\ UNCHANGED pool
  <2>1. pc' = [pc EXCEPT ![c] = At("ipc_sched", Pool)]
    BY <1>8 DEF Goto
  <2>2. Core(k', {}) /\ CurrentOK(k') /\ Blocks(k, k', Pool, c)
    BY <1>1, <1>8, PoolBlockCore
  <2>3. obj[Pool] # "none" /\ c = k.current /\ k.stat[c] = "RUNNING" /\ c # Idle
    BY DEF Runs
  <2>4. ObjInv'
    BY <1>1, <2>1, <2>2, <2>3, BlockedObjInv
  <2>5. WaitOK' /\ OneDetaches'
    BY <1>1, <1>4, <1>8, <2>1, WaitKept
  <2> QED BY <1>6, <1>8, <2>4, <2>5
<1> QED BY <1>5, <1>7, <1>8 DEF AllocLoop

\* The critical section of rt_mp_free makes the first waiter ready.
LEMMA FreeCore ==
  ASSUME ObjInv, k.list[Pool] # << >>
  PROVE  LET u == FreeResumes(k)
             t == Head(k.list[Pool])
         IN  /\ Core(u, {}) /\ CurrentOK(u) /\ Resumed(k, u, {t})
             /\ t \in Members(k.list[Pool]) /\ u.err[t] = "EOK"
<1> DEFINE t == Head(k.list[Pool])
           e == [k EXCEPT !.err[t] = "EOK"]
           u == rt_thread_resume(e, t)
<1>1. FreeResumes(k) = u
  BY DEF FreeResumes
<1>2. Core(k, {}) /\ CurrentOK(k) /\ Pool \in Queue /\ Clean(k)
  BY PoolAssumption DEF ObjInv, IpcInv, IInv, WaitersOK
<1>3. t \in Members(k.list[Pool]) /\ t \in Thread /\ k.stat[t] = "SUSPEND"
  BY <1>2, HeadIs
<1>4. k.err[t] = "EOK" /\ k \in KernelType
  BY <1>2, <1>3 DEF Clean, Core
<1> HIDE DEF t
<1>5. e = k
  BY <1>3, <1>4 DEF KernelType
<1>6. Core(u, {}) /\ CurrentOK(u) /\ Resumed(k, u, {t}) /\ u.err = k.err
  BY <1>2, <1>3, <1>5, ResumeCore
<1> HIDE DEF u
<1> QED BY <1>1, <1>3, <1>4, <1>6 DEF t

\* A block has been freed and the first waiter, if there is one, resumed, in a
\* thread or in an interrupt handler: one block more, one thread more on its
\* way.
LEMMA FreeCounts ==
  ASSUME IsFiniteSet(Thread), MpInv, PoolInv', ObjInv', WaitOK', OneDetaches',
         obj'[Pool] = "live", NEW b, pool' = Freed(b),
         k.list[Pool] # << >>, Steady(FreeResumes(k), k', {}),
         NEW c \in Thread, k.stat[c] # "SUSPEND", pc[c].at \in Label,
         NEW l \in {"run", "sched"}, NEW a,
         UNCHANGED pc \/ pc' = [pc EXCEPT ![c] = At(l, a)]
  PROVE  MpInv'
<1> DEFINE u == FreeResumes(k)
           t == Head(k.list[Pool])
<1>1. /\ Core(u, {}) /\ Resumed(k, u, {t}) /\ t \in Members(k.list[Pool])
      /\ u.err[t] = "EOK"
  BY FreeCore DEF MpInv
<1>2. /\ ObjInv /\ Pool \in Queue /\ l \notin WaitLabels /\ pool.count \in Nat
      /\ "mp_again" \notin Label /\ pc[c].at \notin WaitLabels
      /\ l # "mp_again" /\ BlockNotMissed
  BY PoolAssumption, LabelsApart DEF MpInv, WaitLabels, Label, PoolInv, PoolTypeOK
<1>3. Steady(u, k', {})
  OBVIOUS
<1> HIDE DEF u, t
<1>4. /\ \A x \in Thread \ {c} : pc'[x] = pc[x]
      /\ pc'[c].at \notin WaitLabels \cup {"mp_again"}
      /\ pc[c].at # "mp_again"
  <2>1. pc = [x \in Thread |-> pc[x]]
    BY <1>2 DEF ObjInv, IpcInv, IInv, StateOK
  <2> QED BY <1>2, <2>1 DEF At
<1>5. /\ t \in Thread /\ t # c
      /\ CallOf(Pool, k, pc, t) = "waiting" /\ CallOf(Pool, k', pc', t) = "granted"
      /\ \A x \in Thread \ {t, c} : CallOf(Pool, k', pc', x) = CallOf(Pool, k, pc, x)
  <2>1. c \in Thread /\ k.stat[c] # "SUSPEND"
    OBVIOUS
  <2> QED BY ONLY SMTT(40), <1>1, <1>2, <1>3, <1>4, <2>1, GrantedCalls
<1>6. CallOf(Pool, k, pc, c) = "none" /\ CallOf(Pool, k', pc', c) = "none"
  BY <1>2, <1>4, NoCall
<1>7. \A x \in Thread \ {t} : Coming(k', pc', x) <=> Coming(k, pc, x)
  BY <1>4, <1>5, <1>6 DEF Coming
<1>8. Coming(k', pc', t) /\ ~ Coming(k, pc, t)
  BY <1>5 DEF Coming, CallOf, WaitLabels
<1>9. /\ OnTheirWay \in SUBSET Thread /\ t \notin OnTheirWay
      /\ OnTheirWay' = OnTheirWay \cup {t}
  BY <1>5, <1>7, <1>8, OnTheirWayIs
<1>10. Cardinality(OnTheirWay') = Cardinality(OnTheirWay) + 1
       /\ Cardinality(OnTheirWay) \in Nat
  BY <1>5, <1>9, CountThreads
<1>11. pool'.count = pool.count + 1
  BY DEF Freed
<1>12. BlockNotMissed'
  BY <1>2, <1>10, <1>11 DEF BlockNotMissed
<1> QED BY <1>12 DEF MpInv

\* A block is freed and nobody waits.
LEMMA FreeQuietly ==
  ASSUME MpInv, PoolInv', k.list[Pool] = << >>, UNCHANGED <<ipcVars, wait>>,
         obj[Pool] = "live"
  PROVE  MpInv'
<1>1. ObjInv' /\ UNCHANGED <<k, pc, obj>>
  BY UnchangedObjInv DEF MpInv, ipcVars
<1>2. WaitOK' /\ OneDetaches' /\ BlockNotMissed' /\ obj'[Pool] = "live"
  BY <1>1 DEF MpInv, WaitOK, OneDetaches, BlockNotMissed, Detaches
<1> QED BY <1>1, <1>2 DEF MpInv

\* rt_mp_free in a thread.
LEMMA FreeInv ==
  ASSUME Polite, IsFiniteSet(Thread), MpInv, PoolInv', NEW c \in Thread, NEW b,
         rt_mp_free(c, b)
  PROVE  MpInv'
<1>1. /\ Asks(c, "free", Pool) /\ pool' = Freed(b) /\ k' = FreeResumes(k)
      /\ UNCHANGED <<isr, obj, wait>> /\ ObjInv /\ IpcInv /\ Pool \in Queue
      /\ OneDetaches
  BY PoolAssumption DEF rt_mp_free, MpInv, ObjInv
<1>2. Runs(c) /\ pc[c].at \in Label /\ obj[Pool] = "live" /\ obj'[Pool] = "live"
  BY <1>1, AsksFacts DEF Runs
<1>3. CASE k.list[Pool] # << >>
  <2> DEFINE X == {Head(k.list[Pool])}
  <2>1. pc' = [pc EXCEPT ![c] = At("sched", c)]
    BY <1>3 DEF rt_mp_free, Goto
  <2>2. /\ Core(k', {}) /\ CurrentOK(k') /\ Resumed(k, k', X)
        /\ X \in SUBSET Members(k.list[Pool]) /\ X \in SUBSET Waiters(k)
    BY <1>1, <1>3, FreeCore DEF Waiters
  <2>3. Goes(c, "sched", c)
    BY <1>2, ReturnGoes
  <2> HIDE DEF X
  <2>4. ObjInv'
    BY <1>1, <1>2, <2>1, <2>2, <2>3, RunsObjInv
  <2>5. OneDetaches'
    <3>1. "sched" \notin {"ipc_test", "ipc_next"}
      OBVIOUS
    <3>2. \A x \in Thread : Detaches(Pool, pc', x) => Detaches(Pool, pc, x)
      BY <1>1, <2>1, <3>1, OtherDetaches
    <3> QED BY <1>1, <3>2, OneDetachesKept
  <2>6. WaitOK' /\ Steady(FreeResumes(k), k', {}) /\ k.stat[c] # "SUSPEND"
    BY <1>1, <1>2 DEF MpInv, WaitOK, Steady, Runs
  <2> QED BY <1>1, <1>2, <1>3, <2>1, <2>4, <2>5, <2>6, FreeCounts
<1>4. CASE k.list[Pool] = << >>
  <2>1. UNCHANGED pc /\ k' = k
    BY <1>1, <1>4 DEF rt_mp_free, FreeResumes
  <2> QED BY <1>1, <1>2, <1>4, <2>1, FreeQuietly DEF ipcVars
<1> QED BY <1>3, <1>4

\* rt_mp_free in an interrupt handler.
LEMMA IsrFreeInv ==
  ASSUME IsFiniteSet(Thread), MpInv, PoolInv', NEW b, IsrFree(b)
  PROVE  MpInv'
<1>1. /\ pool' = Freed(b) /\ UNCHANGED <<isr, obj, pc, wait>> /\ obj[Pool] = "live"
      /\ k' = (IF k.list[Pool] # << >> THEN rt_schedule(FreeResumes(k)) ELSE k)
      /\ ObjInv /\ IpcInv /\ Pool \in Queue
  BY PoolAssumption DEF IsrFree, MpInv, ObjInv
<1>2. CASE k.list[Pool] # << >>
  <2> DEFINE X == {Head(k.list[Pool])}
             u == FreeResumes(k)
  <2>1. /\ Core(u, {}) /\ CurrentOK(u) /\ Resumed(k, u, X)
        /\ X \in SUBSET Members(k.list[Pool]) /\ k' = rt_schedule(u)
    BY <1>1, <1>2, FreeCore
  <2> HIDE DEF X, u
  <2>2. IpcInv' /\ Steady(u, k', {})
    BY <1>1, <2>1, IsrIpcInv
  <2>3. \A q \in Queue : Members(k'.list[q]) \subseteq Members(k.list[q])
    BY <2>1, <2>2 DEF Resumed, Steady
  <2>4. Attached'
    BY <1>1 DEF ObjInv, Attached
  <2>5. ObjInv'
    BY <1>1, <2>2, <2>3, <2>4, ShrinkObjInv
  <2>6. WaitOK' /\ OneDetaches'
    BY <1>1 DEF MpInv, WaitOK, OneDetaches, Detaches
  <2>7. Idle \in Thread /\ k.stat[Idle] # "SUSPEND" /\ pc[Idle].at \in Label
    <3>1. Idle \in Thread /\ Labels /\ IdleSchedulable(k)
      BY <1>1, ThreadAssumption DEF IpcInv, IInv
    <3> QED BY <3>1 DEF Labels, LabelOK, Label, IdleSchedulable
  <2>8. Steady(FreeResumes(k), k', {})
    BY <2>2 DEF u
  <2>9. obj'[Pool] = "live" /\ "run" \in {"run", "sched"} /\ UNCHANGED pc
    BY <1>1
  <2> QED BY <1>1, <1>2, <2>5, <2>6, <2>7, <2>8, <2>9, FreeCounts
<1>3. CASE k.list[Pool] = << >>
  BY <1>1, <1>3, FreeQuietly DEF ipcVars
<1> QED BY <1>2, <1>3

\* A step of the scheduler, the thread API or the tick interrupt, and the steps
\* all blocking calls share: no thread gets on its way or leaves it.
LEMMA ComingKept ==
  ASSUME SameCalls(Pool) \/ OneCall(Pool, {"waiting"}, "failed"),
         \A x \in Thread : pc'[x].at = "mp_again" <=> pc[x].at = "mp_again"
  PROVE  \A x \in Thread : Coming(k', pc', x) <=> Coming(k, pc, x)
<1>1. ASSUME NEW x \in Thread
      PROVE  CallOf(Pool, k', pc', x) = "granted" <=> CallOf(Pool, k, pc, x) = "granted"
  BY DEF SameCalls, OneCall
<1> QED BY <1>1 DEF Coming

LEMMA MpKernelInv ==
  ASSUME Polite, MpInv, KernelStep, UNCHANGED pool
  PROVE  MpInv'
<1>1. ObjInv /\ Next /\ UNCHANGED obj /\ Pool \in Queue /\ IpcInv
  BY PoolAssumption DEF MpInv, KernelStep, ObjInv
<1>2. ObjInv'
  BY <1>1, NextObjInv
<1>3. SameCalls(Pool) \/ OneCall(Pool, {"waiting"}, "failed")
  BY <1>1, NextCalls
<1>4. Members(k'.list[Pool]) \subseteq Members(k.list[Pool])
  BY <1>1, <1>2, <1>3, EasedCalls DEF Eases
<1>5. \A x \in Thread : Unmoved(x)
  BY <1>1, NextIpcInv
<1>6. \A x \in Thread : /\ pc'[x].at = "mp_again" <=> pc[x].at = "mp_again"
                        /\ Detaches(Pool, pc', x) => Detaches(Pool, pc, x)
  BY <1>5 DEF Unmoved, Label, Detaches
<1>7. \A x \in Thread : Coming(k', pc', x) <=> Coming(k, pc, x)
  BY <1>3, <1>6, ComingKept
<1>8. WaitOK' /\ OneDetaches'
  BY <1>1, <1>6, WaitKept, OneDetachesKept DEF MpInv
<1> QED BY <1>1, <1>2, <1>4, <1>7, <1>8, SameWayInv

\* The steps of c that lead to label l and end no call on the pool.
LEMMA MpContinueInv ==
  ASSUME MpInv, NEW c \in Thread, BlockSchedule(c) \/ ResumeAllTest(c) \/ ResumeAllNext(c),
         UNCHANGED <<wait, pool>>
  PROVE  MpInv'
<1>1. ObjInv /\ Pool \in Queue /\ OneDetaches /\ pc = [x \in Thread |-> pc[x]]
  BY PoolAssumption DEF MpInv, ObjInv, IpcInv, IInv, StateOK
<1>2. ObjInv' /\ (SameCalls(Pool) \/ OneCall(Pool, {"waiting"}, "failed"))
  BY <1>1, BlockScheduleObjInv, BlockScheduleCalls, ResumeAllTestObjInv,
     ResumeAllTestCalls, ResumeAllNextObjInv, ResumeAllNextCalls
<1>3. Members(k'.list[Pool]) \subseteq Members(k.list[Pool])
  BY <1>1, <1>2, EasedCalls DEF Eases
<1>4. PICK l \in {"ipc_end", "ipc_test", "ipc_next", "run"} :
        \E a : pc' = [pc EXCEPT ![c] = At(l, a)]
  BY DEF BlockSchedule, ResumeAllTest, ResumeAllNext, Goto, Return
<1>5. PICK a : pc' = [pc EXCEPT ![c] = At(l, a)]
  BY <1>4
<1>6. /\ pc'[c].at = l /\ pc'[c].arg = a
      /\ \A x \in Thread \ {c} : pc'[x] = pc[x]
  BY <1>1, <1>5 DEF At
<1>7. pc[c].at \in {"ipc_sched", "ipc_test", "ipc_next"}
  BY DEF BlockSchedule, ResumeAllTest, ResumeAllNext, Executes
<1>8. \A x \in Thread : pc'[x].at = "mp_again" <=> pc[x].at = "mp_again"
  BY <1>4, <1>6, <1>7
<1>9. \A x \in Thread : Coming(k', pc', x) <=> Coming(k, pc, x)
  BY <1>2, <1>8, ComingKept
<1>10. \A x \in Thread : Detaches(Pool, pc', x) => Detaches(Pool, pc, x)
  <2>1. CASE BlockSchedule(c)
    <3>1. pc' = [pc EXCEPT ![c] = At("ipc_end", pc[c].arg)]
      BY <2>1 DEF BlockSchedule, Goto
    <3>2. "ipc_end" \notin {"ipc_test", "ipc_next"}
      OBVIOUS
    <3> QED BY <1>1, <3>1, <3>2, OtherDetaches
  <2>2. CASE ResumeAllTest(c) \/ ResumeAllNext(c)
    <3>1. pc[c].at \in {"ipc_test", "ipc_next"} /\ (l = "run" \/ a = pc[c].arg)
      <4>1. pc[c].at \in {"ipc_test", "ipc_next"}
        BY <2>2 DEF ResumeAllTest, ResumeAllNext, Executes
      <4>2. \/ pc' = [pc EXCEPT ![c] = At("run", c)]
            \/ \E m : pc' = [pc EXCEPT ![c] = At(m, pc[c].arg)]
        BY <2>2 DEF ResumeAllTest, ResumeAllNext, Goto, Return
      <4>3. pc'[c].at = "run" \/ pc'[c].arg = pc[c].arg
        BY <1>1, <4>2 DEF At
      <4> QED BY <1>6, <4>1, <4>3
    <3> QED BY <1>6, <3>1 DEF Detaches
  <2> QED BY <2>1, <2>2
<1>11. WaitOK'
  BY WaitKept DEF MpInv
<1>12. CASE UNCHANGED obj
  BY <1>1, <1>2, <1>3, <1>9, <1>10, <1>11, <1>12, OneDetachesKept, SameWayInv
<1>13. CASE obj' # obj
  <2>1. /\ ResumeAllTest(c) /\ pc' = [pc EXCEPT ![c] = At("run", c)]
        /\ obj' = [obj EXCEPT ![pc[c].arg] = "none"] /\ pc[c].at = "ipc_test"
    BY <1>13 DEF BlockSchedule, ResumeAllTest, ResumeAllNext, Goto, Return, Executes
  <2>2. CASE pc[c].arg = Pool
    <3>1. Detaches(Pool, pc, c)
      BY <2>1, <2>2 DEF Detaches
    <3>2. obj[Pool] = "leaving" /\ \A x \in Thread : Detaches(Pool, pc, x) => x = c
      BY <1>1, <3>1 DEF OneDetaches
    <3>3. pc'[c].at = "run"
      BY <1>1, <2>1 DEF At
    <3>4. \A x \in Thread : ~ Detaches(Pool, pc', x)
      BY <1>10, <3>2, <3>3 DEF Detaches
    <3>5. OneDetaches'
      BY <3>4 DEF OneDetaches
    <3> QED BY <1>2, <1>3, <1>9, <1>11, <3>2, <3>5, SameWayInv
  <2>3. CASE pc[c].arg # Pool
    <3>1. obj'[Pool] = obj[Pool]
      BY <1>1, <2>1, <2>3 DEF ObjInv
    <3> QED BY <1>1, <1>2, <1>3, <1>9, <1>10, <1>11, <3>1, OneDetachesKept, SameWayInv
  <2> QED BY <2>2, <2>3
<1> QED BY <1>12, <1>13

\* A caller that was resumed with an error returns, one that was resumed without
\* looks again.
LEMMA MpResumedInv ==
  ASSUME MpInv, NEW c \in Thread,
         \/ RetryFails(c) /\ UNCHANGED pool
         \/ Recalculate(c)
  PROVE  MpInv'
<1>1. /\ ObjInv /\ Pool \in Queue /\ OneDetaches /\ Core(k, {})
      /\ pc = [x \in Thread |-> pc[x]] /\ WaitOK
      /\ k' = k /\ UNCHANGED <<isr, obj, pool>> /\ Executes(c, "ipc_end")
  BY PoolAssumption DEF MpInv, ObjInv, IpcInv, IInv, StateOK, RetryFails,
     Recalculate, Again
<1>2. Runs(c) /\ pc[c].at = "ipc_end"
  <2>1. "ipc_end" \notin Label
    BY DEF Label
  <2> QED BY <1>1, <2>1, IpcExecutes DEF Runs, Executes
<1>3. c \notin Members(k.list[Pool])
  BY <1>1, <1>2, NotSuspended DEF Runs
<1>4. PICK l \in {"run", "mp_again"} : \E a :
        /\ pc' = [pc EXCEPT ![c] = At(l, a)] /\ Goes(c, l, a)
        /\ l = "mp_again" <=> Recalculate(c)
  <2>1. CASE RetryFails(c)
    <3>1. pc' = [pc EXCEPT ![c] = At("run", c)] /\ ~ Recalculate(c)
      BY <2>1 DEF RetryFails, Return, Goto, Recalculate, Again
    <3> QED BY <1>2, <3>1, ReturnGoes
  <2>2. CASE Recalculate(c)
    <3>1. pc' = [pc EXCEPT ![c] = At("mp_again", Pool)]
      BY <2>2 DEF Recalculate, Goto
    <3>2. Goes(c, "mp_again", Pool)
      BY <1>1, <1>2 DEF Goes, LabelOK, RacyLabels, HoldLabels, Label, Runs
    <3> QED BY <2>2, <3>1, <3>2
  <2> QED BY <2>1, <2>2
<1>5. PICK a : /\ pc' = [pc EXCEPT ![c] = At(l, a)] /\ Goes(c, l, a)
               /\ l = "mp_again" <=> Recalculate(c)
  BY <1>4
<1>6. ObjInv'
  BY <1>1, <1>2, <1>5, SameObjInv
<1>7. l \notin WaitLabels /\ l \notin {"ipc_test", "ipc_next"}
  BY <1>4 DEF WaitLabels
<1>8. /\ CallOf(Pool, k', pc', c) = "none"
      /\ \A x \in Thread \ {c} : CallOf(Pool, k', pc', x) = CallOf(Pool, k, pc, x)
  BY <1>1, <1>5, <1>7, MovedCalls
<1>9. pc'[c].at = l /\ \A x \in Thread \ {c} : pc'[x] = pc[x]
  BY <1>1, <1>5 DEF At
<1>10. Coming(k, pc, c) <=> Recalculate(c)
  <2>1. CASE RetryFails(c)
    BY <1>2, <2>1 DEF Coming, CallOf, RetryFails, Recalculate, Again
  <2>2. CASE Recalculate(c)
    BY <1>2, <1>3, <2>2 DEF Coming, CallOf, WaitLabels, Recalculate, Again
  <2> QED BY <2>1, <2>2
<1>11. Coming(k', pc', c) <=> Recalculate(c)
  BY <1>5, <1>8, <1>9 DEF Coming
<1>12. \A x \in Thread : Coming(k', pc', x) <=> Coming(k, pc, x)
  <2>1. ASSUME NEW x \in Thread \ {c} PROVE Coming(k', pc', x) <=> Coming(k, pc, x)
    BY <1>8, <1>9 DEF Coming
  <2> QED BY <1>10, <1>11, <2>1
<1>13. WaitOK'
  <2>1. CASE RetryFails(c)
    BY <1>1, <2>1, WaitKept DEF RetryFails
  <2>2. CASE Recalculate(c)
    <3>1. wait' = [wait EXCEPT ![c] = [timeout |-> Remaining(wait[c]), spent |-> 0]]
      BY <2>2 DEF Recalculate
    <3>2. Remaining(wait[c]) \in Nat \cup {-1}
      BY <1>1, WaitTimes DEF WaitOK
    <3> QED BY <1>1, <3>1, <3>2, WaitKept
  <2> QED BY <2>1, <2>2
<1>14. OneDetaches'
  <2>1. \A x \in Thread : Detaches(Pool, pc', x) => Detaches(Pool, pc, x)
    BY <1>1, <1>5, <1>7, OtherDetaches
  <2> QED BY <1>1, <2>1, OneDetachesKept
<1> QED BY <1>1, <1>6, <1>12, <1>13, <1>14, SameWayInv

\* rt_mp_detach begins.
LEMMA MpDetachInv ==
  ASSUME Polite, MpInv, NEW c \in Thread, rt_mp_detach(c)
  PROVE  MpInv'
<1>1. /\ ObjInv /\ IpcInv /\ Pool \in Queue /\ OneDetaches /\ Detach(c, Pool)
      /\ UNCHANGED <<wait, pool>> /\ OnTheirWay = {}
      /\ pc = [x \in Thread |-> pc[x]] /\ obj \in [Queue -> {"live", "leaving", "none"}]
  BY PoolAssumption DEF MpInv, ObjInv, IpcInv, IInv, StateOK, rt_mp_detach, OnTheirWay
<1>2. /\ k' = k /\ pc' = [pc EXCEPT ![c] = At("ipc_test", Pool)]
      /\ obj[Pool] = "live" /\ obj'[Pool] = "leaving"
  BY <1>1 DEF Detach, Asks, Goto
<1>3. ObjInv' /\ SameCalls(Pool)
  BY <1>1, DetachObjInv, DetachCalls
<1>4. pc[c].at \in Label
  BY <1>1, AsksFacts DEF Detach
<1>5. pc'[c].at = "ipc_test" /\ \A x \in Thread \ {c} : pc'[x] = pc[x]
  BY <1>1, <1>2 DEF At
<1>6. \A x \in Thread : Coming(k', pc', x) <=> Coming(k, pc, x)
  <2>1. \A x \in Thread : pc'[x].at = "mp_again" <=> pc[x].at = "mp_again"
    BY <1>4, <1>5 DEF Label
  <2> QED BY <1>3, <2>1, ComingKept
<1>7. \A x \in Thread : Detaches(Pool, pc', x) => x = c
  BY <1>1, <1>2, <1>5 DEF OneDetaches, Detaches
<1>8. OneDetaches' /\ WaitOK'
  BY <1>1, <1>2, <1>7 DEF OneDetaches, MpInv, WaitOK
<1> QED BY <1>1, <1>2, <1>3, <1>6, <1>8, SameWayInv

\* rt_mp_init gives the pool its blocks back.
LEMMA MpInitializeInv ==
  ASSUME MpInv, PoolInv', NEW c \in Thread, rt_mp_init(c)
  PROVE  MpInv'
<1>1. /\ ObjInv /\ Pool \in Queue /\ OneDetaches /\ Initialize(c, Pool) /\ UNCHANGED wait
      /\ obj \in [Queue -> {"live", "leaving", "none"}]
  BY PoolAssumption DEF MpInv, ObjInv, rt_mp_init
<1>2. /\ UNCHANGED <<k, pc>> /\ obj[Pool] = "none" /\ obj'[Pool] = "live"
  BY <1>1 DEF Initialize
<1>3. ObjInv' /\ WaitOK'
  BY <1>1, InitializeObjInv DEF MpInv, WaitOK
<1>4. OneDetaches'
  BY <1>1, <1>2 DEF OneDetaches, Detaches
<1>5. k'.list[Pool] = << >>
  BY <1>1, <1>2 DEF ObjInv, NobodyLeftBehind
<1> QED BY <1>2, <1>3, <1>4, <1>5 DEF MpInv, BlockNotMissed

\* Every step keeps the invariant.
LEMMA MpInvIsInductive ==
  ASSUME Polite, IsFiniteSet(Thread)
  PROVE  MpInv /\ [MpNext]_poolVars => MpInv'
<1> SUFFICES ASSUME MpInv, [MpNext]_poolVars PROVE MpInv'
  OBVIOUS
<1>1. CASE UNCHANGED poolVars
  <2>1. UNCHANGED <<k, isr, pc, obj, wait, pool>> /\ UNCHANGED ipcVars
    BY <1>1 DEF poolVars, retryVars, ipcVars
  <2>2. ObjInv'
    BY <2>1, UnchangedObjInv DEF MpInv
  <2>3. PoolInv' /\ WaitOK' /\ OneDetaches' /\ BlockNotMissed'
    BY <2>1 DEF MpInv, PoolInv, PoolTypeOK, BlocksConserved, WaitOK, OneDetaches,
       Detaches, BlockNotMissed, OnTheirWay, Granted, Waiting, Inside
  <2>4. OnTheirWay' = OnTheirWay
    BY <2>1 DEF OnTheirWay, Granted, Waiting, Inside
  <2> QED BY <2>1, <2>2, <2>3, <2>4 DEF MpInv
<1>2. CASE MpNext
  <2>1. PoolInv'
    BY <1>2, PoolInvKept DEF MpInv
  <2>2. CASE KernelStep /\ UNCHANGED pool
    BY <2>2, MpKernelInv
  <2>3. ASSUME NEW c \in Thread,
               /\ BlockSchedule(c) \/ ResumeAllTest(c) \/ ResumeAllNext(c)
               /\ UNCHANGED <<wait, due, pool>>
        PROVE  MpInv'
    BY <2>3, MpContinueInv
  <2>4. ASSUME NEW c \in Thread, (RetryFails(c) /\ UNCHANGED pool) \/ Recalculate(c)
        PROVE  MpInv'
    BY <2>4, MpResumedInv
  <2>5. ASSUME NEW c \in Thread, AllocAgain(c) PROVE MpInv'
    <3>1. Executes(c, "mp_again") /\ AllocLoop(c, wait[c].timeout) /\ ObjInv
      BY <2>5 DEF AllocAgain, MpInv
    <3>2. Runs(c) /\ pc[c].at = "mp_again"
      <4>1. "mp_again" \notin Label
        BY DEF Label
      <4> QED BY <3>1, <4>1, IpcExecutes DEF Runs, Executes
    <3>3. obj[Pool] = "live"
      <4>1. c \in OnTheirWay
        BY <3>2 DEF OnTheirWay
      <4> QED BY <4>1 DEF MpInv
    <3>4. wait[c].timeout \in Nat \cup {-1}
      BY DEF MpInv, WaitOK
    <3> QED BY <2>1, <3>1, <3>2, <3>3, <3>4, AllocLoopInv
  <2>6. ASSUME NEW c \in Thread, NEW time \in WaitTime, rt_mp_alloc(c, time) PROVE MpInv'
    <3>1. Asks(c, "alloc", Pool) /\ AllocLoop(c, time) /\ IpcInv
      BY <2>6 DEF rt_mp_alloc, MpInv, ObjInv
    <3>2. Runs(c) /\ pc[c].at = "run" /\ obj[Pool] = "live"
      BY <3>1, AsksFacts DEF Runs, Executes
    <3>3. time \in Nat \cup {-1}
      BY IpcAssumption
    <3> QED BY <2>1, <3>1, <3>2, <3>3, AllocLoopInv
  <2>7. ASSUME NEW c \in Thread, NEW b \in BlockNo, rt_mp_free(c, b) PROVE MpInv'
    BY <2>1, <2>7, FreeInv
  <2>8. ASSUME NEW c \in Thread, rt_mp_detach(c) \/ rt_mp_init(c) PROVE MpInv'
    BY <2>1, <2>8, MpDetachInv, MpInitializeInv
  <2>9. ASSUME NEW b \in BlockNo, IsrFree(b) PROVE MpInv'
    BY <2>1, <2>9, IsrFreeInv
  <2> QED BY <1>2, <2>2, <2>3, <2>4, <2>5, <2>6, <2>7, <2>8, <2>9 DEF MpNext
<1> QED BY <1>1, <1>2

(***************************************************************************)
(* No free block goes unnoticed: whatever threads and interrupt handlers   *)
(* allocate and free, however long a resumed thread takes to look again,   *)
(* whatever times out and is detached, threads wait only while every free  *)
(* block has a resumed thread on its way to it.                            *)
(***************************************************************************)
THEOREM NoBlockIsMissed ==
  ASSUME Polite, IsFiniteSet(Thread)
  PROVE  MpSpec => []BlockNotMissed
<1>1. MpInit => MpInv
  <2> SUFFICES ASSUME MpInit PROVE MpInv
    OBVIOUS
  <2>1. /\ InitStarted /\ RetryStart /\ MpStart /\ Pool \in Queue
    BY PoolAssumption DEF MpInit, RetryInit
  <2>2. ObjInv /\ k.list[Pool] = << >>
    BY <2>1, InitObjInv
  <2>3. PoolInv
    BY <2>1, AllFreeFacts DEF MpStart, PoolInv, PoolTypeOK, BlocksConserved
  <2>4. WaitOK
    <3>1. NotWaiting \in [timeout : Nat \cup {-1}, spent : Nat]
      BY DEF NotWaiting
    <3> QED BY <2>1, <3>1 DEF RetryStart, WaitOK
  <2>5. \A t \in Thread : pc[t].at = "run"
    BY <2>1 DEF InitStarted, Running, At
  <2>6. OneDetaches
    BY <2>5 DEF OneDetaches, Detaches
  <2>7. obj[Pool] = "live"
    BY <2>1 DEF InitStarted, Started
  <2> QED BY <2>2, <2>3, <2>4, <2>6, <2>7 DEF MpInv, BlockNotMissed
<1>2. MpInv => BlockNotMissed
  BY DEF MpInv
<1> QED BY <1>1, <1>2, MpInvIsInductive, PTL DEF MpSpec

-----------------------------------------------------------------------------
(***************************************************************************)
(* The mailbox.  The inductive invariant: in_offset is entry mails ahead   *)
(* of out_offset in the ring, and a caller that waits to send has a mail.  *)
(***************************************************************************)
BoxIndex == 0 .. MailboxSize - 1

\* An offset that has passed the end of the pool at most once.
WrapBox(x) == IF x < MailboxSize THEN x ELSE x - MailboxSize

BoxOK(m) ==
  /\ m \in [pool : [BoxIndex -> Mail \cup {NoMail}], in : BoxIndex,
            out : BoxIndex, entry : 0 .. MailboxSize]
  /\ m.in = WrapBox(m.out + m.entry)

SendersHaveMail ==
  \A t \in Thread :
    pc[t].at \in {"ipc_sched", "ipc_end"} /\ pc[t].arg = Senders => mail[t] \in Mail

MbInv ==
  /\ BoxOK(mb)
  /\ pc = [t \in Thread |-> pc[t]]
  /\ mail \in [Thread -> Mail \cup {NoMail}]
  /\ SendersHaveMail

\* The mails of box m, oldest first.
MailsOf(m) == [i \in 1 .. m.entry |-> m.pool[(m.out + i - 1) % MailboxSize]]

\* An index that has run past the end of the pool wraps to its start.
LEMMA WrapBoxIs ==
  ASSUME NEW x \in Nat, x < 2 * MailboxSize
  PROVE  x % MailboxSize = WrapBox(x) /\ WrapBox(x) \in BoxIndex
BY MailboxAssumption DEF WrapBox, BoxIndex

\* The fields of a box have their types.
LEMMA BoxFields ==
  ASSUME NEW m, BoxOK(m)
  PROVE  /\ MailboxSize \in Nat /\ MailboxSize > 0
         /\ m.in \in Nat /\ m.in < MailboxSize
         /\ m.out \in Nat /\ m.out < MailboxSize
         /\ m.entry \in Nat /\ m.entry <= MailboxSize
         /\ m.pool \in [BoxIndex -> Mail \cup {NoMail}]
<1>1. MailboxSize \in Nat /\ MailboxSize > 0
  BY MailboxAssumption
<1> QED BY <1>1 DEF BoxOK, BoxIndex

\* The mails of a box are a sequence.
LEMMA MailsOfIs ==
  ASSUME NEW m, BoxOK(m)
  PROVE  /\ MailsOf(m) \in Seq(Mail \cup {NoMail})
         /\ Len(MailsOf(m)) = m.entry
         /\ \A i \in 1 .. m.entry : MailsOf(m)[i] = m.pool[WrapBox(m.out + i - 1)]
<1>1. /\ MailboxSize \in Nat /\ m.out \in Nat /\ m.out < MailboxSize
      /\ m.entry \in Nat /\ m.entry <= MailboxSize
      /\ m.pool \in [BoxIndex -> Mail \cup {NoMail}]
  BY BoxFields
<1>2. ASSUME NEW i \in 1 .. m.entry
      PROVE  /\ m.pool[(m.out + i - 1) % MailboxSize] = m.pool[WrapBox(m.out + i - 1)]
             /\ m.pool[WrapBox(m.out + i - 1)] \in Mail \cup {NoMail}
  <2>1. m.out + i - 1 \in Nat /\ m.out + i - 1 < 2 * MailboxSize
    BY <1>1
  <2> QED BY <1>1, <2>1, WrapBoxIs
<1>3. MailsOf(m) \in [1 .. m.entry -> Mail \cup {NoMail}]
  BY <1>2 DEF MailsOf
<1>4. MailsOf(m) \in Seq(Mail \cup {NoMail}) /\ Len(MailsOf(m)) = m.entry
  BY <1>1, <1>3
<1> QED BY <1>2, <1>4 DEF MailsOf

\* Two sequences with the same elements are the same.
LEMMA SameMails ==
  ASSUME NEW V, NEW s \in Seq(V), NEW t \in Seq(V), Len(s) = Len(t),
         \A i \in 1 .. Len(s) : s[i] = t[i]
  PROVE  s = t
BY SeqEqual

\* Advancing an offset is counting modulo the size.
LEMMA AdvanceIs ==
  ASSUME NEW x \in Nat, x < MailboxSize
  PROVE  Advance(x) = WrapBox(x + 1) /\ Advance(x) \in BoxIndex
BY MailboxAssumption DEF Advance, WrapBox, BoxIndex

\* The entry that is written next is none of those that hold a mail, and is
\* the one after the last of them.
LEMMA NextEntry ==
  ASSUME NEW out \in Nat, NEW n \in Nat, out < MailboxSize, n < MailboxSize
  PROVE  /\ WrapBox(out + n + 1) = WrapBox(WrapBox(out + n) + 1)
         /\ WrapBox(out + (n + 1)) = WrapBox(out + n + 1)
         /\ \A i \in 1 .. n : WrapBox(out + i - 1) # WrapBox(out + n)
         /\ WrapBox(out + (n + 1) - 1) = WrapBox(out + n)
BY MailboxAssumption DEF WrapBox

\* Taking the oldest mail renumbers the others.
LEMMA OldestEntry ==
  ASSUME NEW out \in Nat, NEW n \in Nat, out < MailboxSize, n <= MailboxSize, n > 0
  PROVE  /\ WrapBox(out + n) = WrapBox(WrapBox(out + 1) + (n - 1))
         /\ \A i \in 1 .. n - 1 :
              WrapBox(WrapBox(out + 1) + i - 1) = WrapBox(out + (i + 1) - 1)
         /\ WrapBox(out + 1 - 1) = out
BY MailboxAssumption DEF WrapBox

\* Posting a mail appends it to the mails of the box.
LEMMA PostedIs ==
  ASSUME BoxOK(mb), ~ Full, NEW v \in Mail
  PROVE  BoxOK(Posted(v)) /\ MailsOf(Posted(v)) = Append(MailsOf(mb), v)
<1> DEFINE p == Posted(v)
           f == [mb.pool EXCEPT ![mb.in] = v]
           V == Mail \cup {NoMail}
<1>1. /\ MailboxSize \in Nat /\ MailboxSize > 0
      /\ mb.in \in Nat /\ mb.in < MailboxSize
      /\ mb.out \in Nat /\ mb.out < MailboxSize
      /\ mb.entry \in Nat /\ mb.entry < MailboxSize
      /\ mb.pool \in [BoxIndex -> V]
  BY BoxFields DEF Full
<1>2. mb.in \in BoxIndex /\ mb.in = WrapBox(mb.out + mb.entry)
  BY DEF BoxOK
<1>3. /\ f \in [BoxIndex -> V] /\ f[mb.in] = v
      /\ \A i \in BoxIndex \ {mb.in} : f[i] = mb.pool[i]
  BY <1>1, <1>2
<1>4. Advance(mb.in) = WrapBox(mb.in + 1) /\ Advance(mb.in) \in BoxIndex
  BY <1>1, AdvanceIs
<1>5. mb \in [pool : [BoxIndex -> V], in : BoxIndex, out : BoxIndex,
              entry : 0 .. MailboxSize]
  BY DEF BoxOK
<1>6. p = [mb EXCEPT !.pool = f, !.in = Advance(mb.in), !.entry = mb.entry + 1]
  BY <1>5 DEF Posted
<1> HIDE DEF p, f
<1>7. /\ p.pool = f /\ p.in = Advance(mb.in) /\ p.out = mb.out
      /\ p.entry = mb.entry + 1
      /\ p \in [pool : [BoxIndex -> V], in : BoxIndex, out : BoxIndex,
                entry : 0 .. MailboxSize]
  <2>1. mb.entry + 1 \in 0 .. MailboxSize
    BY <1>1
  <2> QED BY <1>3, <1>4, <1>5, <1>6, <2>1
<1>8. /\ WrapBox(mb.out + mb.entry + 1) = WrapBox(WrapBox(mb.out + mb.entry) + 1)
      /\ WrapBox(mb.out + (mb.entry + 1)) = WrapBox(mb.out + mb.entry + 1)
      /\ \A i \in 1 .. mb.entry : WrapBox(mb.out + i - 1) # WrapBox(mb.out + mb.entry)
      /\ WrapBox(mb.out + (mb.entry + 1) - 1) = WrapBox(mb.out + mb.entry)
  BY <1>1, NextEntry
<1>9. BoxOK(p)
  BY <1>2, <1>4, <1>7, <1>8 DEF BoxOK
<1>10. /\ MailsOf(mb) \in Seq(V) /\ Len(MailsOf(mb)) = mb.entry
       /\ \A i \in 1 .. mb.entry : MailsOf(mb)[i] = mb.pool[WrapBox(mb.out + i - 1)]
  BY MailsOfIs
<1>11. /\ MailsOf(p) \in Seq(V) /\ Len(MailsOf(p)) = mb.entry + 1
       /\ \A i \in 1 .. mb.entry + 1 : MailsOf(p)[i] = f[WrapBox(mb.out + i - 1)]
  BY <1>7, <1>9, MailsOfIs
<1> DEFINE a == Append(MailsOf(mb), v)
<1>12. /\ a \in Seq(V) /\ Len(a) = mb.entry + 1 /\ a[mb.entry + 1] = v
       /\ \A i \in 1 .. mb.entry : a[i] = MailsOf(mb)[i]
  BY <1>1, <1>10
<1>13. ASSUME NEW i \in 1 .. mb.entry + 1 PROVE MailsOf(p)[i] = a[i]
  <2>1. MailsOf(p)[i] = f[WrapBox(mb.out + i - 1)]
    BY <1>11
  <2>2. CASE i = mb.entry + 1
    BY <1>2, <1>3, <1>8, <1>12, <2>1, <2>2
  <2>3. CASE i # mb.entry + 1
    <3>1. i \in 1 .. mb.entry
      BY <1>1, <2>3
    <3>2. WrapBox(mb.out + i - 1) \in BoxIndex \ {mb.in}
      <4>1. mb.out + i - 1 \in Nat /\ mb.out + i - 1 < 2 * MailboxSize
        BY <1>1, <3>1
      <4> QED BY <1>2, <1>8, <3>1, <4>1, WrapBoxIs
    <3> QED BY <1>3, <1>10, <1>12, <2>1, <3>1, <3>2
  <2> QED BY <2>2, <2>3
<1> HIDE DEF a
<1>14. MailsOf(p) = a
  BY <1>11, <1>12, <1>13, SameMails
<1> QED BY <1>9, <1>14 DEF p, a

\* Taking a mail takes the first of the mails of the box.
LEMMA TakenIs ==
  ASSUME BoxOK(mb), mb.entry # 0
  PROVE  /\ BoxOK(Taken) /\ MailsOf(Taken) = Tail(MailsOf(mb))
         /\ MailsOf(mb) # << >> /\ Head(MailsOf(mb)) = mb.pool[mb.out]
         /\ mb.pool[mb.out] \in Mail \cup {NoMail}
<1> DEFINE V == Mail \cup {NoMail}
           n == mb.entry
<1>1. /\ MailboxSize \in Nat /\ MailboxSize > 0
      /\ mb.out \in Nat /\ mb.out < MailboxSize
      /\ n \in Nat /\ n <= MailboxSize /\ n > 0
      /\ mb.pool \in [BoxIndex -> V]
  BY BoxFields
<1>2. mb.out \in BoxIndex /\ mb.in = WrapBox(mb.out + n)
  BY DEF BoxOK
<1>3. Advance(mb.out) = WrapBox(mb.out + 1) /\ Advance(mb.out) \in BoxIndex
  BY <1>1, AdvanceIs
<1>4. mb \in [pool : [BoxIndex -> V], in : BoxIndex, out : BoxIndex,
              entry : 0 .. MailboxSize]
  BY DEF BoxOK
<1> DEFINE p == Taken
<1>5. p = [mb EXCEPT !.out = Advance(mb.out), !.entry = n - 1]
  BY <1>4 DEF Taken
<1> HIDE DEF p
<1>6. /\ p.pool = mb.pool /\ p.in = mb.in /\ p.out = Advance(mb.out)
      /\ p.entry = n - 1
      /\ p \in [pool : [BoxIndex -> V], in : BoxIndex, out : BoxIndex,
                entry : 0 .. MailboxSize]
  <2>1. n - 1 \in 0 .. MailboxSize
    BY <1>1
  <2> QED BY <1>3, <1>4, <1>5, <2>1
<1>7. /\ WrapBox(mb.out + n) = WrapBox(WrapBox(mb.out + 1) + (n - 1))
      /\ \A i \in 1 .. n - 1 :
           WrapBox(WrapBox(mb.out + 1) + i - 1) = WrapBox(mb.out + (i + 1) - 1)
      /\ WrapBox(mb.out + 1 - 1) = mb.out
  BY <1>1, OldestEntry
<1>8. BoxOK(p)
  BY <1>2, <1>3, <1>6, <1>7 DEF BoxOK
<1>9. /\ MailsOf(mb) \in Seq(V) /\ Len(MailsOf(mb)) = n
      /\ \A i \in 1 .. n : MailsOf(mb)[i] = mb.pool[WrapBox(mb.out + i - 1)]
  BY MailsOfIs
<1>10. /\ MailsOf(p) \in Seq(V) /\ Len(MailsOf(p)) = n - 1
       /\ \A i \in 1 .. n - 1 : MailsOf(p)[i] = mb.pool[WrapBox(Advance(mb.out) + i - 1)]
  BY <1>6, <1>8, MailsOfIs
<1> HIDE DEF n
<1> DEFINE a == Tail(MailsOf(mb))
<1>11. MailsOf(mb) # << >> /\ Head(MailsOf(mb)) = MailsOf(mb)[1]
  BY <1>1, <1>9
<1>12. /\ a \in Seq(V) /\ Len(a) = n - 1
       /\ \A i \in 1 .. n - 1 : a[i] = MailsOf(mb)[i + 1]
  BY <1>1, <1>9, <1>11
<1>13. ASSUME NEW i \in 1 .. n - 1 PROVE MailsOf(p)[i] = a[i]
  <2>1. i + 1 \in 1 .. n
    BY <1>1
  <2>2. MailsOf(mb)[i + 1] = mb.pool[WrapBox(mb.out + (i + 1) - 1)]
    BY <1>9, <2>1
  <2> QED BY <1>3, <1>7, <1>10, <1>12, <2>2
<1> HIDE DEF a
<1>14. MailsOf(p) = a
  BY ZenonT(60), <1>10, <1>12, <1>13, SameMails
<1>15. MailsOf(mb)[1] = mb.pool[mb.out]
  BY <1>1, <1>7, <1>9
<1>16. mb.pool[mb.out] \in V
  BY <1>1, <1>2
<1> QED BY <1>8, <1>11, <1>14, <1>15, <1>16 DEF p, a

-----------------------------------------------------------------------------
\* The labels at which a receiver has taken its mail.
ReceivedAt == {"mb_sched", "mb_return"}

\* A step of thread t that leaves every other thread's receiving alone.
LEMMA ReceivingIs ==
  ASSUME MbInv, NEW t \in Thread, NEW l, NEW a,
         pc' = [pc EXCEPT ![t] = At(l, a)],
         \A x \in Thread \ {t} : mail'[x] = mail[x]
  PROVE  Receiving' = [Receiving EXCEPT
                         ![t] = IF l \in ReceivedAt THEN mail'[t] ELSE NoMail]
<1>1. pc = [x \in Thread |-> pc[x]]
  BY DEF MbInv
<1>2. pc'[t].at = l /\ \A x \in Thread \ {t} : pc'[x] = pc[x]
  BY <1>1 DEF At
<1> QED BY <1>2 DEF Receiving, ReceivedAt

\* The parts of the invariant that are not about the box.
LEMMA SendersKept ==
  ASSUME MbInv, NEW t \in Thread, NEW l, NEW a,
         pc' = [pc EXCEPT ![t] = At(l, a)],
         mail' \in [Thread -> Mail \cup {NoMail}],
         \A x \in Thread \ {t} : mail'[x] = mail[x],
         l \in {"ipc_sched", "ipc_end"} /\ a = Senders => mail'[t] \in Mail,
         BoxOK(mb')
  PROVE  MbInv'
<1>1. pc = [x \in Thread |-> pc[x]]
  BY DEF MbInv
<1>2. /\ pc'[t].at = l /\ pc'[t].arg = a
      /\ \A x \in Thread \ {t} : pc'[x] = pc[x]
      /\ pc' = [x \in Thread |-> pc'[x]]
  BY <1>1 DEF At
<1>3. SendersHaveMail'
  BY <1>2 DEF MbInv, SendersHaveMail
<1> QED BY <1>2, <1>3 DEF MbInv, BoxOK

\* What a step of the mailbox has to be: one of the channel, or none.
ChannelStep ==
  \/ Contents' = Contents /\ Receiving' = Receiving
  \/ \E v \in Mail : /\ Len(Contents) < MailboxSize
                     /\ Contents' = Append(Contents, v)
                     /\ Receiving' = Receiving
  \/ \E c \in Thread : /\ Contents # << >>
                       /\ Receiving' = [Receiving EXCEPT ![c] = Head(Contents)]
                       /\ Contents' = Tail(Contents)
  \/ \E c \in Thread : /\ Receiving' = [Receiving EXCEPT ![c] = NoMail]
                       /\ Contents' = Contents
  \/ Contents' = << >> /\ Receiving' = Receiving

\* A thread that is in no receiving call and does not complete one.
LEMMA SameReceiving ==
  ASSUME MbInv, NEW t \in Thread, NEW l, NEW a,
         pc' = [pc EXCEPT ![t] = At(l, a)],
         pc[t].at \notin ReceivedAt, l \notin ReceivedAt,
         \A x \in Thread \ {t} : mail'[x] = mail[x]
  PROVE  Receiving' = Receiving
<1>1. Receiving' = [Receiving EXCEPT ![t] = NoMail]
  BY ReceivingIs
<1>2. Receiving[t] = NoMail /\ Receiving = [x \in Thread |-> Receiving[x]]
  BY DEF Receiving, ReceivedAt
<1> QED BY <1>1, <1>2

\* A step that leaves the box and the mails alone.
LEMMA SameBox ==
  ASSUME MbInv, UNCHANGED <<mb, mail>>, NEW t \in Thread, NEW l, NEW a,
         pc' = [pc EXCEPT ![t] = At(l, a)], l \notin ReceivedAt,
         l \in {"ipc_sched", "ipc_end"} /\ a = Senders => mail[t] \in Mail
  PROVE  MbInv' /\ ChannelStep
<1>1. MbInv'
  BY SendersKept DEF MbInv
<1>2. Contents' = Contents
  BY DEF Contents
<1>3. Receiving' = [Receiving EXCEPT ![t] = NoMail]
  BY ReceivingIs
<1> QED BY <1>1, <1>2, <1>3 DEF ChannelStep

\* A step that leaves the mailbox and the continuations alone.
LEMMA SamePc ==
  ASSUME MbInv, UNCHANGED <<pc, mb, mail>>
  PROVE  MbInv' /\ ChannelStep
<1>1. Contents' = Contents /\ Receiving' = Receiving
  BY DEF Contents, Receiving
<1>2. MbInv'
  BY DEF MbInv, SendersHaveMail, BoxOK
<1> QED BY <1>1, <1>2 DEF ChannelStep

\* The scheduler, the thread API and the tick interrupt.
LEMMA MbKernelStep ==
  ASSUME MbInv, KernelStep, UNCHANGED <<mb, mail>>
  PROVE  MbInv' /\ ChannelStep
<1>1. CASE UNCHANGED pc
  BY <1>1, SamePc
<1>2. ASSUME NEW t \in Thread, NEW l \in Label, NEW a,
             pc' = [pc EXCEPT ![t] = At(l, a)]
      PROVE  MbInv' /\ ChannelStep
  <2>1. l \notin ReceivedAt /\ l \notin {"ipc_sched", "ipc_end"}
    BY <1>2 DEF Label, ReceivedAt
  <2> QED BY <1>2, <2>1, SameBox
<1> QED BY <1>1, <1>2, NextPc DEF KernelStep

\* The later steps of blocking calls.
LEMMA MbContinueStep ==
  ASSUME MbInv, NEW c \in Thread, ChannelContinue(c), UNCHANGED <<mb, mail>>
  PROVE  MbInv' /\ ChannelStep
<1>1. CASE BlockSchedule(c)
  <2>1. pc[c].at = "ipc_sched" /\ pc' = [pc EXCEPT ![c] = At("ipc_end", pc[c].arg)]
    BY <1>1 DEF BlockSchedule, Executes, Goto
  <2>2. pc[c].arg = Senders => mail[c] \in Mail
    BY <2>1 DEF MbInv, SendersHaveMail
  <2>3. "ipc_end" \notin ReceivedAt
    BY DEF ReceivedAt
  <2> QED BY <2>1, <2>2, <2>3, SameBox
<1>2. ASSUME NEW l \in {"ipc_test", "ipc_next", "run"}, NEW a, Goto(c, l, a)
      PROVE  MbInv' /\ ChannelStep
  <2>1. pc' = [pc EXCEPT ![c] = At(l, a)]
    BY <1>2 DEF Goto
  <2>2. l \notin ReceivedAt /\ l \notin {"ipc_sched", "ipc_end"}
    BY <1>2 DEF ReceivedAt
  <2> QED BY <2>1, <2>2, SameBox
<1> QED BY <1>1, <1>2 DEF ChannelContinue, ResumeAllNext, ResumeBothTest,
           ReceiversResumed, ResumeAllTest, RetryFails, Return

\* rt_mb_send_wait, when it is called and whenever it looks again.
LEMMA MbSendStep ==
  ASSUME MbInv, NEW c \in Thread, NEW v \in Mail, NEW time, SendLoop(c, v, time),
         pc[c].at \notin ReceivedAt
  PROVE  MbInv' /\ ChannelStep
<1> DEFINE none == [mail EXCEPT ![c] = NoMail]
           one  == [mail EXCEPT ![c] = v]
<1>1. /\ none \in [Thread -> Mail \cup {NoMail}]
      /\ \A x \in Thread \ {c} : none[x] = mail[x]
      /\ one \in [Thread -> Mail \cup {NoMail}] /\ one[c] = v
      /\ \A x \in Thread \ {c} : one[x] = mail[x]
  BY DEF MbInv
<1> HIDE DEF none, one
<1>2. CASE ~ Full /\ Deposit(c, v)
  <2>1. mb' = Posted(v) /\ mail' = none
    BY <1>2 DEF Deposit, none
  <2>2. PICK l \in {"sched", "run"} : pc' = [pc EXCEPT ![c] = At(l, c)]
    BY <1>2 DEF Deposit, Completes, Goto, Return
  <2>3. l \notin ReceivedAt /\ l \notin {"ipc_sched", "ipc_end"}
    BY <2>2 DEF ReceivedAt
  <2>4. BoxOK(mb') /\ MailsOf(mb') = Append(MailsOf(mb), v)
    BY <1>2, <2>1, PostedIs DEF MbInv
  <2>5. MbInv'
    BY <1>1, <2>1, <2>2, <2>3, <2>4, SendersKept
  <2>6. Receiving' = Receiving
    BY <1>1, <2>1, <2>2, <2>3, SameReceiving
  <2>7. Contents' = Append(Contents, v)
    BY <2>4 DEF Contents, MailsOf
  <2>8. Len(Contents) < MailboxSize
    <3>1. mb.entry \in Nat /\ mb.entry < MailboxSize
      BY <1>2, BoxFields DEF Full, MbInv
    <3>2. Len(MailsOf(mb)) = mb.entry
      BY MailsOfIs DEF MbInv
    <3> QED BY <3>1, <3>2 DEF Contents, MailsOf
  <2> QED BY <2>5, <2>6, <2>7, <2>8 DEF ChannelStep
<1>3. CASE Return(c) /\ mail' = none /\ UNCHANGED mb
  <2>1. pc' = [pc EXCEPT ![c] = At("run", c)] /\ "run" \notin ReceivedAt
    BY <1>3 DEF Return, Goto, ReceivedAt
  <2>2. MbInv'
    BY <1>1, <1>3, <2>1, SendersKept DEF MbInv
  <2>3. Receiving' = Receiving
    BY <1>1, <1>3, <2>1, SameReceiving
  <2>4. Contents' = Contents
    BY <1>3 DEF Contents
  <2> QED BY <2>2, <2>3, <2>4 DEF ChannelStep
<1>4. CASE Goto(c, "ipc_sched", Senders) /\ mail' = one /\ UNCHANGED mb
  <2>1. /\ pc' = [pc EXCEPT ![c] = At("ipc_sched", Senders)]
        /\ "ipc_sched" \notin ReceivedAt
    BY <1>4 DEF Goto, ReceivedAt
  <2>2. MbInv'
    BY <1>1, <1>4, <2>1, SendersKept DEF MbInv
  <2>3. Receiving' = Receiving
    BY <1>1, <1>4, <2>1, SameReceiving
  <2>4. Contents' = Contents
    BY <1>4 DEF Contents
  <2> QED BY <2>2, <2>3, <2>4 DEF ChannelStep
<1> QED BY <1>2, <1>3, <1>4 DEF SendLoop, Waits, none, one

\* rt_mb_recv, when it is called and whenever it looks again.
LEMMA MbRecvStep ==
  ASSUME MbInv, NEW c \in Thread, NEW time, RecvLoop(c, time)
  PROVE  MbInv' /\ ChannelStep
<1>1. CASE mb.entry # 0 /\ Withdraw(c)
  <2> DEFINE m == mb.pool[mb.out]
             got == [mail EXCEPT ![c] = m]
  <2>1. /\ BoxOK(Taken) /\ MailsOf(Taken) = Tail(MailsOf(mb))
        /\ MailsOf(mb) # << >> /\ Head(MailsOf(mb)) = m
        /\ m \in Mail \cup {NoMail}
    BY <1>1, TakenIs DEF MbInv
  <2>2. mb' = Taken /\ mail' = got
    BY <1>1 DEF Withdraw
  <2> HIDE DEF m
  <2>3. /\ got \in [Thread -> Mail \cup {NoMail}] /\ got[c] = m
        /\ \A x \in Thread \ {c} : got[x] = mail[x]
    BY <2>1 DEF MbInv
  <2> HIDE DEF got
  <2>4. PICK l \in ReceivedAt : pc' = [pc EXCEPT ![c] = At(l, Senders)]
    BY <1>1 DEF Withdraw, Goto, ReceivedAt
  <2>5. l \notin {"ipc_sched", "ipc_end"}
    BY <2>4 DEF ReceivedAt
  <2>6. MbInv'
    BY <2>1, <2>2, <2>3, <2>4, <2>5, SendersKept
  <2>7. Receiving' = [Receiving EXCEPT ![c] = m]
    BY <2>2, <2>3, <2>4, ReceivingIs
  <2>8. /\ Contents' = Tail(Contents) /\ Contents # << >>
        /\ Head(Contents) = m
    BY <2>1, <2>2 DEF Contents, MailsOf
  <2> QED BY <2>6, <2>7, <2>8 DEF ChannelStep
<1>2. CASE Return(c) /\ UNCHANGED <<mb, mail>>
  <2>1. pc' = [pc EXCEPT ![c] = At("run", c)] /\ "run" \notin ReceivedAt
    BY <1>2 DEF Return, Goto, ReceivedAt
  <2> QED BY <1>2, <2>1, SameBox
<1>3. CASE Goto(c, "ipc_sched", Receivers) /\ UNCHANGED <<mb, mail>>
  <2>1. /\ pc' = [pc EXCEPT ![c] = At("ipc_sched", Receivers)]
        /\ "ipc_sched" \notin ReceivedAt
    BY <1>3 DEF Goto, ReceivedAt
  <2>2. Receivers # Senders
    BY ChannelAssumption
  <2> QED BY <1>3, <2>1, <2>2, SameBox
<1> QED BY <1>1, <1>2, <1>3 DEF RecvLoop, Waits

\* rt_mb_recv after it has taken a mail: rt_schedule, and the return.
LEMMA MbReturnStep ==
  ASSUME MbInv, NEW c \in Thread, RecvSchedule(c) \/ RecvReturn(c)
  PROVE  MbInv' /\ ChannelStep
<1>1. CASE RecvSchedule(c)
  <2>1. /\ pc' = [pc EXCEPT ![c] = At("mb_return", Senders)]
        /\ pc[c].at = "mb_sched" /\ UNCHANGED <<mb, mail>>
    BY <1>1 DEF RecvSchedule, Goto, Executes
  <2>2. MbInv'
    BY <2>1, SendersKept DEF MbInv
  <2>3. Receiving' = [Receiving EXCEPT ![c] = mail[c]]
    BY <2>1, ReceivingIs DEF ReceivedAt
  <2>4. Receiving[c] = mail[c] /\ Receiving = [x \in Thread |-> Receiving[x]]
    BY <2>1 DEF Receiving
  <2>5. Contents' = Contents
    BY <2>1 DEF Contents
  <2> QED BY <2>2, <2>3, <2>4, <2>5 DEF ChannelStep
<1>2. CASE RecvReturn(c)
  <2> DEFINE none == [mail EXCEPT ![c] = NoMail]
  <2>1. /\ none \in [Thread -> Mail \cup {NoMail}]
        /\ \A x \in Thread \ {c} : none[x] = mail[x]
    BY DEF MbInv
  <2>2. /\ pc' = [pc EXCEPT ![c] = At("run", c)]
        /\ UNCHANGED mb /\ mail' = none
    BY <1>2 DEF RecvReturn, Return, Goto
  <2> HIDE DEF none
  <2>3. MbInv'
    BY <2>1, <2>2, SendersKept DEF MbInv
  <2>4. Receiving' = [Receiving EXCEPT ![c] = NoMail]
    <3>1. "run" \notin ReceivedAt
      BY DEF ReceivedAt
    <3> QED BY <2>1, <2>2, <3>1, ReceivingIs
  <2>5. Contents' = Contents
    BY <2>2 DEF Contents
  <2> QED BY <2>3, <2>4, <2>5 DEF ChannelStep
<1> QED BY <1>1, <1>2

\* A box that has been emptied.
LEMMA EmptyIs ==
  ASSUME NEW f \in [BoxIndex -> Mail \cup {NoMail}]
  PROVE  BoxOK(EmptyBox(f)) /\ MailsOf(EmptyBox(f)) = << >>
<1> DEFINE m == EmptyBox(f)
<1>1. MailboxSize \in Nat /\ MailboxSize > 0 /\ 0 \in BoxIndex
  BY MailboxAssumption DEF BoxIndex
<1>2. m = [pool |-> f, in |-> 0, out |-> 0, entry |-> 0]
  BY DEF EmptyBox
<1> HIDE DEF m
<1>3. BoxOK(m)
  BY <1>1, <1>2 DEF BoxOK, WrapBox
<1>4. m.entry = 0
  BY <1>2
<1>5. MailsOf(m) \in Seq(Mail \cup {NoMail}) /\ Len(MailsOf(m)) = 0
  BY <1>3, <1>4, MailsOfIs
<1> QED BY <1>3, <1>5 DEF m

\* rt_mb_control, rt_mb_init and rt_mb_detach.
LEMMA MbManageStep ==
  ASSUME MbInv, NEW c \in Thread,
         rt_mb_control(c) \/ rt_mb_init(c) \/ rt_mb_detach(c)
  PROVE  MbInv' /\ ChannelStep
<1>1. BoxOK(EmptyBox(mb.pool)) /\ MailsOf(EmptyBox(mb.pool)) = << >>
  BY BoxFields, EmptyIs DEF MbInv
<1>2. CASE rt_mb_control(c)
  <2>1. /\ pc' = [pc EXCEPT ![c] = At("sched", c)] /\ pc[c].at = "run"
        /\ mb' = EmptyBox(mb.pool) /\ UNCHANGED mail
    BY <1>2 DEF rt_mb_control, Goto, Asks, Executes
  <2>2. MbInv'
    BY <1>1, <2>1, SendersKept DEF MbInv
  <2>3. Receiving' = Receiving
    BY ZenonT(60), <2>1, SameReceiving DEF ReceivedAt
  <2>4. Contents' = << >>
    BY <1>1, <2>1 DEF Contents, MailsOf
  <2> QED BY <2>2, <2>3, <2>4 DEF ChannelStep
<1>3. CASE rt_mb_init(c)
  <2>1. mb' = EmptyBox(mb.pool) /\ UNCHANGED <<pc, mail>>
    BY <1>3 DEF rt_mb_init, InitializeBoth
  <2>2. MbInv'
    BY <1>1, <2>1 DEF MbInv, SendersHaveMail, BoxOK
  <2>3. Receiving' = Receiving
    BY <2>1 DEF Receiving
  <2>4. Contents' = << >>
    BY <1>1, <2>1 DEF Contents, MailsOf
  <2> QED BY <2>2, <2>3, <2>4 DEF ChannelStep
<1>4. CASE rt_mb_detach(c)
  <2>1. /\ pc' = [pc EXCEPT ![c] = At("ipc_test", Receivers)]
        /\ UNCHANGED <<mb, mail>>
    BY <1>4 DEF rt_mb_detach, DetachBoth, Goto
  <2>2. "ipc_test" \notin ReceivedAt
    BY DEF ReceivedAt
  <2> QED BY <2>1, <2>2, SameBox
<1> QED BY <1>2, <1>3, <1>4

\* rt_mb_send in an interrupt handler.
LEMMA MbIsrStep ==
  ASSUME MbInv, NEW v \in Mail, IsrMbSend(v)
  PROVE  MbInv' /\ ChannelStep
<1>1. ~ Full /\ mb' = Posted(v) /\ UNCHANGED <<pc, mail>>
  BY DEF IsrMbSend
<1>2. BoxOK(mb') /\ MailsOf(mb') = Append(MailsOf(mb), v)
  BY <1>1, PostedIs DEF MbInv
<1>3. MbInv'
  BY <1>1, <1>2 DEF MbInv, SendersHaveMail, BoxOK
<1>4. Receiving' = Receiving
  BY <1>1 DEF Receiving
<1>5. Contents' = Append(Contents, v)
  BY <1>2 DEF Contents, MailsOf
<1>6. Len(Contents) < MailboxSize
  <2>1. mb.entry \in Nat /\ mb.entry < MailboxSize
    BY <1>1, BoxFields DEF Full, MbInv
  <2>2. Len(MailsOf(mb)) = mb.entry
    BY MailsOfIs DEF MbInv
  <2> QED BY <2>1, <2>2 DEF Contents, MailsOf
<1> QED BY <1>3, <1>4, <1>5, <1>6 DEF ChannelStep

\* Every step keeps the invariant and is a step of the channel.
LEMMA MbSteps ==
  ASSUME MbInv, [MbNext]_mbVars
  PROVE  MbInv' /\ ChannelStep
<1>1. CASE UNCHANGED mbVars
  <2>1. UNCHANGED <<pc, mb, mail>>
    BY <1>1 DEF mbVars, retryVars, ipcVars
  <2> QED BY <2>1, SamePc
<1>2. ASSUME NEW c \in Thread, SendAgain(c) PROVE MbInv' /\ ChannelStep
  <2>1. pc[c].at = "ipc_end" /\ pc[c].arg = Senders
    BY <1>2 DEF SendAgain, Again, Executes
  <2>2. mail[c] \in Mail /\ pc[c].at \notin ReceivedAt
    BY <2>1 DEF MbInv, SendersHaveMail, ReceivedAt
  <2> QED BY <1>2, <2>2, MbSendStep DEF SendAgain
<1>3. ASSUME NEW c \in Thread, NEW v \in Mail, NEW time, rt_mb_send_wait(c, v, time)
      PROVE  MbInv' /\ ChannelStep
  <2>1. pc[c].at \notin ReceivedAt
    BY <1>3 DEF rt_mb_send_wait, Asks, Executes, ReceivedAt
  <2> QED BY <1>3, <2>1, MbSendStep DEF rt_mb_send_wait
<1>4. ASSUME NEW c \in Thread,
             RecvAgain(c) \/ \E time \in WaitTime : rt_mb_recv(c, time)
      PROVE  MbInv' /\ ChannelStep
  BY <1>4, MbRecvStep DEF RecvAgain, rt_mb_recv
<1> QED BY <1>1, <1>2, <1>3, <1>4, MbKernelStep, MbContinueStep, MbReturnStep,
           MbManageStep, MbIsrStep DEF MbNext

\* The mailbox is empty at first.
LEMMA MbInitInv ==
  ASSUME MbInit
  PROVE  MbInv /\ Contents = << >> /\ Receiving = [t \in Thread |-> NoMail]
<1> DEFINE f == [i \in BoxIndex |-> NoMail]
<1>1. /\ mb = EmptyBox(f) /\ mail = [t \in Thread |-> NoMail]
      /\ pc = [t \in Thread |-> At("run", t)]
  BY DEF MbInit, MbStart, RetryInit, InitStarted, Running, BoxIndex
<1>2. f \in [BoxIndex -> Mail \cup {NoMail}]
  OBVIOUS
<1> HIDE DEF f
<1>3. BoxOK(mb) /\ MailsOf(mb) = << >>
  BY <1>1, <1>2, EmptyIs
<1>4. \A t \in Thread : pc[t].at = "run"
  BY <1>1 DEF At
<1> QED BY <1>1, <1>3, <1>4
        DEF MbInv, SendersHaveMail, Contents, MailsOf, Receiving

(***************************************************************************)
(* The mailbox implements a bounded channel, in every program: mails are   *)
(* delivered once, unchanged and in the order they were sent, whichever    *)
(* thread or interrupt handler sends them and whatever waits, times out,   *)
(* is resumed late or is reset in between.                                 *)
(***************************************************************************)
THEOREM MailboxImplementsChannel == MbSpec => MailboxIsChannel
<1>1. MbInit => MbInv
  BY MbInitInv
<1>2. MbInv /\ [MbNext]_mbVars => MbInv'
  BY MbSteps
<1>3. MbInit => MbChannel!CInit
  BY MbInitInv DEF MbChannel!CInit
<1>4. MbInv /\ [MbNext]_mbVars => [MbChannel!CNext]_MbChannel!cVars
  <2> SUFFICES ASSUME MbInv, [MbNext]_mbVars
               PROVE  [MbChannel!CNext]_MbChannel!cVars
    OBVIOUS
  <2>1. ChannelStep
    BY MbSteps
  <2> QED BY <2>1 DEF ChannelStep, MbChannel!CNext, MbChannel!cVars,
             MbChannel!CSend, MbChannel!CReceive, MbChannel!CReturn, MbChannel!CReset
<1> QED BY <1>1, <1>2, <1>3, <1>4, PTL DEF MbSpec, MailboxIsChannel, MbChannel!CSpec

-----------------------------------------------------------------------------
(***************************************************************************)
(* The waiters of a channel, that is, of the mailbox or the message queue. *)
(* Receivers wait for contents and senders for room; n is how much there   *)
(* is of what the callers on q wait for, which is for the object to say.   *)
(***************************************************************************)
Grants(q, kk, p) == {t \in Thread : CallOf(q, kk, p, t) = "granted"}

Noticed(q, kk, p, n) == kk.list[q] # << >> => n <= Cardinality(Grants(q, kk, p))

\* What a step does to it when the amount stays as it was, when one is taken,
\* and when one is added.
NoMore(q) == \A n \in Nat : Noticed(q, k, pc, n) => Noticed(q, k', pc', n)

OneLess(q) == \A n \in Nat : Noticed(q, k, pc, n + 1) => Noticed(q, k', pc', n)

OneMore(q) == \A n \in Nat : Noticed(q, k, pc, n) => Noticed(q, k', pc', n + 1)

\* One thread at most detaches the object; it empties the list of the
\* receivers first.  Nobody who has been resumed and looks again finds an
\* object that is not live.
BothDetach ==
  /\ \A t \in Thread :
       /\ Detaches(Receivers, pc, t) => obj[Receivers] = "leaving" /\ obj[Senders] = "leaving"
       /\ Detaches(Senders, pc, t) => obj[Receivers] = "none" /\ obj[Senders] = "leaving"
       /\ Detaches(Receivers, pc, t) \/ Detaches(Senders, pc, t) =>
            \A x \in Thread :
              Detaches(Receivers, pc, x) \/ Detaches(Senders, pc, x) => x = t
  /\ obj[Receivers] = "live" <=> obj[Senders] = "live"

LiveIfGranted ==
  obj[Receivers] # "live" => \A q \in BothLists : Grants(q, k, pc) = {}

ChannelInv == ObjInv /\ WaitOK /\ BothDetach /\ LiveIfGranted

\* The set of those on their way, as the models define it.
LEMMA GrantedAre ==
  ASSUME NEW q
  PROVE  Granted(q) = Grants(q, k, pc)
BY CallsAre DEF Grants

\* The number of those on their way.
LEMMA GrantsCount ==
  ASSUME IsFiniteSet(Thread), NEW q, NEW kk, NEW p
  PROVE  Grants(q, kk, p) \in SUBSET Thread /\ Cardinality(Grants(q, kk, p)) \in Nat
<1>1. Grants(q, kk, p) \in SUBSET Thread
  BY DEF Grants
<1> QED BY <1>1, FS_Subset, FS_CardinalityType

\* The functions of the invariant.
LEMMA ChannelFacts ==
  ASSUME ChannelInv
  PROVE  /\ pc = [x \in Thread |-> pc[x]] /\ obj \in [Queue -> {"live", "leaving", "none"}]
         /\ IpcInv /\ Core(k, {}) /\ CurrentOK(k)
         /\ Receivers \in Queue /\ Senders \in Queue /\ Receivers # Senders
         /\ BothLists = {Receivers, Senders}
BY ChannelAssumption DEF ChannelInv, ObjInv, IpcInv, IInv, StateOK, BothLists

\* Nobody joins the list, nobody is newly granted or stops being so.
LEMMA KeptNotice ==
  ASSUME ObjInv, ObjInv', NEW q \in Queue,
         Members(k'.list[q]) \subseteq Members(k.list[q]),
         \A x \in Thread : CallOf(q, k', pc', x) = "granted" <=>
                           CallOf(q, k, pc, x) = "granted"
  PROVE  NoMore(q) /\ Grants(q, k', pc') = Grants(q, k, pc)
<1>1. Grants(q, k', pc') = Grants(q, k, pc)
  BY DEF Grants
<1>2. k.list[q] = << >> => k'.list[q] = << >>
  BY StaysEmpty DEF ObjInv, IpcInv, IInv
<1> QED BY <1>1, <1>2 DEF Noticed, NoMore

\* Somebody, who may have been on its way, takes one.
LEMMA TakenNotice ==
  ASSUME IsFiniteSet(Thread), ObjInv, ObjInv', NEW q \in Queue, NEW c \in Thread,
         Members(k'.list[q]) \subseteq Members(k.list[q]), CallOf(q, k', pc', c) = "none",
         \A x \in Thread \ {c} : CallOf(q, k', pc', x) = CallOf(q, k, pc, x)
  PROVE  OneLess(q)
<1>1. Grants(q, k', pc') = Grants(q, k, pc) \ {c} /\ Grants(q, k, pc) \in SUBSET Thread
  BY DEF Grants
<1>2. k.list[q] = << >> => k'.list[q] = << >>
  BY StaysEmpty DEF ObjInv, IpcInv, IInv
<1> DEFINE G == Cardinality(Grants(q, k, pc))
           H == Cardinality(Grants(q, k', pc'))
<1>3. G \in Nat /\ H \in Nat /\ G - 1 <= H
  BY <1>1, CountThreads
<1>4. ASSUME NEW n \in Nat, Noticed(q, k, pc, n + 1) PROVE Noticed(q, k', pc', n)
  <2>1. k.list[q] # << >> => n + 1 <= G
    BY <1>4 DEF Noticed
  <2>2. k'.list[q] # << >> => n <= H
    <3> HIDE DEF G, H
    <3> QED BY <1>2, <1>3, <2>1
  <2> QED BY <2>2 DEF Noticed
<1> QED BY <1>4 DEF OneLess

\* There is one more, and one more on its way to it.
LEMMA AddedNotice ==
  ASSUME IsFiniteSet(Thread), NEW q, k.list[q] # << >>, NEW t \in Thread,
         CallOf(q, k, pc, t) # "granted", CallOf(q, k', pc', t) = "granted",
         \A x \in Thread \ {t} : CallOf(q, k', pc', x) = CallOf(q, k, pc, x)
  PROVE  OneMore(q)
<1>1. /\ Grants(q, k', pc') = Grants(q, k, pc) \cup {t}
      /\ Grants(q, k, pc) \in SUBSET Thread /\ t \notin Grants(q, k, pc)
  BY DEF Grants
<1> DEFINE G == Cardinality(Grants(q, k, pc))
           H == Cardinality(Grants(q, k', pc'))
<1>2. G \in Nat /\ H = G + 1
  BY <1>1, CountThreads
<1>3. ASSUME NEW n \in Nat, Noticed(q, k, pc, n) PROVE Noticed(q, k', pc', n + 1)
  <2>1. n <= G
    BY <1>3 DEF Noticed
  <2>2. n + 1 <= H
    <3> HIDE DEF G, H
    <3> QED BY <1>2, <2>1
  <2> QED BY <2>2 DEF Noticed
<1> QED BY <1>3 DEF OneMore

\* There is nothing to notice, or nobody who waits for it.
LEMMA NothingToNotice ==
  ASSUME IsFiniteSet(Thread), NEW q, NEW kk, NEW p
  PROVE  /\ Noticed(q, kk, p, 0)
         /\ kk.list[q] = << >> => \A n : Noticed(q, kk, p, n)
BY GrantsCount DEF Noticed

\* If the list is empty and stays so, any amount goes unnoticed by nobody.
LEMMA EmptyNotice ==
  ASSUME NEW q, k'.list[q] = << >>
  PROVE  NoMore(q) /\ OneLess(q) /\ OneMore(q)
BY DEF Noticed, NoMore, OneLess, OneMore

-----------------------------------------------------------------------------
\* Resuming the first waiter of a list, without an error.
LEMMA FirstResumed ==
  ASSUME IpcInv, NEW q \in Queue, k.list[q] # << >>, NEW t, t = Head(k.list[q])
  PROVE  /\ Core(WakeFirst(k, q), {}) /\ CurrentOK(WakeFirst(k, q))
         /\ Resumed(k, WakeFirst(k, q), {t}) /\ WakeFirst(k, q).err[t] = "EOK"
         /\ t \in Members(k.list[q]) /\ t \in Thread
<1>1. WakeFirst(k, q) = rt_thread_resume(k, t)
  BY DEF WakeFirst, rt_ipc_list_resume
<1>2. Core(k, {}) /\ CurrentOK(k) /\ Clean(k)
  BY DEF IpcInv, IInv, WaitersOK
<1>3. t \in Members(k.list[q]) /\ t \in Thread /\ k.stat[t] = "SUSPEND"
  BY <1>2, HeadIs
<1>4. k.err[t] = "EOK"
  BY <1>2, <1>3 DEF Clean
<1> DEFINE u == rt_thread_resume(k, t)
<1>5. Core(u, {}) /\ CurrentOK(u) /\ Resumed(k, u, {t}) /\ u.err = k.err
  BY <1>2, <1>3, ResumeCore
<1>6. WakeFirst(k, q) = u
  BY <1>1
<1> HIDE DEF u
<1> QED BY <1>3, <1>4, <1>5, <1>6

\* A step in which nobody begins to detach or finishes.
LEMMA BothDetachKept ==
  ASSUME BothDetach, UNCHANGED obj,
         \A q \in BothLists : \A x \in Thread : Detaches(q, pc', x) => Detaches(q, pc, x)
  PROVE  BothDetach'
<1>1. \A x \in Thread : /\ Detaches(Receivers, pc', x) => Detaches(Receivers, pc, x)
                        /\ Detaches(Senders, pc', x) => Detaches(Senders, pc, x)
  BY DEF BothLists
<1> QED BY <1>1 DEF BothDetach

\* A step of c to a label outside the loop that detaches.
LEMMA OtherBothDetach ==
  ASSUME ObjInv, BothDetach, UNCHANGED obj, NEW c \in Thread, NEW l, NEW a,
         l \notin {"ipc_test", "ipc_next"}, pc' = [pc EXCEPT ![c] = At(l, a)]
  PROVE  BothDetach'
<1>1. ASSUME NEW q \in BothLists
      PROVE  \A x \in Thread : Detaches(q, pc', x) => Detaches(q, pc, x)
  BY ONLY ObjInv, c \in Thread, pc' = [pc EXCEPT ![c] = At(l, a)],
          l \notin {"ipc_test", "ipc_next"}, OtherDetaches
<1> QED BY <1>1, BothDetachKept

\* c goes to a label outside of the loops and resumes the first waiter on r, if
\* there is one: for r there is one more, for the other list the same, or one
\* less if the call of c was on it.
LEMMA CompleteStep ==
  ASSUME IsFiniteSet(Thread), ChannelInv, WaitOK', NEW c \in Thread, Runs(c),
         obj[Receivers] = "live", UNCHANGED <<isr, obj>>,
         NEW q \in BothLists, NEW r \in BothLists, q # r, CallOf(r, k, pc, c) = "none",
         k' = WakeFirst(k, r), NEW l, NEW a, Goes(c, l, a), l \notin WaitLabels,
         l \notin {"ipc_test", "ipc_next"}, pc' = [pc EXCEPT ![c] = At(l, a)]
  PROVE  /\ ChannelInv' /\ OneMore(r) /\ OneLess(q)
         /\ CallOf(q, k, pc, c) = "none" => NoMore(q)
<1>1. /\ ObjInv /\ BothDetach /\ q \in Queue /\ r \in Queue /\ k.stat[c] # "SUSPEND"
      /\ pc = [x \in Thread |-> pc[x]]
  BY ChannelFacts DEF ChannelInv, Runs
<1>2. BothDetach' /\ LiveIfGranted'
  BY <1>1, OtherBothDetach DEF LiveIfGranted
<1>3. pc'[c].at = l /\ \A x \in Thread \ {c} : pc'[x] = pc[x]
  BY <1>1 DEF At
<1>4. CallOf(q, k', pc', c) = "none" /\ CallOf(r, k', pc', c) = "none"
  BY <1>3 DEF CallOf
<1>5. CASE k.list[r] # << >>
  <2> DEFINE t == Head(k.list[r])
  <2>1. /\ Core(k', {}) /\ CurrentOK(k') /\ Resumed(k, k', {t})
        /\ t \in Members(k.list[r]) /\ t \in Thread /\ k'.err[t] = "EOK"
    <3>1. t = Head(k.list[r])
      OBVIOUS
    <3> HIDE DEF t
    <3>2. IpcInv
      BY <1>1 DEF ObjInv
    <3> QED BY <1>1, <1>5, <3>1, <3>2, FirstResumed
  <2> HIDE DEF t
  <2>2. ObjInv'
    <3> DEFINE X == {t}
    <3>1. X \in SUBSET Waiters(k) /\ Resumed(k, k', X)
      BY <1>1, <2>1 DEF Waiters
    <3> HIDE DEF X
    <3> QED BY <1>1, <2>1, <3>1, RunsObjInv
  <2>3. Steady(k', k', {})
    BY DEF Steady
  <2>4. /\ t # c /\ CallOf(q, k', pc', t) = CallOf(q, k, pc, t)
        /\ \A x \in Thread \ {t, c} : CallOf(q, k', pc', x) = CallOf(q, k, pc, x)
    <3>1. c \in Thread /\ q # r
      OBVIOUS
    <3> QED BY ONLY SMTT(40), <1>1, <1>3, <2>1, <2>3, <3>1, GrantedCalls
  <2>5. /\ CallOf(r, k, pc, t) = "waiting" /\ CallOf(r, k', pc', t) = "granted"
        /\ \A x \in Thread \ {t, c} : CallOf(r, k', pc', x) = CallOf(r, k, pc, x)
    <3>1. c \in Thread
      OBVIOUS
    <3> QED BY ONLY <1>1, <1>3, <2>1, <2>3, <3>1, GrantedCalls
  <2>6. /\ Members(k'.list[q]) \subseteq Members(k.list[q])
        /\ \A x \in Thread \ {c} : CallOf(q, k', pc', x) = CallOf(q, k, pc, x)
    BY <1>1, <2>1, <2>4 DEF Resumed
  <2>7. OneLess(q)
    BY <1>1, <1>4, <2>2, <2>6, TakenNotice
  <2>8. ASSUME CallOf(q, k, pc, c) = "none" PROVE NoMore(q)
    BY <1>1, <1>4, <2>2, <2>6, <2>8, KeptNotice
  <2>9. OneMore(r)
    <3>1. \A x \in Thread \ {t} : CallOf(r, k', pc', x) = CallOf(r, k, pc, x)
      BY <1>4, <2>5
    <3> QED BY <1>1, <1>5, <2>1, <2>5, <3>1, AddedNotice
  <2> QED BY <1>1, <1>2, <2>2, <2>7, <2>8, <2>9 DEF ChannelInv
<1>6. CASE k.list[r] = << >>
  <2>1. k' = k
    BY <1>6 DEF WakeFirst
  <2>2. ObjInv'
    BY <1>1, <2>1, SameObjInv
  <2>3. \A x \in Thread \ {c} : CallOf(q, k', pc', x) = CallOf(q, k, pc, x)
    BY <1>3, <2>1 DEF CallOf
  <2>4. OneLess(q)
    BY <1>1, <1>4, <2>1, <2>2, <2>3, TakenNotice
  <2>5. ASSUME CallOf(q, k, pc, c) = "none" PROVE NoMore(q)
    BY <1>1, <1>4, <2>1, <2>2, <2>3, <2>5, KeptNotice
  <2>6. OneMore(r)
    BY <1>6, <2>1, EmptyNotice
  <2> QED BY <1>1, <1>2, <2>2, <2>4, <2>5, <2>6 DEF ChannelInv
<1> QED BY <1>5, <1>6

\* A step of c to a label outside of the loops: for a list its call was not on,
\* or on which it was not granted, nothing changes.
LEMMA MoveStep ==
  ASSUME IsFiniteSet(Thread), ChannelInv, ObjInv', WaitOK', BothDetach', UNCHANGED k,
         NEW c \in Thread, NEW l, NEW a, l \notin WaitLabels,
         pc' = [pc EXCEPT ![c] = At(l, a)],
         obj'[Receivers] # "live" =>
           obj[Receivers] # "live" \/ \A q \in BothLists : Grants(q, k, pc) = {}
  PROVE  /\ ChannelInv'
         /\ \A q \in BothLists : OneLess(q) /\ (CallOf(q, k, pc, c) # "granted" => NoMore(q))
<1>1. ObjInv /\ LiveIfGranted /\ BothLists \subseteq Queue
  BY ChannelAssumption DEF ChannelInv, BothLists
<1>2. ASSUME NEW q \in BothLists
      PROVE  /\ CallOf(q, k', pc', c) = "none"
             /\ \A x \in Thread \ {c} : CallOf(q, k', pc', x) = CallOf(q, k, pc, x)
  BY ZenonT(40), <1>1, MovedCalls
<1>3. ASSUME NEW q \in BothLists
      PROVE  OneLess(q) /\ (CallOf(q, k, pc, c) # "granted" => NoMore(q))
  <2>1. q \in Queue
    BY <1>1
  <2>2. OneLess(q)
    BY <1>1, <1>2, <2>1, TakenNotice
  <2>3. ASSUME CallOf(q, k, pc, c) # "granted" PROVE NoMore(q)
    BY <1>1, <1>2, <2>1, <2>3, KeptNotice
  <2> QED BY <2>2, <2>3
<1>4. ASSUME NEW q \in BothLists PROVE Grants(q, k', pc') \subseteq Grants(q, k, pc)
  BY <1>2 DEF Grants
<1>5. LiveIfGranted'
  BY <1>1, <1>4 DEF LiveIfGranted, BothLists
<1> QED BY <1>3, <1>5 DEF ChannelInv

\* A step in which nobody begins to wait, is granted a call or leaves one that
\* was granted.
LEMMA KeepStep ==
  ASSUME ChannelInv, ObjInv', WaitOK', BothDetach', UNCHANGED obj,
         \A q \in BothLists : Members(k'.list[q]) \subseteq Members(k.list[q]),
         \A q \in BothLists : \A x \in Thread :
           CallOf(q, k', pc', x) = "granted" <=> CallOf(q, k, pc, x) = "granted"
  PROVE  ChannelInv' /\ \A q \in BothLists : NoMore(q)
<1>1. ObjInv /\ LiveIfGranted /\ BothLists \subseteq Queue
  BY ChannelAssumption DEF ChannelInv, BothLists
<1>2. ASSUME NEW q \in BothLists PROVE NoMore(q) /\ Grants(q, k', pc') = Grants(q, k, pc)
  BY <1>1, KeptNotice
<1>3. LiveIfGranted'
  BY <1>1, <1>2 DEF LiveIfGranted, BothLists
<1> QED BY <1>2, <1>3 DEF ChannelInv

\* A call of c on q has found nothing.
LEMMA FoundNothing ==
  ASSUME IsFiniteSet(Thread), ChannelInv, ObjInv', WaitOK', NEW c \in Thread,
         obj[Receivers] = "live", UNCHANGED obj,
         NEW q \in BothLists, NEW r \in BothLists, q # r, CallOf(r, k, pc, c) = "none",
         NEW l, NEW a, l \notin WaitLabels \/ a # r,
         l \notin {"ipc_test", "ipc_next"}, pc' = [pc EXCEPT ![c] = At(l, a)],
         c \notin Members(k'.list[r]),
         \A x \in Thread \ {c} :
           /\ k'.err[x] = k.err[x]
           /\ x \in Members(k'.list[r]) <=> x \in Members(k.list[r])
  PROVE  ChannelInv' /\ Noticed(q, k', pc', 0) /\ NoMore(r)
<1>1. /\ ObjInv /\ BothDetach /\ q \in Queue /\ r \in Queue /\ Core(k', {})
      /\ pc = [x \in Thread |-> pc[x]]
  BY ChannelFacts DEF ChannelInv, ObjInv, IpcInv, IInv
<1>2. BothDetach' /\ LiveIfGranted'
  BY <1>1, OtherBothDetach DEF LiveIfGranted
<1>3. Noticed(q, k', pc', 0)
  BY NothingToNotice
<1>4. /\ CallOf(r, k', pc', c) = "none"
      /\ \A x \in Thread \ {c} : CallOf(r, k', pc', x) = CallOf(r, k, pc, x)
  <2>1. /\ pc'[c].at = l /\ pc'[c].arg = a
        /\ \A x \in Thread \ {c} : pc'[x] = pc[x]
    BY <1>1 DEF At
  <2>2. CallOf(r, k', pc', c) = "none"
    BY <2>1 DEF CallOf
  <2>3. ASSUME NEW x \in Thread \ {c} PROVE CallOf(r, k', pc', x) = CallOf(r, k, pc, x)
    BY <2>1 DEF CallOf
  <2> QED BY <2>2, <2>3
<1>5. Members(k'.list[r]) \subseteq Members(k.list[r])
  <2>1. \A x \in Members(k'.list[r]) : x \in Thread
    BY <1>1, MembersAre
  <2> QED BY <2>1
<1>6. NoMore(r)
  BY <1>1, <1>4, <1>5, KeptNotice
<1> QED BY <1>1, <1>2, <1>3, <1>6 DEF ChannelInv

\* It gives up, and may set its error.
LEMMA GiveUpStep ==
  ASSUME IsFiniteSet(Thread), ChannelInv, NEW c \in Thread, Runs(c),
         obj[Receivers] = "live", UNCHANGED <<isr, obj>>,
         NEW q \in BothLists, NEW r \in BothLists, q # r, CallOf(r, k, pc, c) = "none",
         k' = k \/ k' = [k EXCEPT !.err[c] = "ETIMEOUT"], Return(c), Leaves(c)
  PROVE  ChannelInv' /\ Noticed(q, k', pc', 0) /\ NoMore(r)
<1>1. /\ ObjInv /\ WaitOK /\ r \in Queue /\ Core(k, {})
      /\ pc' = [pc EXCEPT ![c] = At("run", c)]
  BY ChannelFacts DEF ChannelInv, Return, Goto
<1>2. WaitOK'
  BY <1>1, WaitKept
<1>3. Goes(c, "run", c) /\ "run" \notin WaitLabels
  BY ReturnGoes
<1>4. "run" \notin {"ipc_test", "ipc_next"}
  OBVIOUS
<1>5. ObjInv' /\ (k' = k \/ Spares(k, k', c))
  <2>1. CASE k' = k
    BY <1>1, <1>3, <2>1, SameObjInv
  <2>2. CASE k' = [k EXCEPT !.err[c] = "ETIMEOUT"]
    <3>1. "ETIMEOUT" \in Error
      BY DEF Error
    <3> QED BY <1>1, <1>3, <2>2, <3>1, ErrorObjInv
  <2> QED BY <2>1, <2>2
<1>6. c \notin Members(k.list[r])
  BY <1>1, NotSuspended DEF Runs
<1>7. /\ k'.list[r] = k.list[r]
      /\ \A x \in Thread \ {c} : k'.err[x] = k.err[x]
  BY <1>1, <1>5 DEF Spares, Stands
<1>8. /\ c \notin Members(k'.list[r])
      /\ \A x \in Thread \ {c} :
           /\ k'.err[x] = k.err[x]
           /\ x \in Members(k'.list[r]) <=> x \in Members(k.list[r])
  BY <1>6, <1>7
<1> QED BY <1>1, <1>2, <1>3, <1>4, <1>5, <1>8, FoundNothing

\* It waits, for the first time or again.
LEMMA WaitStep ==
  ASSUME IsFiniteSet(Thread), ChannelInv, NEW c \in Thread, Runs(c),
         obj[Receivers] = "live", UNCHANGED <<isr, obj>>,
         NEW q \in BothLists, NEW r \in BothLists, q # r, CallOf(r, k, pc, c) = "none",
         NEW time \in Nat \cup {-1}, Waits(c, q, time)
  PROVE  ChannelInv' /\ Noticed(q, k', pc', 0) /\ NoMore(r)
<1>1. /\ ObjInv /\ WaitOK /\ q \in Queue /\ r \in Queue /\ Core(k, {}) /\ CurrentOK(k)
      /\ k' = Block(k, q, c, time) /\ pc' = [pc EXCEPT ![c] = At("ipc_sched", q)]
      /\ wait' = [wait EXCEPT ![c] = [timeout |-> time, spent |-> 0]]
  BY ChannelFacts DEF ChannelInv, Waits, Goto
<1>2. WaitOK'
  BY <1>1, WaitKept
<1>3. /\ obj[q] # "none" /\ c = k.current /\ k.stat[c] = "RUNNING" /\ c # Idle
  BY DEF ChannelInv, BothDetach, BothLists, Runs
<1>4. Core(k', {}) /\ CurrentOK(k') /\ Blocks(k, k', q, c)
  BY <1>1, <1>3, BlockCore
<1>5. ObjInv'
  BY <1>1, <1>3, <1>4, BlockedObjInv
<1>6. "ipc_sched" \notin {"ipc_test", "ipc_next"}
  OBVIOUS
<1>7. c \notin Members(k'.list[r])
  BY <1>1, <1>4 DEF Blocks, Head_
<1>8. \A x \in Thread \ {c} :
        /\ k'.err[x] = k.err[x]
        /\ x \in Members(k'.list[r]) <=> x \in Members(k.list[r])
  BY <1>1, <1>4 DEF Blocks, Stands
<1> QED BY <1>1, <1>2, <1>5, <1>6, <1>7, <1>8, FoundNothing

\* It leaves the loop with what it wanted, and resumes nobody yet.
LEMMA LeaveStep ==
  ASSUME IsFiniteSet(Thread), ChannelInv, NEW c \in Thread, Runs(c), Leaves(c),
         UNCHANGED <<k, isr, obj>>, NEW l, NEW a, Goes(c, l, a), l \notin WaitLabels,
         l \notin {"ipc_test", "ipc_next"}, pc' = [pc EXCEPT ![c] = At(l, a)]
  PROVE  /\ ChannelInv'
         /\ \A q \in BothLists : OneLess(q) /\ (CallOf(q, k, pc, c) # "granted" => NoMore(q))
<1>1. ObjInv /\ WaitOK /\ BothDetach /\ Receivers \in Queue
  BY ChannelFacts DEF ChannelInv
<1>2. ObjInv' /\ WaitOK' /\ BothDetach'
  BY <1>1, SameObjInv, WaitKept, OtherBothDetach
<1> QED BY <1>2, MoveStep

-----------------------------------------------------------------------------
\* No call is granted in such a step, and none that was ends.
LEMMA SameGrants ==
  ASSUME NEW q, SameCalls(q) \/ OneCall(q, {"waiting"}, "failed")
  PROVE  \A x \in Thread :
           CallOf(q, k', pc', x) = "granted" <=> CallOf(q, k, pc, x) = "granted"
BY DEF SameCalls, OneCall

\* A step of the scheduler, the thread API or the tick interrupt.
LEMMA ChannelKernelStep ==
  ASSUME Polite, ChannelInv, KernelStep
  PROVE  ChannelInv' /\ \A q \in BothLists : NoMore(q)
<1>1. ObjInv /\ Next /\ UNCHANGED obj /\ BothLists \subseteq Queue /\ IpcInv
      /\ WaitOK /\ BothDetach
  BY ChannelAssumption DEF ChannelInv, KernelStep, ObjInv, BothLists
<1>2. ObjInv'
  BY <1>1, NextObjInv
<1>3. \A q \in BothLists : SameCalls(q) \/ OneCall(q, {"waiting"}, "failed")
  BY <1>1, NextCalls
<1>4. \A q \in BothLists : Members(k'.list[q]) \subseteq Members(k.list[q])
  BY <1>1, <1>2, <1>3, EasedCalls DEF Eases
<1>5. \A q \in BothLists : \A x \in Thread :
        CallOf(q, k', pc', x) = "granted" <=> CallOf(q, k, pc, x) = "granted"
  BY <1>3, SameGrants
<1>6. \A x \in Thread : Unmoved(x)
  BY <1>1, NextIpcInv
<1>7. \A q \in BothLists : \A x \in Thread : Detaches(q, pc', x) => Detaches(q, pc, x)
  BY <1>6 DEF Unmoved, Label, Detaches
<1>8. WaitOK' /\ BothDetach'
  BY <1>1, <1>7, WaitKept, BothDetachKept
<1> QED BY <1>1, <1>2, <1>4, <1>5, <1>8, KeepStep

\* A blocked caller calls rt_schedule; a thread that detaches resumes a waiter.
LEMMA ChannelNextStep ==
  ASSUME ChannelInv, NEW c \in Thread, BlockSchedule(c) \/ ResumeAllNext(c), UNCHANGED wait
  PROVE  ChannelInv' /\ \A q \in BothLists : NoMore(q)
<1>1. /\ ObjInv /\ BothLists \subseteq Queue /\ WaitOK /\ BothDetach
      /\ pc = [x \in Thread |-> pc[x]] /\ UNCHANGED obj
  BY ChannelFacts DEF ChannelInv, BlockSchedule, ResumeAllNext
<1>2. ObjInv' /\ \A q \in BothLists : SameCalls(q) \/ OneCall(q, {"waiting"}, "failed")
  BY <1>1, BlockScheduleObjInv, BlockScheduleCalls, ResumeAllNextObjInv, ResumeAllNextCalls
<1>3. \A q \in BothLists : Members(k'.list[q]) \subseteq Members(k.list[q])
  BY <1>1, <1>2, EasedCalls DEF Eases
<1>4. \A q \in BothLists : \A x \in Thread :
        CallOf(q, k', pc', x) = "granted" <=> CallOf(q, k, pc, x) = "granted"
  BY <1>2, SameGrants
<1>5. WaitOK'
  BY <1>1, WaitKept
<1>6. BothDetach'
  <2>1. CASE BlockSchedule(c)
    <3>1. pc' = [pc EXCEPT ![c] = At("ipc_end", pc[c].arg)]
      BY <2>1 DEF BlockSchedule, Goto
    <3>2. "ipc_end" \notin {"ipc_test", "ipc_next"}
      OBVIOUS
    <3> QED BY <1>1, <3>1, <3>2, OtherBothDetach
  <2>2. CASE ResumeAllNext(c)
    <3>1. pc[c].at = "ipc_next" /\ pc' = [pc EXCEPT ![c] = At("ipc_test", pc[c].arg)]
      BY <2>2 DEF ResumeAllNext, Executes, Goto
    <3>2. pc'[c].arg = pc[c].arg /\ \A x \in Thread \ {c} : pc'[x] = pc[x]
      BY <1>1, <3>1 DEF At
    <3>3. \A q \in BothLists : \A x \in Thread : Detaches(q, pc', x) => Detaches(q, pc, x)
      BY <3>1, <3>2 DEF Detaches
    <3> QED BY <1>1, <3>3, BothDetachKept
  <2> QED BY <2>1, <2>2
<1> QED BY <1>1, <1>2, <1>3, <1>4, <1>5, <1>6, KeepStep

\* The threads that detach, after c has gone to another label.
LEMMA DetachersAre ==
  ASSUME ChannelInv, NEW c \in Thread, NEW l, NEW a, pc' = [pc EXCEPT ![c] = At(l, a)]
  PROVE  \A q : /\ Detaches(q, pc', c) <=> l \in {"ipc_test", "ipc_next"} /\ a = q
                /\ \A x \in Thread \ {c} : Detaches(q, pc', x) <=> Detaches(q, pc, x)
<1>1. pc = [x \in Thread |-> pc[x]]
  BY ChannelFacts
<1>2. /\ pc'[c].at = l /\ pc'[c].arg = a
      /\ \A x \in Thread \ {c} : pc'[x] = pc[x]
  BY <1>1 DEF At
<1> QED BY <1>2 DEF Detaches

\* A thread that detaches tests a list.
LEMMA ChannelTestStep ==
  ASSUME IsFiniteSet(Thread), ChannelInv, NEW c \in Thread, ResumeBothTest(c)
  PROVE  ChannelInv' /\ \A q \in BothLists : NoMore(q)
<1>1. /\ ObjInv /\ Receivers \in Queue /\ Senders \in Queue /\ Receivers # Senders
      /\ WaitOK /\ BothDetach /\ BothLists = {Receivers, Senders}
      /\ obj \in [Queue -> {"live", "leaving", "none"}]
  BY ChannelFacts DEF ChannelInv
<1>2. /\ UNCHANGED <<k, isr, wait>> /\ Executes(c, "ipc_test")
  BY DEF ResumeBothTest, ReceiversResumed, ResumeAllTest
<1>3. Runs(c) /\ pc[c].at = "ipc_test" /\ pc[c].arg \in Queue
  <2>1. "ipc_test" \notin Label
    BY DEF Label
  <2> QED BY <1>1, <1>2, <2>1, IpcExecutes DEF Runs, Executes
<1>4. WaitOK' /\ \A q \in BothLists : CallOf(q, k, pc, c) = "none"
  BY <1>1, <1>2, <1>3, WaitKept DEF CallOf, WaitLabels
<1>5. \A q : Detaches(q, pc, c) <=> pc[c].arg = q
  BY <1>3 DEF Detaches
<1>6. CASE ReceiversResumed(c)
  <2>1. /\ pc[c].arg = Receivers /\ k.list[Receivers] = << >>
        /\ obj' = [obj EXCEPT ![Receivers] = "none"]
        /\ pc' = [pc EXCEPT ![c] = At("ipc_test", Senders)]
    BY <1>6 DEF ReceiversResumed, Goto
  <2>2. /\ obj[Receivers] = "leaving" /\ obj[Senders] = "leaving"
        /\ \A x \in Thread : Detaches(Receivers, pc, x) \/ Detaches(Senders, pc, x) => x = c
    BY <1>1, <1>5, <2>1 DEF BothDetach
  <2>3. obj'[Receivers] = "none" /\ obj'[Senders] = "leaving"
    BY <1>1, <2>1, <2>2
  <2>4. \A x \in Thread : /\ Detaches(Senders, pc', x) => x = c
                          /\ ~ Detaches(Receivers, pc', x)
    <3>1. ChannelInv /\ c \in Thread /\ pc' = [pc EXCEPT ![c] = At("ipc_test", Senders)]
      BY <1>1, <2>1
    <3>2. \A q : /\ Detaches(q, pc', c) <=> "ipc_test" \in {"ipc_test", "ipc_next"} /\ Senders = q
                /\ \A x \in Thread \ {c} : Detaches(q, pc', x) <=> Detaches(q, pc, x)
      BY ONLY <3>1, DetachersAre
    <3> QED BY <1>1, <2>2, <3>2
  <2>5. BothDetach'
    BY <2>3, <2>4 DEF BothDetach
  <2>6. Goes(c, "ipc_test", Senders)
    BY <1>1, <1>3 DEF Goes, LabelOK, RacyLabels, HoldLabels, Label, Runs
  <2>7. IpcInv' /\ Attached'
    BY <1>1, <1>2, <1>3, <2>1, <2>6, SameObjInv
  <2>8. ObjInv'
    BY <1>1, <1>2, <2>1, <2>7 DEF ObjInv, NobodyLeftBehind
  <2>9. "ipc_test" \notin WaitLabels
    BY DEF WaitLabels
  <2> QED BY <1>2, <1>4, <2>1, <2>2, <2>5, <2>8, <2>9, MoveStep
<1>7. CASE ResumeAllTest(c) /\ (pc[c].arg = Receivers => k.list[Receivers] # << >>)
  <2>1. ObjInv'
    BY <1>1, <1>7, ResumeAllTestObjInv
  <2>2. CASE k.list[pc[c].arg] = << >>
    <3>1. /\ pc' = [pc EXCEPT ![c] = At("run", c)]
          /\ obj' = [obj EXCEPT ![pc[c].arg] = "none"] /\ pc[c].arg # Receivers
      BY <1>7, <2>2 DEF ResumeAllTest, Return, Goto
    <3>2. \A q : \A x \in Thread : Detaches(q, pc', x) => x # c /\ Detaches(q, pc, x)
      <4>1. ChannelInv /\ c \in Thread /\ pc' = [pc EXCEPT ![c] = At("run", c)]
        BY <1>1, <3>1
      <4>2. \A q : /\ Detaches(q, pc', c) <=> "run" \in {"ipc_test", "ipc_next"} /\ c = q
                  /\ \A x \in Thread \ {c} : Detaches(q, pc', x) <=> Detaches(q, pc, x)
        BY ONLY <4>1, DetachersAre
      <4> QED BY <1>1, <4>2
    <3>3. obj'[Receivers] = obj[Receivers]
      BY <1>1, <3>1
    <3>4. BothDetach'
      <4>1. CASE pc[c].arg = Senders
        <5>1. /\ obj[Receivers] = "none"
              /\ \A x \in Thread :
                   Detaches(Receivers, pc, x) \/ Detaches(Senders, pc, x) => x = c
          BY <1>1, <1>5, <4>1 DEF BothDetach
        <5>2. obj'[Senders] = "none"
          BY <1>1, <3>1, <4>1
        <5>3. \A x \in Thread : ~ Detaches(Receivers, pc', x) /\ ~ Detaches(Senders, pc', x)
          BY <3>2, <5>1
        <5> QED BY <3>3, <5>1, <5>2, <5>3 DEF BothDetach
      <4>2. CASE pc[c].arg # Senders
        <5>1. obj'[Senders] = obj[Senders]
          BY <1>1, <3>1, <4>2
        <5> QED BY <1>1, <3>2, <3>3, <5>1 DEF BothDetach
      <4> QED BY <4>1, <4>2
    <3>5. "run" \notin WaitLabels
      BY DEF WaitLabels
    <3> QED BY <1>2, <1>4, <2>1, <3>1, <3>3, <3>4, <3>5, MoveStep
  <2>3. CASE k.list[pc[c].arg] # << >>
    <3>1. pc' = [pc EXCEPT ![c] = At("ipc_next", pc[c].arg)] /\ UNCHANGED obj
      BY <1>7, <2>3 DEF ResumeAllTest, Goto
    <3>2. \A q : \A x \in Thread : Detaches(q, pc', x) => Detaches(q, pc, x)
      <4>1. ChannelInv /\ c \in Thread /\ pc' = [pc EXCEPT ![c] = At("ipc_next", pc[c].arg)]
        BY <1>1, <3>1
      <4>2. \A q : /\ Detaches(q, pc', c) <=> "ipc_next" \in {"ipc_test", "ipc_next"} /\ pc[c].arg = q
                  /\ \A x \in Thread \ {c} : Detaches(q, pc', x) <=> Detaches(q, pc, x)
        BY ONLY ZenonT(40), <4>1, DetachersAre
      <4> QED BY <1>5, <4>2
    <3>3. BothDetach'
      BY <1>1, <3>1, <3>2, BothDetachKept
    <3>4. "ipc_next" \notin WaitLabels
      BY DEF WaitLabels
    <3> QED BY <1>2, <1>4, <2>1, <3>1, <3>3, <3>4, MoveStep
  <2> QED BY <2>2, <2>3
<1> QED BY <1>6, <1>7 DEF ResumeBothTest

\* A caller that was resumed with an error returns.
LEMMA ChannelFailsStep ==
  ASSUME IsFiniteSet(Thread), ChannelInv, NEW c \in Thread, RetryFails(c)
  PROVE  ChannelInv' /\ \A q \in BothLists : NoMore(q)
<1>1. /\ ObjInv /\ BothLists \subseteq Queue /\ WaitOK /\ BothDetach
      /\ k' = k /\ UNCHANGED <<isr, obj>> /\ Executes(c, "ipc_end") /\ Leaves(c)
      /\ pc' = [pc EXCEPT ![c] = At("run", c)] /\ k.err[c] # "EOK"
  BY ChannelAssumption DEF ChannelInv, BothLists, RetryFails, Return, Goto
<1>2. Runs(c)
  <2>1. "ipc_end" \notin Label
    BY DEF Label
  <2> QED BY <1>1, <2>1, IpcExecutes DEF Runs
<1>3. \A q \in BothLists : CallOf(q, k, pc, c) # "granted"
  BY <1>1 DEF CallOf
<1>4. Goes(c, "run", c) /\ "run" \notin WaitLabels
  BY <1>2, ReturnGoes
<1>5. "run" \notin {"ipc_test", "ipc_next"}
  OBVIOUS
<1>6. ObjInv'
  BY <1>1, <1>2, <1>4, SameObjInv, ChannelAssumption
<1>7. WaitOK' /\ BothDetach'
  BY <1>1, <1>5, WaitKept, OtherBothDetach
<1> QED BY <1>1, <1>3, <1>4, <1>6, <1>7, MoveStep

\* An interrupt handler resumes the first receiver, if there is one.
LEMMA ChannelIsrStep ==
  ASSUME IsFiniteSet(Thread), ChannelInv, obj[Receivers] = "live",
         UNCHANGED <<isr, pc, obj, wait>>,
         k' = IF k.list[Receivers] # << >> THEN rt_schedule(WakeFirst(k, Receivers)) ELSE k
  PROVE  ChannelInv' /\ OneMore(Receivers) /\ NoMore(Senders) /\ OneLess(Senders)
<1>1. /\ ObjInv /\ IpcInv /\ Receivers \in Queue /\ Senders \in Queue
      /\ Receivers # Senders /\ BothLists = {Receivers, Senders}
      /\ UNCHANGED <<isr, pc, obj>>
      /\ k' = IF k.list[Receivers] # << >> THEN rt_schedule(WakeFirst(k, Receivers)) ELSE k
  BY ChannelFacts DEF ChannelInv
<1>2. WaitOK' /\ BothDetach' /\ LiveIfGranted'
  BY <1>1 DEF ChannelInv, WaitOK, BothDetach, LiveIfGranted, Detaches
<1>4. Idle \in Thread /\ k.stat[Idle] # "SUSPEND" /\ pc[Idle].at \notin WaitLabels
  <2>1. Idle \in Thread /\ Labels /\ IdleSchedulable(k)
    BY <1>1, ThreadAssumption DEF IpcInv, IInv
  <2> QED BY <2>1 DEF Labels, LabelOK, WaitLabels, IdleSchedulable
<1>5. \A q \in BothLists : CallOf(q, k, pc, Idle) = "none" /\ CallOf(q, k', pc', Idle) = "none"
  BY <1>1, <1>4 DEF CallOf
<1>6. CASE k.list[Receivers] # << >>
  <2> DEFINE t == Head(k.list[Receivers])
             u == WakeFirst(k, Receivers)
  <2>1. /\ Core(u, {}) /\ CurrentOK(u) /\ Resumed(k, u, {t}) /\ u.err[t] = "EOK"
        /\ t \in Members(k.list[Receivers]) /\ t \in Thread /\ k' = rt_schedule(u)
    <3>1. t = Head(k.list[Receivers])
      OBVIOUS
    <3> HIDE DEF t
    <3> QED BY <1>1, <1>6, <3>1, FirstResumed
  <2> HIDE DEF t, u
  <2>2. IpcInv' /\ Steady(u, k', {})
    <3> DEFINE X == {t}
    <3>1. X \in SUBSET Members(k.list[Receivers]) /\ Resumed(k, u, X)
      BY <2>1
    <3> HIDE DEF X
    <3> QED BY <1>1, <2>1, <3>1, IsrIpcInv
  <2>3. \A q \in Queue : Members(k'.list[q]) \subseteq Members(k.list[q])
    BY <2>1, <2>2 DEF Resumed, Steady
  <2>4. Attached'
    BY <1>1 DEF ObjInv, Attached
  <2>5. ObjInv'
    BY <1>1, <2>2, <2>3, <2>4, ShrinkObjInv
  <2>6. \A x \in Thread \ {Idle} : pc'[x] = pc[x]
    BY <1>1
  <2>7. /\ CallOf(Senders, k', pc', t) = CallOf(Senders, k, pc, t)
        /\ \A x \in Thread \ {t, Idle} :
             CallOf(Senders, k', pc', x) = CallOf(Senders, k, pc, x)
    BY ONLY <1>1, <1>4, <2>1, <2>2, <2>6, GrantedCalls
  <2>8. /\ CallOf(Receivers, k, pc, t) = "waiting" /\ CallOf(Receivers, k', pc', t) = "granted"
        /\ \A x \in Thread \ {t, Idle} :
             CallOf(Receivers, k', pc', x) = CallOf(Receivers, k, pc, x)
    BY ONLY <1>1, <1>4, <2>1, <2>2, <2>6, GrantedCalls
  <2>9. OneLess(Senders) /\ NoMore(Senders)
    <3>1. \A x \in Thread \ {Idle} : CallOf(Senders, k', pc', x) = CallOf(Senders, k, pc, x)
      BY <2>7
    <3>2. OneLess(Senders)
      BY <1>1, <1>4, <1>5, <2>3, <2>5, <3>1, TakenNotice
    <3>3. NoMore(Senders)
      BY <1>1, <1>4, <1>5, <2>3, <2>5, <3>1, KeptNotice
    <3> QED BY <3>2, <3>3
  <2>10. OneMore(Receivers)
    <3>1. \A x \in Thread \ {t} : CallOf(Receivers, k', pc', x) = CallOf(Receivers, k, pc, x)
      BY <1>1, <1>5, <2>8
    <3> QED BY <1>1, <1>6, <2>1, <2>8, <3>1, AddedNotice
  <2> QED BY <1>1, <1>2, <2>5, <2>9, <2>10 DEF ChannelInv
<1>7. CASE k.list[Receivers] = << >>
  <2>1. k' = k /\ UNCHANGED ipcVars
    BY <1>1, <1>7 DEF ipcVars
  <2>2. ObjInv'
    BY <1>1, <2>1, UnchangedObjInv
  <2>3. OneMore(Receivers)
    BY <1>7, <2>1, EmptyNotice
  <2>4. \A x \in Thread : CallOf(Senders, k', pc', x) = CallOf(Senders, k, pc, x)
    BY <1>1, <2>1
  <2>5. OneLess(Senders)
    BY <1>1, <1>4, <1>5, <2>1, <2>2, <2>4, TakenNotice
  <2>6. NoMore(Senders)
    BY <1>1, <2>1, <2>2, <2>4, KeptNotice
  <2> QED BY <1>1, <1>2, <2>2, <2>3, <2>5, <2>6 DEF ChannelInv
<1> QED BY <1>6, <1>7

\* Waiters are resumed twice.
LEMMA ResumedTwice ==
  ASSUME NEW kk, NEW u, NEW w, NEW X, NEW Y, Resumed(kk, u, X), Resumed(u, w, Y),
         X \in SUBSET Thread
  PROVE  Resumed(kk, w, X \cup Y)
<1>1. ASSUME NEW x \in X \cup Y PROVE w.stat[x] \in Runnable
  <2>1. CASE x \in Y
    BY <2>1 DEF Resumed
  <2>2. CASE x \in X /\ x \notin Y
    <3>1. w.stat[x] = u.stat[x]
      BY <2>2 DEF Resumed, Stands
    <3> QED BY <2>2, <3>1 DEF Resumed
  <2> QED BY <2>1, <2>2
<1>2. ASSUME NEW x \in Thread \ (X \cup Y) PROVE Stands(kk, w, x)
  <2>1. Stands(kk, u, x) /\ Stands(u, w, x)
    BY DEF Resumed
  <2> QED BY <2>1, StandsTrans
<1>3. \A h \in Queue \cup {Defunct} : Members(w.list[h]) \subseteq Members(kk.list[h])
  BY DEF Resumed
<1>4. w.lock = kk.lock /\ w.current = kk.current /\ w.slice = kk.slice
  BY DEF Resumed
<1> QED BY <1>1, <1>2, <1>3, <1>4 DEF Resumed

\* The reset command empties both lists.
LEMMA ChannelResetStep ==
  ASSUME Polite, ChannelInv, NEW c \in Thread, Asks(c, "reset", Receivers),
         k' = ResumeBoth(k), Goto(c, "sched", c), UNCHANGED <<isr, obj, wait>>
  PROVE  ChannelInv' /\ k'.list[Receivers] = << >> /\ k'.list[Senders] = << >>
<1>1. /\ ObjInv /\ IpcInv /\ Core(k, {}) /\ CurrentOK(k) /\ WaitOK /\ BothDetach
      /\ Receivers \in Queue /\ Senders \in Queue /\ BothLists = {Receivers, Senders}
      /\ pc' = [pc EXCEPT ![c] = At("sched", c)]
  BY ChannelFacts DEF ChannelInv, Goto
<1>2. Runs(c) /\ obj[Receivers] = "live"
  BY <1>1, AsksFacts DEF Runs
<1> DEFINE u == rt_ipc_list_resume_all(k, Receivers)
           X == Members(k.list[Receivers])
           Y == Members(u.list[Senders])
<1>3. /\ Core(u, {}) /\ CurrentOK(u) /\ Resumed(k, u, X) /\ u.list[Receivers] = << >>
  BY <1>1, ResumeAllCore
<1>4. k' = rt_ipc_list_resume_all(u, Senders)
  BY DEF ResumeBoth
<1> HIDE DEF u
<1>5. /\ Core(k', {}) /\ CurrentOK(k') /\ Resumed(u, k', Y) /\ k'.list[Senders] = << >>
  BY <1>1, <1>3, <1>4, ResumeAllCore
<1>6. k'.list[Receivers] = << >>
  <2>1. Members(k'.list[Receivers]) \subseteq Members(u.list[Receivers])
    BY <1>1, <1>5 DEF Resumed
  <2> QED BY <1>1, <1>3, <1>5, <2>1, StaysEmpty
<1>7. X \in SUBSET Thread
  BY <1>1, MembersAre
<1>8. X \cup Y \in SUBSET Waiters(k)
  <2>1. Y \subseteq Members(k.list[Senders])
    BY <1>1, <1>3 DEF Resumed
  <2> QED BY <1>1, <2>1 DEF Waiters
<1> HIDE DEF X, Y
<1>9. Resumed(k, k', X \cup Y)
  BY <1>3, <1>5, <1>7, ResumedTwice
<1>10. Goes(c, "sched", c)
  BY <1>2, ReturnGoes
<1>11. ObjInv'
  <2> DEFINE Z == X \cup Y
  <2>1. Z \in SUBSET Waiters(k) /\ Resumed(k, k', Z)
    BY <1>8, <1>9
  <2> HIDE DEF Z
  <2> QED BY <1>1, <1>2, <1>5, <1>10, <2>1, RunsObjInv
<1>12. WaitOK'
  BY <1>1, WaitKept
<1>13. BothDetach' /\ LiveIfGranted'
  <2>1. "sched" \notin {"ipc_test", "ipc_next"}
    OBVIOUS
  <2> QED BY <1>1, <1>2, <2>1, OtherBothDetach DEF LiveIfGranted
<1> QED BY <1>5, <1>6, <1>11, <1>12, <1>13 DEF ChannelInv

\* A detach begins: both lists leave.
LEMMA ChannelDetachStep ==
  ASSUME Polite, IsFiniteSet(Thread), ChannelInv, NEW c \in Thread, DetachBoth(c)
  PROVE  ChannelInv' /\ \A q \in BothLists : NoMore(q)
<1>1. /\ ObjInv /\ IpcInv /\ WaitOK /\ BothDetach
      /\ Receivers \in Queue /\ Senders \in Queue /\ BothLists = {Receivers, Senders}
      /\ Receivers # Senders /\ Asks(c, "detach", Receivers)
      /\ (\A q \in BothLists : Grants(q, k, pc) = {})
      /\ obj' = [q \in Queue |-> IF q \in BothLists THEN "leaving" ELSE obj[q]]
      /\ pc' = [pc EXCEPT ![c] = At("ipc_test", Receivers)]
      /\ UNCHANGED <<k, isr, wait>> /\ obj \in [Queue -> {"live", "leaving", "none"}]
  BY ChannelFacts, GrantedAre DEF ChannelInv, DetachBoth, Goto
<1>2. Runs(c) /\ obj[Receivers] = "live" /\ pc[c].at \in Label
  BY <1>1, AsksFacts DEF Runs
<1>3. obj'[Receivers] = "leaving" /\ obj'[Senders] = "leaving"
  BY <1>1
<1>4. \A x \in Thread : ~ Detaches(Receivers, pc, x) /\ ~ Detaches(Senders, pc, x)
  BY <1>1, <1>2 DEF BothDetach
<1>5. \A x \in Thread : ~ Detaches(Senders, pc', x) /\ (Detaches(Receivers, pc', x) => x = c)
  <2>1. ChannelInv /\ c \in Thread /\ pc' = [pc EXCEPT ![c] = At("ipc_test", Receivers)]
    BY <1>1
  <2>2. \A q : /\ Detaches(q, pc', c) <=>
                    "ipc_test" \in {"ipc_test", "ipc_next"} /\ Receivers = q
               /\ \A x \in Thread \ {c} : Detaches(q, pc', x) <=> Detaches(q, pc, x)
    BY ONLY <2>1, DetachersAre
  <2>3. \A x \in Thread \ {c} : ~ Detaches(Receivers, pc', x) /\ ~ Detaches(Senders, pc', x)
    BY <1>4, <2>2
  <2>4. ~ Detaches(Senders, pc', c)
    BY <1>1, <2>2
  <2> QED BY <2>3, <2>4
<1>6. BothDetach'
  BY <1>3, <1>5 DEF BothDetach
<1>7. WaitOK'
  BY <1>1, WaitKept
<1>8. Goes(c, "ipc_test", Receivers) /\ "ipc_test" \notin WaitLabels
  BY <1>1, <1>2 DEF Goes, LabelOK, RacyLabels, HoldLabels, Label, Runs, WaitLabels
<1>9. IpcInv' /\ Attached'
  BY <1>1, <1>2, <1>8, SameObjInv
<1>10. ObjInv'
  <2>1. obj' \in [Queue -> {"live", "leaving", "none"}]
    BY <1>1
  <2>2. \A q \in Queue : obj'[q] = "none" => obj[q] = "none"
    BY <1>1
  <2> QED BY <1>1, <1>9, <2>1, <2>2 DEF ObjInv, NobodyLeftBehind
<1>11. \A q \in BothLists : CallOf(q, k, pc, c) # "granted"
  BY <1>2, LabelsApart DEF CallOf
<1> QED BY <1>1, <1>6, <1>7, <1>8, <1>10, <1>11, MoveStep

\* The object is initialized again: nobody waits on one that was gone.
LEMMA ChannelInitializeStep ==
  ASSUME ChannelInv, NEW c \in Thread, InitializeBoth(c)
  PROVE  ChannelInv' /\ k'.list[Receivers] = << >> /\ k'.list[Senders] = << >>
<1>1. /\ ObjInv /\ WaitOK /\ BothDetach /\ UNCHANGED <<k, isr, pc, wait>>
      /\ Receivers \in Queue /\ Senders \in Queue /\ BothLists = {Receivers, Senders}
      /\ obj[Receivers] = "none" /\ obj[Senders] = "none"
      /\ obj' = [q \in Queue |-> IF q \in BothLists THEN "live" ELSE obj[q]]
      /\ obj \in [Queue -> {"live", "leaving", "none"}]
  BY ChannelFacts DEF ChannelInv, InitializeBoth
<1>2. obj'[Receivers] = "live" /\ obj'[Senders] = "live"
  BY <1>1
<1>3. k'.list[Receivers] = << >> /\ k'.list[Senders] = << >>
  BY <1>1 DEF ObjInv, NobodyLeftBehind
<1>4. ObjInv'
  <2>1. IpcInv' /\ Attached'
    BY <1>1, UnchangedIpcInv DEF ObjInv, Attached
  <2>2. obj' \in [Queue -> {"live", "leaving", "none"}]
    BY <1>1
  <2>3. \A q \in Queue : obj'[q] = "none" => obj[q] = "none"
    BY <1>1
  <2> QED BY <1>1, <2>1, <2>2, <2>3 DEF ObjInv, NobodyLeftBehind
<1>5. \A x \in Thread : ~ Detaches(Receivers, pc', x) /\ ~ Detaches(Senders, pc', x)
  BY <1>1 DEF BothDetach, Detaches
<1>6. BothDetach' /\ LiveIfGranted' /\ WaitOK'
  BY <1>1, <1>2, <1>5 DEF BothDetach, LiveIfGranted, WaitOK
<1> QED BY <1>1, <1>3, <1>4, <1>6 DEF ChannelInv

\* A caller that looks again has been granted its call, so the object is live.
LEMMA AgainFacts ==
  ASSUME ChannelInv, NEW c \in Thread, NEW q \in BothLists, Again(c, q),
         NEW r \in BothLists, q # r
  PROVE  /\ Runs(c) /\ obj[Receivers] = "live" /\ CallOf(r, k, pc, c) = "none"
         /\ Remaining(wait[c]) \in Nat \cup {-1}
<1>1. /\ ObjInv /\ Core(k, {}) /\ Executes(c, "ipc_end") /\ pc[c].at = "ipc_end"
      /\ pc[c].arg = q /\ k.err[c] = "EOK" /\ q \in Queue
  BY ChannelAssumption DEF ChannelInv, ObjInv, IpcInv, IInv, Again, Executes, BothLists
<1>2. Runs(c)
  <2>1. "ipc_end" \notin Label
    BY DEF Label
  <2> QED BY <1>1, <2>1, IpcExecutes DEF Runs
<1>3. c \notin Members(k.list[q])
  BY <1>1, <1>2, NotSuspended DEF Runs
<1>4. CallOf(q, k, pc, c) = "granted" /\ CallOf(r, k, pc, c) = "none"
  BY <1>1, <1>3 DEF CallOf, WaitLabels
<1>5. obj[Receivers] = "live"
  <2>1. c \in Grants(q, k, pc)
    BY <1>4 DEF Grants
  <2> QED BY <2>1 DEF ChannelInv, LiveIfGranted
<1>6. Remaining(wait[c]) \in Nat \cup {-1}
  <2>1. wait[c] \in [timeout : Nat \cup {-1}, spent : Nat]
    BY DEF ChannelInv, WaitOK
  <2> QED BY <2>1, WaitTimes
<1> QED BY <1>2, <1>4, <1>5, <1>6

\* A caller that begins is inside of no call yet.
LEMMA AsksChannel ==
  ASSUME Polite, ChannelInv, NEW c \in Thread, NEW x, Asks(c, x, Receivers)
  PROVE  /\ Runs(c) /\ obj[Receivers] = "live"
         /\ \A q : CallOf(q, k, pc, c) = "none"
<1>1. IpcInv
  BY ChannelFacts
<1>2. pc[c].at \in Label /\ Runs(c) /\ obj[Receivers] = "live"
  BY <1>1, AsksFacts DEF Runs
<1> QED BY <1>2, LabelsApart, NoCall

\* All threads have been started and nobody has called anything yet.
LEMMA ChannelStarts ==
  ASSUME IsFiniteSet(Thread), RetryInit
  PROVE  ChannelInv /\ \A q \in BothLists : k.list[q] = << >>
<1>1. InitStarted /\ RetryStart /\ BothLists \subseteq Queue /\ Receivers \in Queue
      /\ Senders \in Queue
  BY ChannelAssumption DEF RetryInit, BothLists
<1>2. ObjInv /\ \A q \in Queue : k.list[q] = << >>
  BY <1>1, InitObjInv
<1>3. WaitOK
  <2>1. NotWaiting \in [timeout : Nat \cup {-1}, spent : Nat]
    BY DEF NotWaiting
  <2> QED BY <1>1, <2>1 DEF RetryStart, WaitOK
<1>4. \A t \in Thread : pc[t].at = "run"
  BY <1>1 DEF InitStarted, Running, At
<1>5. obj[Receivers] = "live" /\ obj[Senders] = "live"
  BY <1>1 DEF InitStarted, Started
<1>6. BothDetach /\ LiveIfGranted
  BY <1>4, <1>5 DEF BothDetach, LiveIfGranted, Detaches
<1> QED BY <1>1, <1>2, <1>3, <1>6 DEF ChannelInv

\* Nothing happens.
LEMMA ChannelStutters ==
  ASSUME ChannelInv, UNCHANGED <<k, isr, pc, obj, wait>>
  PROVE  ChannelInv' /\ \A q \in BothLists : NoMore(q)
<1>1. UNCHANGED ipcVars
  BY DEF ipcVars
<1>2. ObjInv' /\ WaitOK' /\ BothDetach'
  BY <1>1, UnchangedObjInv DEF ChannelInv, WaitOK, BothDetach, Detaches
<1> QED BY <1>2, KeepStep

-----------------------------------------------------------------------------
(***************************************************************************)
(* The mailbox's waiters.  What the receivers wait for is a mail, what the *)
(* senders wait for is a free entry; a call that takes one of the first    *)
(* adds one of the second and resumes a thread that waits for it, and a    *)
(* call that waits has found none.                                         *)
(***************************************************************************)
BoxNoticed(kk, p, box) ==
  /\ Noticed(Receivers, kk, p, box.entry)
  /\ Noticed(Senders, kk, p, MailboxSize - box.entry)

BoxInv == ChannelInv /\ MbInv /\ BoxNoticed(k, pc, mb)

\* The amounts are numbers of entries.
LEMMA BoxAmounts ==
  ASSUME NEW box, BoxOK(box)
  PROVE  box.entry \in Nat /\ MailboxSize - box.entry \in Nat
<1>1. MailboxSize \in Nat /\ box.entry \in 0 .. MailboxSize
  BY MailboxAssumption DEF BoxOK
<1> QED BY <1>1

\* A step that leaves the box alone.
LEMMA SameBoxNoticed ==
  ASSUME BoxInv, UNCHANGED mb, \A q \in BothLists : NoMore(q)
  PROVE  BoxNoticed(k', pc', mb')
<1>1. mb.entry \in Nat /\ MailboxSize - mb.entry \in Nat
  BY BoxAmounts DEF BoxInv, MbInv
<1> QED BY <1>1 DEF BoxInv, BoxNoticed, BothLists, NoMore

\* Nobody waits any more.
LEMMA EmptyBoxNoticed ==
  ASSUME IsFiniteSet(Thread), k'.list[Receivers] = << >>, k'.list[Senders] = << >>
  PROVE  BoxNoticed(k', pc', mb')
BY NothingToNotice DEF BoxNoticed

\* rt_mb_send_wait, when it is called and when it looks again.
LEMMA SendLoopInv ==
  ASSUME IsFiniteSet(Thread), BoxInv, MbInv', NEW c \in Thread, Runs(c),
         obj[Receivers] = "live", CallOf(Receivers, k, pc, c) = "none",
         NEW v, NEW time \in Nat \cup {-1}, SendLoop(c, v, time)
  PROVE  BoxInv'
<1>1. /\ ChannelInv /\ UNCHANGED <<isr, obj>> /\ WaitOK /\ BoxNoticed(k, pc, mb)
      /\ Senders \in BothLists /\ Receivers \in BothLists /\ Senders # Receivers
  BY ChannelAssumption DEF SendLoop, BoxInv, ChannelInv, BothLists
<1>2. /\ mb.entry \in Nat /\ MailboxSize - mb.entry \in Nat /\ MailboxSize \in Nat
      /\ mb'.entry \in Nat /\ MailboxSize - mb'.entry \in Nat
  BY BoxAmounts, MailboxAssumption DEF BoxInv, MbInv
<1>3. CASE Deposit(c, v)
  <2>1. mb' = Posted(v) /\ k' = WakeFirst(k, Receivers) /\ Leaves(c)
    BY <1>3 DEF Deposit, Completes
  <2>2. mb'.entry = mb.entry + 1
    BY <1>1, <2>1 DEF Posted, BoxInv, MbInv, BoxOK
  <2>3. WaitOK'
    BY <1>1, <2>1, WaitKept
  <2>4. PICK l \in {"run", "sched"} : pc' = [pc EXCEPT ![c] = At(l, c)]
    BY <1>3 DEF Deposit, Completes, Return, Goto
  <2>5. Goes(c, l, c) /\ l \notin WaitLabels /\ l \notin {"ipc_test", "ipc_next"}
    BY <2>4, ReturnGoes
  <2>6. ChannelInv' /\ OneMore(Receivers) /\ OneLess(Senders)
    BY <1>1, <2>1, <2>3, <2>4, <2>5, CompleteStep
  <2>7. MailboxSize - mb.entry = (MailboxSize - mb'.entry) + 1
    BY <1>2, <2>2
  <2>8. BoxNoticed(k', pc', mb')
    BY <1>1, <1>2, <2>2, <2>6, <2>7 DEF BoxNoticed, OneMore, OneLess
  <2> QED BY <2>6, <2>8 DEF BoxInv
<1>4. ASSUME Full, UNCHANGED mb, ChannelInv', Noticed(Senders, k', pc', 0), NoMore(Receivers)
      PROVE  BoxInv'
  <2>1. MailboxSize - mb'.entry = 0
    BY <1>2, <1>4 DEF Full
  <2> QED BY <1>1, <1>2, <1>4, <2>1 DEF BoxNoticed, NoMore, BoxInv
<1>5. CASE Full /\ Return(c) /\ Leaves(c) /\ UNCHANGED <<k, mb>>
  <2>1. ChannelInv' /\ Noticed(Senders, k', pc', 0) /\ NoMore(Receivers)
    BY <1>1, <1>5, GiveUpStep
  <2> QED BY <1>4, <1>5, <2>1
<1>6. CASE Full /\ Waits(c, Senders, time) /\ UNCHANGED mb
  <2>1. ChannelInv' /\ Noticed(Senders, k', pc', 0) /\ NoMore(Receivers)
    BY <1>1, <1>6, WaitStep
  <2> QED BY <1>4, <1>6, <2>1
<1> QED BY <1>3, <1>5, <1>6 DEF SendLoop

\* rt_mb_recv, when it is called and when it looks again.
LEMMA RecvLoopInv ==
  ASSUME IsFiniteSet(Thread), BoxInv, MbInv', NEW c \in Thread, Runs(c),
         obj[Receivers] = "live", CallOf(Senders, k, pc, c) = "none",
         NEW time \in Nat \cup {-1}, RecvLoop(c, time)
  PROVE  BoxInv'
<1>1. /\ ChannelInv /\ UNCHANGED <<isr, obj>> /\ WaitOK /\ BoxNoticed(k, pc, mb)
      /\ Senders \in BothLists /\ Receivers \in BothLists /\ Receivers # Senders
      /\ Senders \in Queue
  BY ChannelAssumption DEF RecvLoop, BoxInv, ChannelInv, BothLists
<1>2. /\ mb.entry \in Nat /\ MailboxSize - mb.entry \in Nat /\ MailboxSize \in Nat
      /\ mb'.entry \in Nat /\ MailboxSize - mb'.entry \in Nat
  BY BoxAmounts, MailboxAssumption DEF BoxInv, MbInv
<1>3. CASE Withdraw(c)
  <2>1. mb' = Taken /\ k' = WakeFirst(k, Senders) /\ Leaves(c)
    BY <1>3 DEF Withdraw
  <2>2. mb'.entry = mb.entry - 1
    BY <2>1 DEF Taken, BoxInv, MbInv, BoxOK
  <2>3. WaitOK'
    BY <1>1, <2>1, WaitKept
  <2>4. PICK l \in {"mb_sched", "mb_return"} : pc' = [pc EXCEPT ![c] = At(l, Senders)]
    BY <1>3 DEF Withdraw, Goto
  <2>5. Goes(c, l, Senders) /\ l \notin WaitLabels /\ l \notin {"ipc_test", "ipc_next"}
    BY <1>1, <2>4 DEF Goes, LabelOK, RacyLabels, HoldLabels, Label, WaitLabels, Runs
  <2>6. ChannelInv' /\ OneMore(Senders) /\ OneLess(Receivers)
    BY <1>1, <2>1, <2>3, <2>4, <2>5, CompleteStep
  <2>7. mb.entry = mb'.entry + 1 /\ MailboxSize - mb'.entry = (MailboxSize - mb.entry) + 1
    BY <1>2, <2>2
  <2>8. BoxNoticed(k', pc', mb')
    BY <1>1, <1>2, <2>6, <2>7 DEF BoxNoticed, OneMore, OneLess
  <2> QED BY <2>6, <2>8 DEF BoxInv
<1>4. ASSUME mb.entry = 0, UNCHANGED mb, ChannelInv', Noticed(Receivers, k', pc', 0),
             NoMore(Senders)
      PROVE  BoxInv'
  BY <1>1, <1>2, <1>4 DEF BoxNoticed, NoMore, BoxInv
<1>5. CASE /\ mb.entry = 0 /\ Return(c) /\ Leaves(c) /\ UNCHANGED mb
           /\ k' = k \/ k' = [k EXCEPT !.err[c] = "ETIMEOUT"]
  <2>1. ChannelInv' /\ Noticed(Receivers, k', pc', 0) /\ NoMore(Senders)
    BY <1>1, <1>5, GiveUpStep
  <2> QED BY <1>4, <1>5, <2>1
<1>6. CASE mb.entry = 0 /\ Waits(c, Receivers, time) /\ UNCHANGED mb
  <2>1. ChannelInv' /\ Noticed(Receivers, k', pc', 0) /\ NoMore(Senders)
    BY <1>1, <1>6, WaitStep
  <2> QED BY <1>4, <1>6, <2>1
<1> QED BY <1>3, <1>5, <1>6 DEF RecvLoop

\* The receiver that has resumed a sender schedules, and any receiver that has
\* got its mail returns.
LEMMA MbReceivedInv ==
  ASSUME IsFiniteSet(Thread), ChannelInv, NEW c \in Thread, RecvSchedule(c) \/ RecvReturn(c)
  PROVE  ChannelInv' /\ \A q \in BothLists : NoMore(q)
<1>1. /\ ObjInv /\ BothLists \subseteq Queue /\ WaitOK /\ BothDetach
      /\ UNCHANGED <<isr, obj, wait>> /\ Senders \in Queue
  BY ChannelAssumption DEF ChannelInv, BothLists, RecvSchedule, RecvReturn
<1>2. Runs(c) /\ pc[c].at \in {"mb_sched", "mb_return"}
  <2>1. "mb_sched" \notin Label /\ "mb_return" \notin Label
    BY DEF Label
  <2>2. Executes(c, "mb_sched") \/ Executes(c, "mb_return")
    BY DEF RecvSchedule, RecvReturn
  <2> QED BY <1>1, <2>1, <2>2, IpcExecutes DEF Runs, Executes
<1>3. \A q \in BothLists : CallOf(q, k, pc, c) = "none"
  BY <1>2 DEF CallOf, WaitLabels
<1>4. WaitOK'
  BY <1>1, WaitKept
<1>5. CASE RecvSchedule(c)
  <2>1. k' = rt_schedule(k) /\ pc' = [pc EXCEPT ![c] = At("mb_return", Senders)]
    BY <1>5 DEF RecvSchedule, Goto
  <2>2. Goes(c, "mb_return", Senders) /\ "mb_return" \notin WaitLabels
    BY <1>1, <1>2 DEF Goes, LabelOK, RacyLabels, HoldLabels, Label, Runs, WaitLabels
  <2>3. "mb_return" \notin {"ipc_test", "ipc_next"}
    OBVIOUS
  <2>4. ObjInv' /\ Steady(k, k', {})
    BY <1>1, <1>2, <2>1, <2>2, ScheduleObjInv
  <2>5. BothDetach'
    BY <1>1, <2>1, <2>3, OtherBothDetach
  <2>6. \A q \in BothLists : Members(k'.list[q]) \subseteq Members(k.list[q])
    BY <1>1, <2>4 DEF Steady
  <2>7. pc'[c].at = "mb_return" /\ \A x \in Thread \ {c} : pc'[x] = pc[x]
    <3>1. pc = [x \in Thread |-> pc[x]]
      BY ChannelFacts
    <3> QED BY <2>1, <3>1 DEF At
  <2>8. ASSUME NEW q \in BothLists, NEW x \in Thread
        PROVE  CallOf(q, k', pc', x) = CallOf(q, k, pc, x)
    <3>1. CASE x = c
      BY <1>3, <2>2, <2>7, <3>1 DEF CallOf
    <3>2. CASE x # c
      <4>1. k'.err[x] = k.err[x] /\ (x \in Members(k'.list[q]) <=> x \in Members(k.list[q]))
        BY <1>1, <2>4 DEF Steady
      <4> QED BY <2>7, <3>2, <4>1 DEF CallOf
    <3> QED BY <3>1, <3>2
  <2> QED BY <1>1, <1>4, <2>4, <2>5, <2>6, <2>8, KeepStep
<1>6. CASE RecvReturn(c)
  <2>1. k' = k /\ pc' = [pc EXCEPT ![c] = At("run", c)]
    BY <1>6 DEF RecvReturn, Return, Goto
  <2>2. Goes(c, "run", c) /\ "run" \notin WaitLabels
    BY <1>2, ReturnGoes
  <2>3. "run" \notin {"ipc_test", "ipc_next"}
    OBVIOUS
  <2>4. ObjInv'
    BY <1>1, <1>2, <2>1, <2>2, SameObjInv
  <2>5. BothDetach'
    BY <1>1, <2>1, <2>3, OtherBothDetach
  <2> QED BY <1>1, <1>3, <1>4, <2>1, <2>2, <2>4, <2>5, MoveStep
<1> QED BY <1>5, <1>6

\* An interrupt handler sends a mail.
LEMMA IsrSendInv ==
  ASSUME IsFiniteSet(Thread), BoxInv, MbInv', NEW v, IsrMbSend(v)
  PROVE  BoxInv'
<1>1. /\ ChannelInv /\ obj[Receivers] = "live" /\ UNCHANGED <<isr, pc, obj, wait>>
      /\ k' = (IF k.list[Receivers] # << >> THEN rt_schedule(WakeFirst(k, Receivers)) ELSE k)
      /\ mb' = Posted(v) /\ BoxNoticed(k, pc, mb)
  BY DEF BoxInv, IsrMbSend
<1>2. ChannelInv' /\ OneMore(Receivers) /\ OneLess(Senders)
  BY <1>1, ChannelIsrStep
<1>3. /\ mb.entry \in Nat /\ MailboxSize - mb.entry \in Nat /\ MailboxSize \in Nat
      /\ mb'.entry \in Nat /\ MailboxSize - mb'.entry \in Nat
  BY BoxAmounts, MailboxAssumption DEF BoxInv, MbInv
<1>4. mb'.entry = mb.entry + 1
  BY <1>1 DEF Posted, BoxInv, MbInv, BoxOK
<1>5. MailboxSize - mb.entry = (MailboxSize - mb'.entry) + 1
  BY <1>3, <1>4
<1>6. BoxNoticed(k', pc', mb')
  BY <1>1, <1>2, <1>3, <1>4, <1>5 DEF BoxNoticed, OneMore, OneLess
<1> QED BY <1>2, <1>6 DEF BoxInv

\* Every step keeps the invariant.
LEMMA BoxInvIsInductive ==
  ASSUME Polite, IsFiniteSet(Thread)
  PROVE  BoxInv /\ [MbNext]_mbVars => BoxInv'
<1> SUFFICES ASSUME BoxInv, [MbNext]_mbVars PROVE BoxInv'
  OBVIOUS
<1>1. /\ MbInv' /\ Senders \in BothLists /\ Receivers \in BothLists /\ Senders # Receivers
      /\ ChannelInv
  BY MbSteps, ChannelAssumption DEF BoxInv, BothLists
<1>2. ASSUME ChannelInv', UNCHANGED mb, \A q \in BothLists : NoMore(q) PROVE BoxInv'
  BY <1>1, <1>2, SameBoxNoticed DEF BoxInv
<1>3. CASE UNCHANGED mbVars
  <2>1. UNCHANGED <<k, isr, pc, obj, wait, mb>>
    BY <1>3 DEF mbVars, retryVars, ipcVars
  <2> QED BY <1>1, <1>2, <2>1, ChannelStutters
<1>4. CASE KernelStep /\ UNCHANGED <<mb, mail>>
  BY <1>1, <1>2, <1>4, ChannelKernelStep
<1>5. ASSUME NEW c \in Thread, ChannelContinue(c) /\ UNCHANGED <<mb, mail>> PROVE BoxInv'
  <2>1. ChannelInv' /\ \A q \in BothLists : NoMore(q)
    BY <1>1, <1>5, ChannelNextStep, ChannelTestStep, ChannelFailsStep DEF ChannelContinue
  <2> QED BY <1>2, <1>5, <2>1
<1>6. ASSUME NEW c \in Thread, SendAgain(c) PROVE BoxInv'
  <2>1. Again(c, Senders) /\ SendLoop(c, mail[c], Remaining(wait[c]))
    BY <1>6 DEF SendAgain
  <2>2. /\ Runs(c) /\ obj[Receivers] = "live" /\ CallOf(Receivers, k, pc, c) = "none"
        /\ Remaining(wait[c]) \in Nat \cup {-1}
    BY <1>1, <2>1, AgainFacts
  <2> QED BY <1>1, <2>1, <2>2, SendLoopInv
<1>7. ASSUME NEW c \in Thread, RecvAgain(c) PROVE BoxInv'
  <2>1. Again(c, Receivers) /\ RecvLoop(c, Remaining(wait[c]))
    BY <1>7 DEF RecvAgain
  <2>2. /\ Runs(c) /\ obj[Receivers] = "live" /\ CallOf(Senders, k, pc, c) = "none"
        /\ Remaining(wait[c]) \in Nat \cup {-1}
    BY <1>1, <2>1, AgainFacts
  <2> QED BY <1>1, <2>1, <2>2, RecvLoopInv
<1>8. WaitTime \subseteq Nat \cup {-1}
  BY IpcAssumption
<1>9. ASSUME NEW c \in Thread, NEW v \in Mail, NEW time \in WaitTime,
             rt_mb_send_wait(c, v, time)
      PROVE  BoxInv'
  <2>1. Asks(c, "send", Receivers) /\ SendLoop(c, v, time) /\ time \in Nat \cup {-1}
    BY <1>8, <1>9 DEF rt_mb_send_wait
  <2>2. Runs(c) /\ obj[Receivers] = "live" /\ CallOf(Receivers, k, pc, c) = "none"
    BY <1>1, <2>1, AsksChannel
  <2> QED BY <1>1, <2>1, <2>2, SendLoopInv
<1>10. ASSUME NEW c \in Thread, NEW time \in WaitTime, rt_mb_recv(c, time) PROVE BoxInv'
  <2>1. Asks(c, "recv", Receivers) /\ RecvLoop(c, time) /\ time \in Nat \cup {-1}
    BY <1>8, <1>10 DEF rt_mb_recv
  <2>2. Runs(c) /\ obj[Receivers] = "live" /\ CallOf(Senders, k, pc, c) = "none"
    BY <1>1, <2>1, AsksChannel
  <2> QED BY <1>1, <2>1, <2>2, RecvLoopInv
<1>11. ASSUME NEW c \in Thread, RecvSchedule(c) \/ RecvReturn(c) PROVE BoxInv'
  <2>1. UNCHANGED mb
    BY <1>11 DEF RecvSchedule, RecvReturn
  <2> QED BY <1>1, <1>2, <1>11, <2>1, MbReceivedInv
<1>12. ASSUME NEW c \in Thread, rt_mb_control(c) PROVE BoxInv'
  <2>1. ChannelInv' /\ k'.list[Receivers] = << >> /\ k'.list[Senders] = << >>
    BY <1>1, <1>12, ChannelResetStep DEF rt_mb_control
  <2> QED BY <1>1, <2>1, EmptyBoxNoticed DEF BoxInv
<1>13. ASSUME NEW c \in Thread, rt_mb_detach(c) PROVE BoxInv'
  BY <1>1, <1>2, <1>13, ChannelDetachStep DEF rt_mb_detach
<1>14. ASSUME NEW c \in Thread, rt_mb_init(c) PROVE BoxInv'
  <2>1. ChannelInv' /\ k'.list[Receivers] = << >> /\ k'.list[Senders] = << >>
    BY <1>1, <1>14, ChannelInitializeStep DEF rt_mb_init
  <2> QED BY <1>1, <2>1, EmptyBoxNoticed DEF BoxInv
<1>15. ASSUME NEW v \in Mail, IsrMbSend(v) PROVE BoxInv'
  BY <1>1, <1>15, IsrSendInv
<1> QED BY <1>3, <1>4, <1>5, <1>6, <1>7, <1>9, <1>10, <1>11, <1>12, <1>13, <1>14, <1>15
        DEF MbNext

(***************************************************************************)
(* No mail and no free entry goes unnoticed, whatever threads and          *)
(* interrupt handlers send and receive, however long a resumed thread      *)
(* takes to look again, whatever times out, is reset or detached:          *)
(* receivers wait only while every mail in the box has a resumed receiver  *)
(* on its way, and senders only while every free entry has a resumed       *)
(* sender.                                                                 *)
(***************************************************************************)
THEOREM NoMailIsMissed ==
  ASSUME Polite, IsFiniteSet(Thread)
  PROVE  MbSpec => []MailNotMissed
<1>1. MbInit => BoxInv
  <2> SUFFICES ASSUME MbInit PROVE BoxInv
    OBVIOUS
  <2>1. ChannelInv /\ k.list[Receivers] = << >> /\ k.list[Senders] = << >>
    BY ChannelStarts DEF MbInit, BothLists
  <2>2. BoxNoticed(k, pc, mb)
    BY <2>1, NothingToNotice DEF BoxNoticed
  <2> QED BY <2>1, <2>2, MbInitInv DEF BoxInv
<1>2. BoxInv => MailNotMissed
  <2> SUFFICES ASSUME BoxInv PROVE MailNotMissed
    OBVIOUS
  <2>1. /\ Noticed(Receivers, k, pc, mb.entry)
        /\ Noticed(Senders, k, pc, MailboxSize - mb.entry)
    BY DEF BoxInv, BoxNoticed
  <2>2. k.list[Receivers] # << >> => mb.entry <= Cardinality(Granted(Receivers))
    BY <2>1, GrantedAre DEF Noticed
  <2>3. k.list[Senders] # << >> => MailboxSize - mb.entry <= Cardinality(Granted(Senders))
    BY <2>1, GrantedAre DEF Noticed
  <2>4. ASSUME NEW t \in Members(k.list[Senders]) PROVE k.list[Senders] # << >>
    BY DEF Members
  <2> QED BY <2>2, <2>3, <2>4 DEF MailNotMissed
<1> QED BY <1>1, <1>2, BoxInvIsInductive, PTL DEF MbSpec

-----------------------------------------------------------------------------
(***************************************************************************)
(* The deadlines of waiters.  What is left of the timeout of a call in its *)
(* waiting loop is the time to the deadline it asked for, whether it waits *)
(* or has been resumed and has yet to look again, and the timer of one     *)
(* that waits is set to it.  Nothing is needed of what the object stores.  *)
(***************************************************************************)
Punctual ==
  /\ due = [t \in Thread |-> due[t]]
  /\ \A t \in Thread : pc[t].at \in WaitLabels => due[t] = Remaining(wait[t])
  /\ \A q \in Queue : \A t \in Members(k.list[q]) : k.timer[t] = due[t]

RetryInv == CallInv /\ WaitOK /\ Punctual

\* The invariant says when the waiters time out.
LEMMA RetryOnTime == RetryInv => TimesOutOnTime
BY ChannelAssumption DEF RetryInv, Punctual, TimesOutOnTime, BothLists

\* Nobody has called anything yet.
LEMMA RetryInitInv ==
  ASSUME IsFiniteSet(Thread), RetryInit
  PROVE  RetryInv
<1>1. InitStarted /\ RetryStart
  BY DEF RetryInit
<1>2. ObjInv /\ \A q \in Queue : k.list[q] = << >>
  BY <1>1, InitObjInv
<1>3. WaitOK
  <2>1. NotWaiting \in [timeout : Nat \cup {-1}, spent : Nat]
    BY DEF NotWaiting
  <2> QED BY <1>1, <2>1 DEF RetryStart, WaitOK
<1>4. \A t \in Thread : pc[t].at \notin WaitLabels
  BY <1>1 DEF InitStarted, Running, At, WaitLabels
<1>5. \A q \in Queue : Members(k.list[q]) = {}
  BY <1>2 DEF Members
<1> QED BY <1>1, <1>2, <1>3, <1>4, <1>5 DEF RetryInv, Punctual, RetryStart, ObjInv, CallInv

\* The threads of a suspend list are in their waiting loop.
LEMMA WaitersLoop ==
  ASSUME NEW q \in Queue
  PROVE  /\ CallInv => \A x \in Members(k.list[q]) : x \in Thread /\ pc[x].at \in WaitLabels
         /\ CallInv' => \A x \in Members(k'.list[q]) : x \in Thread /\ pc'[x].at \in WaitLabels
<1>1. CallInv => Core(k, {}) /\ Linked(k, pc)
  BY DEF CallInv, IpcInv, IInv, WaitersOK
<1>2. CallInv' => Core(k', {}) /\ Linked(k', pc')
  BY DEF CallInv, IpcInv, IInv, WaitersOK
<1> QED BY <1>1, <1>2, MembersAre DEF Linked

\* Nobody enters a loop, and who stays in one keeps what the invariant is about.
LEMMA RetryKept ==
  ASSUME RetryInv, CallInv', WaitOK', due' = [t \in Thread |-> due'[t]],
         \A t \in Thread : pc'[t].at \in WaitLabels =>
           pc[t].at \in WaitLabels /\ wait'[t] = wait[t] /\ due'[t] = due[t],
         \A q \in Queue : \A x \in Members(k'.list[q]) :
           x \in Members(k.list[q]) /\ k'.timer[x] = k.timer[x]
  PROVE  RetryInv'
<1>1. Punctual
  BY DEF RetryInv
<1>2. \A t \in Thread : pc'[t].at \in WaitLabels => due'[t] = Remaining(wait[t])'
  BY <1>1 DEF Punctual, Remaining
<1>3. ASSUME NEW q \in Queue, NEW x \in Members(k'.list[q]) PROVE k'.timer[x] = due'[x]
  BY <1>1, <1>3, WaitersLoop DEF Punctual
<1> QED BY <1>2, <1>3 DEF RetryInv, Punctual


\* A tick brings the end of a wait as much nearer as the deadline.
LEMMA SpendIsNearer ==
  ASSUME NEW w \in [timeout : Nat \cup {-1}, spent : Nat]
  PROVE  Remaining(Spend(w)) = Nearer(Remaining(w))
<1>1. w.timeout \in Nat \cup {-1} /\ w.spent \in Nat
  OBVIOUS
<1>2. CASE w.timeout > 0 /\ w.spent <= w.timeout
  <2>1. Spend(w) = [w EXCEPT !.spent = w.spent + 1]
    BY <1>2 DEF Spend
  <2>2. Spend(w).timeout = w.timeout /\ Spend(w).spent = w.spent + 1
    BY <2>1
  <2> HIDE DEF Spend
  <2> QED BY <1>1, <1>2, <2>2 DEF Remaining, Nearer
<1>3. CASE ~ (w.timeout > 0 /\ w.spent <= w.timeout)
  <2>1. Spend(w) = w
    BY <1>3 DEF Spend
  <2>2. ~ Remaining(w) > 0
    BY <1>1, <1>3 DEF Remaining
  <2> QED BY <2>1, <2>2 DEF Nearer
<1> QED BY <1>2, <1>3

\* A step of the scheduler, the thread API or the tick interrupt.
LEMMA RetryKernelInv ==
  ASSUME Polite, RetryInv, KernelStep
  PROVE  RetryInv'
<1>1. /\ IpcInv /\ Attached /\ Next /\ WaitOK /\ Punctual /\ CallInv
      /\ wait' = IF Ticks THEN [t \in Thread |-> Spend(wait[t])] ELSE wait
      /\ due' = IF Ticks THEN [t \in Thread |-> Nearer(due[t])] ELSE due
  BY DEF RetryInv, CallInv, KernelStep
<1>2. /\ IpcInv' /\ (\A x \in Thread : Unmoved(x)) /\ \E t \in Thread : Quiet(t)
  BY <1>1, NextIpcInv
<1>3. CallInv'
  BY <1>1, <1>2 DEF CallInv, Attached, Unmoved
<1>4. WaitOK'
  BY <1>1, WaitKept
<1>5. \A q \in Queue : \A x \in Members(k'.list[q]) :
        x \in Members(k.list[q]) /\ k'.timer[x] = Ticked(k.timer[x])
  <2>1. \A q \in Queue : Members(k'.list[q]) \subseteq Members(k.list[q])
    BY <1>2 DEF Quiet, Steady
  <2>2. \A q \in Queue : \A x \in Members(k'.list[q]) : k'.timer[x] = Ticked(k.timer[x])
    BY <1>1, NextWaiters
  <2> QED BY <2>1, <2>2
<1>6. \A x \in Thread : pc'[x].at \in WaitLabels => pc[x].at \in WaitLabels
  BY <1>2, LabelsApart DEF Unmoved
<1>7. CASE ~ Ticks
  <2>1. wait' = wait /\ due' = due
    BY <1>1, <1>7
  <2>2. \A d : Ticked(d) = d
    BY <1>7 DEF Ticked, Ticks
  <2>3. due' = [t \in Thread |-> due'[t]]
    BY <1>1, <2>1 DEF Punctual
  <2> QED BY <1>3, <1>4, <1>5, <1>6, <2>1, <2>2, <2>3, RetryKept
<1>8. CASE Ticks
  <2>1. \A t \in Thread : wait'[t] = Spend(wait[t]) /\ due'[t] = Nearer(due[t])
    BY <1>1, <1>8
  <2>2. due' = [t \in Thread |-> due'[t]]
    BY <1>1, <1>8
  <2>3. ASSUME NEW t \in Thread, pc'[t].at \in WaitLabels
        PROVE  due'[t] = Remaining(wait'[t])
    <3>1. wait[t] \in [timeout : Nat \cup {-1}, spent : Nat]
      BY <1>1 DEF WaitOK
    <3>2. due[t] = Remaining(wait[t])
      BY <1>1, <1>6, <2>3 DEF Punctual
    <3> QED BY <2>1, <3>1, <3>2, SpendIsNearer
  <2>4. ASSUME NEW q \in Queue, NEW x \in Members(k'.list[q]) PROVE k'.timer[x] = due'[x]
    <3>1. k.timer[x] = due[x] /\ x \in Thread
      BY <1>1, <1>5, <2>4, WaitersLoop DEF Punctual
    <3>2. \A d : Ticked(d) = Nearer(d)
      BY <1>8 DEF Ticked, Nearer, Ticks
    <3> QED BY <1>5, <2>1, <3>1, <3>2
  <2> QED BY <1>3, <1>4, <2>2, <2>3, <2>4 DEF RetryInv, Punctual
<1> QED BY <1>7, <1>8


\* Resuming waiters leaves the others where they are.
LEMMA ResumedOnTime ==
  ASSUME NEW kk, NEW u, NEW X, Core(u, {}), Resumed(kk, u, X)
  PROVE  \A q \in Queue : \A x \in Members(u.list[q]) :
           x \in Members(kk.list[q]) /\ u.timer[x] = kk.timer[x]
<1> SUFFICES ASSUME NEW q \in Queue, NEW x \in Members(u.list[q])
             PROVE  x \in Members(kk.list[q]) /\ u.timer[x] = kk.timer[x]
  OBVIOUS
<1>1. x \in Thread /\ u.stat[x] = "SUSPEND"
  BY MembersAre
<1>2. x \notin X
  BY <1>1 DEF Resumed, Runnable
<1> QED BY <1>1, <1>2 DEF Resumed, Stands

\* So does a context switch.
LEMMA MovesOnTime ==
  ASSUME NEW kk, NEW u, Moves(kk, u)
  PROVE  \A q \in Queue : \A x \in Members(u.list[q]) :
           x \in Members(kk.list[q]) /\ u.timer[x] = kk.timer[x]
BY DEF Moves

\* A step of c out of its waiting loop, or outside of it.
LEMMA AsideInv ==
  ASSUME RetryInv, CallInv', NEW c \in Thread, NEW l, NEW a, l \notin WaitLabels,
         pc' = [pc EXCEPT ![c] = At(l, a)], UNCHANGED <<wait, due>> \/ Leaves(c),
         \A q \in Queue : \A x \in Members(k'.list[q]) :
           x \in Members(k.list[q]) /\ k'.timer[x] = k.timer[x]
  PROVE  RetryInv'
<1>1. /\ WaitOK /\ due = [t \in Thread |-> due[t]] /\ pc = [x \in Thread |-> pc[x]]
      /\ wait = [t \in Thread |-> wait[t]]
  BY DEF RetryInv, Punctual, WaitOK, CallInv, IpcInv, IInv, StateOK
<1>2. pc'[c].at = l /\ \A x \in Thread \ {c} : pc'[x] = pc[x]
  BY <1>1 DEF At
<1>3. WaitOK'
  BY <1>1, WaitKept
<1>4. due' = [t \in Thread |-> due'[t]]
  BY <1>1 DEF Leaves
<1>5. \A x \in Thread \ {c} : wait'[x] = wait[x] /\ due'[x] = due[x]
  BY <1>1 DEF Leaves
<1>6. \A t \in Thread : pc'[t].at \in WaitLabels =>
        pc[t].at \in WaitLabels /\ wait'[t] = wait[t] /\ due'[t] = due[t]
  BY <1>2, <1>5
<1> QED BY <1>3, <1>4, <1>6, RetryKept

\* It leaves the kernel alone.
LEMMA AsideSame ==
  ASSUME RetryInv, NEW c \in Thread, Runs(c), NEW l, NEW a, Goes(c, l, a),
         l \notin WaitLabels, pc' = [pc EXCEPT ![c] = At(l, a)], UNCHANGED <<k, isr>>,
         UNCHANGED <<wait, due>> \/ Leaves(c)
  PROVE  RetryInv'
<1>1. CallInv /\ IpcInv /\ Receivers \in Queue
  BY ChannelAssumption DEF RetryInv, CallInv
<1>2. IpcInv'
  BY <1>1, SameIpcInv DEF Runs, Goes
<1>3. Attached'
  BY <1>1, CallAttached DEF Goes
<1>4. \A q \in Queue : \A x \in Members(k'.list[q]) :
        x \in Members(k.list[q]) /\ k'.timer[x] = k.timer[x]
  OBVIOUS
<1> QED BY <1>2, <1>3, <1>4, AsideInv DEF CallInv

\* It resumes waiters.
LEMMA AsideResumes ==
  ASSUME RetryInv, NEW c \in Thread, Runs(c), NEW l, NEW a, Goes(c, l, a),
         l \notin WaitLabels, pc' = [pc EXCEPT ![c] = At(l, a)], UNCHANGED isr,
         UNCHANGED <<wait, due>> \/ Leaves(c), NEW X \in SUBSET Waiters(k),
         Core(k', {}), CurrentOK(k'), Resumed(k, k', X)
  PROVE  RetryInv'
<1>1. CallInv /\ IpcInv
  BY DEF RetryInv, CallInv
<1>2. IpcInv'
  BY <1>1, WaitersResumedIpcInv DEF Runs, Goes
<1>3. Attached'
  BY <1>1, CallAttached DEF Goes
<1>4. \A q \in Queue : \A x \in Members(k'.list[q]) :
        x \in Members(k.list[q]) /\ k'.timer[x] = k.timer[x]
  BY ResumedOnTime
<1> QED BY <1>2, <1>3, <1>4, AsideInv DEF CallInv

\* It resumes the first waiter of a list, if there is one.
LEMMA AsideWakes ==
  ASSUME RetryInv, NEW c \in Thread, Runs(c), NEW l, NEW a, Goes(c, l, a),
         l \notin WaitLabels, pc' = [pc EXCEPT ![c] = At(l, a)], UNCHANGED isr,
         UNCHANGED <<wait, due>> \/ Leaves(c),
         NEW q \in Queue, k' = WakeFirst(k, q)
  PROVE  RetryInv'
<1>1. IpcInv
  BY DEF RetryInv, CallInv
<1>2. CASE k.list[q] # << >>
  <2> DEFINE t == Head(k.list[q])
             X == {t}
  <2>1. t = Head(k.list[q])
    OBVIOUS
  <2> HIDE DEF t
  <2>2. /\ Core(k', {}) /\ CurrentOK(k') /\ Resumed(k, k', X) /\ t \in Members(k.list[q])
    BY <1>1, <1>2, <2>1, FirstResumed
  <2>3. X \in SUBSET Waiters(k)
    BY <2>2 DEF Waiters
  <2> HIDE DEF X
  <2> QED BY <2>2, <2>3, AsideResumes
<1>3. CASE k.list[q] = << >>
  <2>1. k' = k
    BY <1>3 DEF WakeFirst
  <2> QED BY <2>1, AsideSame
<1> QED BY <1>2, <1>3

\* It sets its own error.
LEMMA AsideErrs ==
  ASSUME RetryInv, NEW c \in Thread, Runs(c), NEW l, NEW a, Goes(c, l, a),
         l \notin WaitLabels, pc' = [pc EXCEPT ![c] = At(l, a)], UNCHANGED isr,
         UNCHANGED <<wait, due>> \/ Leaves(c),
         NEW e \in Error, k' = [k EXCEPT !.err[c] = e]
  PROVE  RetryInv'
<1>1. CallInv /\ k \in KernelType
  BY DEF RetryInv, CallInv, IpcInv, IInv, Core
<1>2. CallInv'
  BY <1>1, ErrorCallInv
<1>3. k'.list = k.list /\ k'.timer = k.timer
  BY <1>1 DEF KernelType
<1>4. \A q \in Queue : \A x \in Members(k'.list[q]) :
        x \in Members(k.list[q]) /\ k'.timer[x] = k.timer[x]
  BY <1>3
<1> QED BY <1>2, <1>4, AsideInv

\* It calls rt_schedule.
LEMMA AsideSchedules ==
  ASSUME RetryInv, NEW c \in Thread, Runs(c), NEW l, NEW a, Goes(c, l, a),
         l \notin WaitLabels, pc' = [pc EXCEPT ![c] = At(l, a)], UNCHANGED isr,
         UNCHANGED <<wait, due>> \/ Leaves(c), k' = rt_schedule(k)
  PROVE  RetryInv'
<1>1. CallInv' /\ Moves(k, k')
  BY ScheduleCallInv DEF RetryInv
<1>2. \A q \in Queue : \A x \in Members(k'.list[q]) :
        x \in Members(k.list[q]) /\ k'.timer[x] = k.timer[x]
  BY <1>1, MovesOnTime
<1> QED BY <1>1, <1>2, AsideInv


\* A blocked caller calls rt_schedule.
LEMMA RetryBlockSchedule ==
  ASSUME RetryInv, NEW c \in Thread, BlockSchedule(c), UNCHANGED <<wait, due>>
  PROVE  RetryInv'
<1>1. /\ CallInv /\ IpcInv /\ WaitOK /\ Core(k, {}) /\ CurrentOK(k) /\ Attached
      /\ pc = [x \in Thread |-> pc[x]] /\ due = [t \in Thread |-> due[t]]
  BY DEF RetryInv, CallInv, IpcInv, IInv, StateOK, Punctual
<1>2. /\ pc[c].at = "ipc_sched" /\ k' = rt_schedule(k)
      /\ pc' = [pc EXCEPT ![c] = At("ipc_end", pc[c].arg)]
  BY DEF BlockSchedule, Executes, Goto
<1>3. "ipc_sched" \notin Label /\ pc[c].at \in WaitLabels
  BY <1>2 DEF Label, WaitLabels
<1>4. CallInv'
  <2>1. IpcInv'
    BY <1>1, BlockScheduleIpcInv
  <2>2. pc[c].arg \in Queue
    BY <1>1, <1>2, <1>3 DEF Attached
  <2> QED BY <1>1, <1>2, <2>1, <2>2, CallAttached DEF CallInv
<1>5. Moves(k, k')
  BY <1>1, <1>2, ScheduleCore
<1>6. \A q \in Queue : \A x \in Members(k'.list[q]) :
        x \in Members(k.list[q]) /\ k'.timer[x] = k.timer[x]
  BY <1>5, MovesOnTime
<1>7. \A x \in Thread : pc'[x].at \in WaitLabels => pc[x].at \in WaitLabels
  BY <1>1, <1>2, <1>3 DEF At
<1>8. WaitOK'
  BY <1>1, WaitKept
<1>9. due' = [t \in Thread |-> due'[t]]
  BY <1>1
<1> QED BY <1>4, <1>6, <1>7, <1>8, <1>9, RetryKept

\* All of the time is left when a wait begins.
LEMMA RemainingAtFirst ==
  ASSUME NEW time \in Nat \cup {-1}
  PROVE  Remaining([timeout |-> time, spent |-> 0]) = time
<1> DEFINE w == [timeout |-> time, spent |-> 0]
<1>1. w.timeout = time /\ w.spent = 0 /\ time - 0 = time
  OBVIOUS
<1> HIDE DEF w
<1>2. Remaining(w) = time
  BY <1>1 DEF Remaining
<1> QED BY <1>2 DEF w

\* The caller waits: for the time it was called with, or for what is left of it.
LEMMA RetryWaits ==
  ASSUME RetryInv, NEW c \in Thread, Runs(c), NEW q \in Queue,
         NEW time \in Nat \cup {-1}, time # 0, Waits(c, q, time), UNCHANGED isr,
         pc[c].at = "run" \/ (pc[c].at \in WaitLabels /\ time = Remaining(wait[c]))
  PROVE  RetryInv'
<1>1. /\ CallInv /\ IpcInv /\ WaitOK /\ Core(k, {}) /\ CurrentOK(k) /\ Punctual
      /\ pc = [x \in Thread |-> pc[x]] /\ due = [t \in Thread |-> due[t]]
      /\ wait = [t \in Thread |-> wait[t]]
  BY DEF RetryInv, CallInv, IpcInv, IInv, StateOK, Punctual, WaitOK
<1>2. /\ k' = Block(k, q, c, time) /\ pc' = [pc EXCEPT ![c] = At("ipc_sched", q)]
      /\ wait' = [wait EXCEPT ![c] = [timeout |-> time, spent |-> 0]]
      /\ due' = [due EXCEPT ![c] = IF pc[c].at = "run" THEN time ELSE due[c]]
  BY DEF Waits, Goto
<1>3. c = k.current /\ k.stat[c] = "RUNNING" /\ c # Idle
  BY DEF Runs
<1>4. Core(k', {}) /\ CurrentOK(k') /\ Blocks(k, k', q, c) /\ k'.timer[c] = time
  BY <1>1, <1>2, <1>3, BlockCore, BlockTimer
<1>5. IpcInv'
  BY <1>1, <1>2, <1>3, <1>4, BlockIpcInv
<1>6. CallInv'
  BY <1>1, <1>2, <1>5, CallAttached DEF CallInv
<1>7. WaitOK'
  BY <1>1, <1>2, WaitKept
<1>8. /\ \A x \in Thread \ {c} :
           pc'[x] = pc[x] /\ wait'[x] = wait[x] /\ due'[x] = due[x]
      /\ wait'[c] = [timeout |-> time, spent |-> 0]
      /\ due'[c] = IF pc[c].at = "run" THEN time ELSE due[c]
      /\ due' = [t \in Thread |-> due'[t]]
  BY <1>1, <1>2
<1>9. due'[c] = time
  <2>1. "run" \notin WaitLabels
    BY DEF WaitLabels
  <2> QED BY <1>1, <1>8, <2>1 DEF Punctual
<1>10. Remaining(wait'[c]) = time
  BY <1>8, RemainingAtFirst
<1>11. \A t \in Thread : pc'[t].at \in WaitLabels => due'[t] = Remaining(wait'[t])
  BY <1>1, <1>8, <1>9, <1>10 DEF Punctual
<1>12. ASSUME NEW r \in Queue, NEW x \in Members(k'.list[r]) PROVE k'.timer[x] = due'[x]
  <2>1. x \in Thread
    BY <1>4, MembersAre
  <2>2. CASE x = c
    BY <1>4, <1>9, <2>2
  <2>3. CASE x # c
    <3>1. x \in Members(k.list[r]) /\ k'.timer[x] = k.timer[x]
      BY <1>4, <2>1, <2>3 DEF Blocks, Stands
    <3> QED BY <1>1, <1>8, <2>1, <2>3, <3>1 DEF Punctual
  <2> QED BY <2>2, <2>3
<1> QED BY <1>6, <1>7, <1>8, <1>11, <1>12 DEF RetryInv, Punctual

\* An interrupt handler resumes the first waiter of a list, if there is one.
LEMMA RetryIsr ==
  ASSUME RetryInv, NEW q \in Queue, UNCHANGED <<isr, pc, wait, due>>,
         k' = IF k.list[q] # << >> THEN rt_schedule(WakeFirst(k, q)) ELSE k
  PROVE  RetryInv'
<1>1. /\ IpcInv /\ Attached /\ WaitOK /\ due = [t \in Thread |-> due[t]]
  BY DEF RetryInv, CallInv, Punctual
<1>2. /\ IpcInv' /\ \A r \in Queue : \A x \in Members(k'.list[r]) :
           x \in Members(k.list[r]) /\ k'.timer[x] = k.timer[x]
  <2>1. CASE k.list[q] # << >>
    <3> DEFINE t == Head(k.list[q])
               u == WakeFirst(k, q)
               X == {t}
    <3>1. t = Head(k.list[q]) /\ k' = rt_schedule(u)
      BY <2>1
    <3> HIDE DEF t
    <3>2. Core(u, {}) /\ CurrentOK(u) /\ Resumed(k, u, X) /\ t \in Members(k.list[q])
      BY <1>1, <2>1, <3>1, FirstResumed
    <3>3. X \in SUBSET Members(k.list[q])
      BY <3>2
    <3> HIDE DEF X, u
    <3>4. IpcInv' /\ Moves(u, k')
      BY <1>1, <3>1, <3>2, <3>3, IsrIpcInv, ScheduleCore
    <3>5. \A r \in Queue : \A x \in Members(u.list[r]) :
            x \in Members(k.list[r]) /\ u.timer[x] = k.timer[x]
      BY <3>2, ResumedOnTime
    <3>6. \A r \in Queue : \A x \in Members(k'.list[r]) :
            x \in Members(u.list[r]) /\ k'.timer[x] = u.timer[x]
      BY <3>4, MovesOnTime
    <3> QED BY <3>4, <3>5, <3>6
  <2>2. CASE k.list[q] = << >>
    <3>1. k' = k
      BY <2>2
    <3> QED BY <1>1, <3>1, UnchangedIpcInv
  <2> QED BY <2>1, <2>2
<1>3. CallInv' /\ WaitOK'
  BY <1>1, <1>2 DEF CallInv, Attached, WaitOK
<1>4. due' = [t \in Thread |-> due'[t]]
  BY <1>1
<1> QED BY <1>2, <1>3, <1>4, RetryKept

\* A step that changes none of the variables the invariant is about.
LEMMA RetryUnchanged ==
  ASSUME RetryInv, UNCHANGED <<k, isr, pc, wait, due>>
  PROVE  RetryInv'
<1>1. IpcInv'
  BY UnchangedIpcInv DEF RetryInv, CallInv
<1>2. CallInv' /\ WaitOK' /\ due' = [t \in Thread |-> due'[t]]
  BY <1>1 DEF CallInv, Attached, WaitOK, RetryInv, Punctual
<1> QED BY <1>2, RetryKept


\* A thread that detaches resumes a waiter with an error.
LEMMA RetryResumesNext ==
  ASSUME RetryInv, NEW c \in Thread, ResumeAllNext(c), UNCHANGED <<wait, due>>
  PROVE  RetryInv'
<1> DEFINE q == pc[c].arg
           t == Head(k.list[q])
           X == {t}
<1>1. /\ Executes(c, "ipc_next") /\ k.list[q] # << >> /\ UNCHANGED isr
      /\ k' = ResumeWithError(k, q) /\ pc' = [pc EXCEPT ![c] = At("ipc_test", q)]
  BY DEF ResumeAllNext, Goto
<1>2. CallInv /\ Core(k, {}) /\ CurrentOK(k)
  BY DEF RetryInv, CallInv, IpcInv, IInv
<1>3. Runs(c) /\ q \in Queue
  BY <1>1, <1>2, CallExecutes DEF Label, Runs
<1>4. Goes(c, "ipc_test", q) /\ "ipc_test" \notin WaitLabels
  BY <1>3 DEF Goes, LabelOK, RacyLabels, HoldLabels, Label, Runs, WaitLabels
<1>5. Core(k', {}) /\ CurrentOK(k') /\ Resumed(k, k', X)
  BY <1>1, <1>2, <1>3, ResumeErrorCore
<1>6. X \in SUBSET Waiters(k)
  BY <1>1, <1>2, <1>3, HeadIs DEF Waiters
<1> HIDE DEF X, q
<1> QED BY <1>1, <1>3, <1>4, <1>5, <1>6, AsideResumes

\* It tests a list, and goes on to the next one or returns.
LEMMA RetryTests ==
  ASSUME RetryInv, NEW c \in Thread, ResumeBothTest(c)
  PROVE  RetryInv'
<1>1. UNCHANGED <<k, isr, wait, due>> /\ Executes(c, "ipc_test") /\ Senders \in Queue
  BY ChannelAssumption DEF ResumeBothTest, ReceiversResumed, ResumeAllTest
<1>2. Runs(c) /\ pc[c].arg \in Queue
  BY <1>1, CallExecutes DEF Label, Runs, RetryInv
<1>3. PICK l \in {"run", "ipc_test", "ipc_next"}, a \in Queue \cup {c} :
        /\ pc' = [pc EXCEPT ![c] = At(l, a)]
        /\ IF l = "run" THEN a = c ELSE a \in Queue
  BY <1>1, <1>2 DEF ResumeBothTest, ReceiversResumed, ResumeAllTest, Return, Goto
<1>4. Goes(c, l, a) /\ l \notin WaitLabels
  BY <1>2, <1>3 DEF Goes, LabelOK, RacyLabels, HoldLabels, Label, Runs, WaitLabels
<1> QED BY <1>1, <1>2, <1>3, <1>4, AsideSame

\* The steps of a blocked caller and of a thread that detaches.
LEMMA RetryContinue ==
  ASSUME RetryInv, NEW c \in Thread, ChannelContinue(c)
  PROVE  RetryInv'
<1>1. CASE RetryFails(c)
  <2>1. /\ Executes(c, "ipc_end") /\ UNCHANGED <<k, isr>> /\ Leaves(c)
        /\ pc' = [pc EXCEPT ![c] = At("run", c)]
    BY <1>1 DEF RetryFails, Return, Goto
  <2>2. Runs(c)
    BY <2>1, CallExecutes DEF Label, Runs, RetryInv
  <2>3. Goes(c, "run", c) /\ "run" \notin WaitLabels
    BY <2>2, ReturnGoes
  <2> QED BY <2>1, <2>2, <2>3, AsideSame
<1> QED BY <1>1, RetryBlockSchedule, RetryResumesNext, RetryTests DEF ChannelContinue

\* The call that detaches begins, or the object is initialized again.
LEMMA RetryManages ==
  ASSUME Polite, RetryInv, NEW c \in Thread, DetachBoth(c) \/ InitializeBoth(c)
  PROVE  RetryInv'
<1>1. CASE DetachBoth(c)
  <2>1. /\ Asks(c, "detach", Receivers) /\ UNCHANGED <<k, isr, wait, due>>
        /\ pc' = [pc EXCEPT ![c] = At("ipc_test", Receivers)] /\ Receivers \in Queue
    BY <1>1, ChannelAssumption DEF DetachBoth, Goto
  <2>2. Runs(c)
    BY <2>1, AsksFacts DEF Runs, RetryInv, CallInv
  <2>3. Goes(c, "ipc_test", Receivers) /\ "ipc_test" \notin WaitLabels
    BY <2>1, <2>2 DEF Goes, LabelOK, RacyLabels, HoldLabels, Label, Runs, WaitLabels
  <2> QED BY <2>1, <2>2, <2>3, AsideSame
<1>2. CASE InitializeBoth(c)
  BY <1>2, RetryUnchanged DEF InitializeBoth
<1> QED BY <1>1, <1>2

\* The reset command empties both lists.
LEMMA RetryResets ==
  ASSUME Polite, RetryInv, NEW c \in Thread, NEW b, Asks(c, b, Receivers),
         k' = ResumeBoth(k), Goto(c, "sched", c), UNCHANGED <<isr, wait, due>>
  PROVE  RetryInv'
<1>1. /\ IpcInv /\ Core(k, {}) /\ CurrentOK(k) /\ Receivers \in Queue /\ Senders \in Queue
      /\ pc' = [pc EXCEPT ![c] = At("sched", c)]
  BY ChannelAssumption DEF RetryInv, CallInv, IpcInv, IInv, Goto
<1>2. Runs(c)
  BY <1>1, AsksFacts DEF Runs
<1> DEFINE u == rt_ipc_list_resume_all(k, Receivers)
           X == Members(k.list[Receivers])
           Y == Members(u.list[Senders])
           Z == X \cup Y
<1>3. Core(u, {}) /\ CurrentOK(u) /\ Resumed(k, u, X)
  BY <1>1, ResumeAllCore
<1>4. k' = rt_ipc_list_resume_all(u, Senders)
  BY DEF ResumeBoth
<1> HIDE DEF u
<1>5. Core(k', {}) /\ CurrentOK(k') /\ Resumed(u, k', Y)
  BY <1>1, <1>3, <1>4, ResumeAllCore
<1>6. X \in SUBSET Thread
  BY <1>1, MembersAre
<1>7. Z \in SUBSET Waiters(k)
  <2>1. Y \subseteq Members(k.list[Senders])
    BY <1>1, <1>3 DEF Resumed
  <2> QED BY <1>1, <2>1 DEF Waiters
<1> HIDE DEF X, Y
<1>8. Resumed(k, k', Z)
  BY <1>3, <1>5, <1>6, ResumedTwice
<1>9. Goes(c, "sched", c) /\ "sched" \notin WaitLabels
  BY <1>2, ReturnGoes
<1> HIDE DEF Z
<1> QED BY <1>1, <1>2, <1>5, <1>7, <1>8, <1>9, AsideResumes

\* A call begins.
LEMMA RetryAsks ==
  ASSUME Polite, RetryInv, NEW c \in Thread, NEW b, Asks(c, b, Receivers)
  PROVE  Runs(c) /\ pc[c].at = "run"
<1>1. IpcInv
  BY DEF RetryInv, CallInv
<1> QED BY <1>1, AsksFacts DEF Runs, Asks, Executes

\* A caller that has been resumed looks again.
LEMMA RetryAgain ==
  ASSUME RetryInv, NEW c \in Thread, NEW q, Again(c, q)
  PROVE  /\ Runs(c) /\ pc[c].at \in WaitLabels
         /\ Remaining(wait[c]) \in Nat \cup {-1}
<1>1. Executes(c, "ipc_end") /\ pc[c].at = "ipc_end" /\ CallInv
  BY DEF Again, Executes, RetryInv
<1>2. wait[c] \in [timeout : Nat \cup {-1}, spent : Nat]
  BY DEF RetryInv, WaitOK
<1> QED BY <1>1, <1>2, CallExecutes, WaitTimes DEF Runs, Label, WaitLabels


-----------------------------------------------------------------------------
\* A round of a waiting loop of c, which may wait for some time: the first one,
\* or a later one.
Round(c, time) ==
  /\ Runs(c) /\ time \in Nat \cup {-1}
  /\ pc[c].at = "run" \/ (pc[c].at \in WaitLabels /\ time = Remaining(wait[c]))

\* The caller gives up, and may set its error.
LEMMA RetryGivesUp ==
  ASSUME RetryInv, NEW c \in Thread, Runs(c), Return(c), Leaves(c), UNCHANGED isr,
         k' = k \/ k' = [k EXCEPT !.err[c] = "ETIMEOUT"]
  PROVE  RetryInv'
<1>1. pc' = [pc EXCEPT ![c] = At("run", c)]
  BY DEF Return, Goto
<1>2. Goes(c, "run", c) /\ "run" \notin WaitLabels
  BY ReturnGoes
<1>3. CASE k' = k
  BY <1>1, <1>2, <1>3, AsideSame
<1>4. CASE k' = [k EXCEPT !.err[c] = "ETIMEOUT"]
  <2>1. "ETIMEOUT" \in Error
    BY DEF Error
  <2> QED BY <1>1, <1>2, <1>4, <2>1, AsideErrs
<1> QED BY <1>3, <1>4

\* The caller has got what it wanted and resumes a thread at the other end.
LEMMA RetryCompletes ==
  ASSUME RetryInv, NEW c \in Thread, Runs(c), NEW q \in Queue, k' = WakeFirst(k, q),
         Completes(c, q), UNCHANGED isr
  PROVE  RetryInv'
<1>1. PICK l \in {"run", "sched"} : pc' = [pc EXCEPT ![c] = At(l, c)]
  BY DEF Completes, Return, Goto
<1>2. Goes(c, l, c) /\ l \notin WaitLabels
  BY <1>1, ReturnGoes
<1>3. Leaves(c)
  BY DEF Completes
<1> QED BY <1>1, <1>2, <1>3, AsideWakes

\* The labels of the mailbox and the message queue, outside waiting loops.
LEMMA GoesOn ==
  ASSUME NEW c \in Thread, Runs(c),
         NEW l \in {"mb_sched", "mb_return", "mq_send", "mq_urgent", "mq_free"}
  PROVE  Goes(c, l, Senders) /\ l \notin WaitLabels
BY ChannelAssumption DEF Goes, LabelOK, RacyLabels, HoldLabels, Label, Runs, WaitLabels

\* The mailbox.
LEMMA MbRounds ==
  ASSUME RetryInv, NEW c \in Thread, NEW time, Round(c, time),
         (\E v : SendLoop(c, v, time)) \/ RecvLoop(c, time)
  PROVE  RetryInv'
<1>1. /\ Runs(c) /\ time \in Nat \cup {-1} /\ Receivers \in Queue /\ Senders \in Queue
      /\ pc[c].at = "run" \/ (pc[c].at \in WaitLabels /\ time = Remaining(wait[c]))
  BY ChannelAssumption DEF Round
<1>2. ASSUME NEW v, SendLoop(c, v, time) PROVE RetryInv'
  <2>1. UNCHANGED isr
    BY <1>2 DEF SendLoop
  <2>2. CASE Deposit(c, v)
    BY <1>1, <2>1, <2>2, RetryCompletes DEF Deposit
  <2>3. CASE Return(c) /\ Leaves(c) /\ UNCHANGED k
    BY <1>1, <2>1, <2>3, RetryGivesUp
  <2>4. CASE time # 0 /\ Waits(c, Senders, time)
    BY <1>1, <2>1, <2>4, RetryWaits
  <2> QED BY <1>2, <2>2, <2>3, <2>4 DEF SendLoop
<1>3. CASE RecvLoop(c, time)
  <2>1. UNCHANGED isr
    BY <1>3 DEF RecvLoop
  <2>2. CASE Withdraw(c)
    <3>1. PICK l \in {"mb_sched", "mb_return"} : pc' = [pc EXCEPT ![c] = At(l, Senders)]
      BY <2>2 DEF Withdraw, Goto
    <3>2. Goes(c, l, Senders) /\ l \notin WaitLabels
      BY <1>1, GoesOn
    <3>3. Leaves(c) /\ k' = WakeFirst(k, Senders)
      BY <2>2 DEF Withdraw
    <3> QED BY <1>1, <2>1, <3>1, <3>2, <3>3, AsideWakes
  <2>3. CASE /\ Return(c) /\ Leaves(c)
             /\ k' = IF pc[c].at = "run" THEN k ELSE [k EXCEPT !.err[c] = "ETIMEOUT"]
    BY <1>1, <2>1, <2>3, RetryGivesUp
  <2>4. CASE time # 0 /\ Waits(c, Receivers, time)
    BY <1>1, <2>1, <2>4, RetryWaits
  <2> QED BY <1>3, <2>2, <2>3, <2>4 DEF RecvLoop
<1> QED BY <1>2, <1>3

\* Every step of the mailbox keeps the invariant.
LEMMA MbRetryInv ==
  ASSUME Polite
  PROVE  RetryInv /\ [MbNext]_mbVars => RetryInv'
<1> SUFFICES ASSUME RetryInv, [MbNext]_mbVars PROVE RetryInv'
  OBVIOUS
<1>1. CASE UNCHANGED mbVars
  <2>1. UNCHANGED <<k, isr, pc, wait, due>>
    BY <1>1 DEF mbVars, retryVars, ipcVars
  <2> QED BY <2>1, RetryUnchanged
<1>2. CASE KernelStep
  BY <1>2, RetryKernelInv
<1>3. ASSUME NEW c \in Thread, ChannelContinue(c) PROVE RetryInv'
  BY <1>3, RetryContinue
<1>4. ASSUME NEW c \in Thread, SendAgain(c) PROVE RetryInv'
  <2>1. Again(c, Senders) /\ SendLoop(c, mail[c], Remaining(wait[c]))
    BY <1>4 DEF SendAgain
  <2>2. Round(c, Remaining(wait[c]))
    BY <2>1, RetryAgain DEF Round
  <2> QED BY <2>1, <2>2, MbRounds
<1>5. ASSUME NEW c \in Thread, RecvAgain(c) PROVE RetryInv'
  <2>1. Again(c, Receivers) /\ RecvLoop(c, Remaining(wait[c]))
    BY <1>5 DEF RecvAgain
  <2>2. Round(c, Remaining(wait[c]))
    BY <2>1, RetryAgain DEF Round
  <2> QED BY <2>1, <2>2, MbRounds
<1>6. ASSUME NEW c \in Thread, NEW v \in Mail, NEW time \in WaitTime,
             rt_mb_send_wait(c, v, time)
      PROVE  RetryInv'
  <2>1. Asks(c, "send", Receivers) /\ SendLoop(c, v, time) /\ time \in Nat \cup {-1}
    BY <1>6, IpcAssumption DEF rt_mb_send_wait
  <2>2. Round(c, time)
    BY <2>1, RetryAsks DEF Round
  <2> QED BY <2>1, <2>2, MbRounds
<1>7. ASSUME NEW c \in Thread, NEW time \in WaitTime, rt_mb_recv(c, time) PROVE RetryInv'
  <2>1. Asks(c, "recv", Receivers) /\ RecvLoop(c, time) /\ time \in Nat \cup {-1}
    BY <1>7, IpcAssumption DEF rt_mb_recv
  <2>2. Round(c, time)
    BY <2>1, RetryAsks DEF Round
  <2> QED BY <2>1, <2>2, MbRounds
<1>8. ASSUME NEW c \in Thread, RecvSchedule(c) \/ RecvReturn(c) PROVE RetryInv'
  <2>1. CallInv /\ UNCHANGED <<isr, wait, due>>
    BY <1>8 DEF RetryInv, RecvSchedule, RecvReturn
  <2>2. CASE RecvSchedule(c)
    <3>1. /\ Executes(c, "mb_sched") /\ k' = rt_schedule(k)
          /\ pc' = [pc EXCEPT ![c] = At("mb_return", Senders)]
      BY <2>2 DEF RecvSchedule, Goto
    <3>2. Runs(c)
      BY <2>1, <3>1, CallExecutes DEF Label, Runs
    <3>3. Goes(c, "mb_return", Senders) /\ "mb_return" \notin WaitLabels
      BY <3>2, GoesOn
    <3> QED BY <2>1, <3>1, <3>2, <3>3, AsideSchedules
  <2>3. CASE RecvReturn(c)
    <3>1. /\ Executes(c, "mb_return") /\ UNCHANGED k
          /\ pc' = [pc EXCEPT ![c] = At("run", c)]
      BY <2>3 DEF RecvReturn, Return, Goto
    <3>2. Runs(c)
      BY <2>1, <3>1, CallExecutes DEF Label, Runs
    <3>3. Goes(c, "run", c) /\ "run" \notin WaitLabels
      BY <3>2, ReturnGoes
    <3> QED BY <2>1, <3>1, <3>2, <3>3, AsideSame
  <2> QED BY <1>8, <2>2, <2>3
<1>9. ASSUME NEW c \in Thread, rt_mb_control(c) PROVE RetryInv'
  BY <1>9, RetryResets DEF rt_mb_control
<1>10. ASSUME NEW c \in Thread, rt_mb_detach(c) \/ rt_mb_init(c) PROVE RetryInv'
  BY <1>10, RetryManages DEF rt_mb_detach, rt_mb_init
<1>11. ASSUME NEW v \in Mail, IsrMbSend(v) PROVE RetryInv'
  BY <1>11, RetryIsr, ChannelAssumption DEF IsrMbSend
<1> QED BY <1>1, <1>2, <1>3, <1>4, <1>5, <1>6, <1>7, <1>8, <1>9, <1>10, <1>11 DEF MbNext

(***************************************************************************)
(* A thread that waits to send a mail or to receive one has its timer set  *)
(* to the deadline it asked for in its call, the first time it waits and   *)
(* every time it waits again.                                              *)
(***************************************************************************)
THEOREM MailTimesOutOnTime ==
  ASSUME Polite, IsFiniteSet(Thread)
  PROVE  MbSpec => []TimesOutOnTime
<1>1. MbInit => RetryInv
  BY RetryInitInv DEF MbInit
<1> QED BY <1>1, MbRetryInv, RetryOnTime, PTL DEF MbSpec


\* The message queue.
LEMMA MqRounds ==
  ASSUME RetryInv, NEW c \in Thread, NEW time, Round(c, time),
         (\E v : SendSlot(c, v, time)) \/ RecvSlot(c, time)
  PROVE  RetryInv'
<1>1. /\ Runs(c) /\ time \in Nat \cup {-1} /\ Receivers \in Queue /\ Senders \in Queue
      /\ pc[c].at = "run" \/ (pc[c].at \in WaitLabels /\ time = Remaining(wait[c]))
  BY ChannelAssumption DEF Round
<1>2. ASSUME NEW v, SendSlot(c, v, time) PROVE RetryInv'
  <2>1. UNCHANGED isr
    BY <1>2 DEF SendSlot
  <2>2. CASE TakeSlot(c, v, "mq_send")
    <3>1. pc' = [pc EXCEPT ![c] = At("mq_send", Senders)] /\ Leaves(c) /\ UNCHANGED k
      BY <2>2 DEF TakeSlot, Goto
    <3>2. Goes(c, "mq_send", Senders) /\ "mq_send" \notin WaitLabels
      BY <1>1, GoesOn
    <3> QED BY <1>1, <2>1, <3>1, <3>2, AsideSame
  <2>3. CASE Return(c) /\ Leaves(c) /\ UNCHANGED k
    BY <1>1, <2>1, <2>3, RetryGivesUp
  <2>4. CASE time # 0 /\ Waits(c, Senders, time)
    BY <1>1, <2>1, <2>4, RetryWaits
  <2> QED BY <1>2, <2>2, <2>3, <2>4 DEF SendSlot
<1>3. CASE RecvSlot(c, time)
  <2>1. UNCHANGED isr
    BY <1>3 DEF RecvSlot
  <2>2. CASE Goto(c, "mq_free", Senders) /\ Leaves(c) /\ UNCHANGED k
    <3>1. pc' = [pc EXCEPT ![c] = At("mq_free", Senders)]
      BY <2>2 DEF Goto
    <3>2. Goes(c, "mq_free", Senders) /\ "mq_free" \notin WaitLabels
      BY <1>1, GoesOn
    <3> QED BY <1>1, <2>1, <2>2, <3>1, <3>2, AsideSame
  <2>3. CASE /\ Return(c) /\ Leaves(c)
             /\ k' = IF pc[c].at = "run" THEN k ELSE [k EXCEPT !.err[c] = "ETIMEOUT"]
    BY <1>1, <2>1, <2>3, RetryGivesUp
  <2>4. CASE time # 0 /\ Waits(c, Receivers, time)
    BY <1>1, <2>1, <2>4, RetryWaits
  <2> QED BY <1>3, <2>2, <2>3, <2>4 DEF RecvSlot
<1> QED BY <1>2, <1>3

\* Every step of the message queue keeps the invariant.
LEMMA MqRetryInv ==
  ASSUME Polite
  PROVE  RetryInv /\ [MqNext]_mqVars => RetryInv'
<1> SUFFICES ASSUME RetryInv, [MqNext]_mqVars PROVE RetryInv'
  OBVIOUS
<1>1. CASE UNCHANGED mqVars
  <2>1. UNCHANGED <<k, isr, pc, wait, due>>
    BY <1>1 DEF mqVars, retryVars, ipcVars
  <2> QED BY <2>1, RetryUnchanged
<1>2. CASE KernelStep
  BY <1>2, RetryKernelInv
<1>3. ASSUME NEW c \in Thread, ChannelContinue(c) PROVE RetryInv'
  BY <1>3, RetryContinue
<1>4. ASSUME NEW c \in Thread, MqSendAgain(c) PROVE RetryInv'
  <2>1. Again(c, Senders) /\ SendSlot(c, own[c].msg, Remaining(wait[c]))
    BY <1>4 DEF MqSendAgain
  <2>2. Round(c, Remaining(wait[c]))
    BY <2>1, RetryAgain DEF Round
  <2> QED BY <2>1, <2>2, MqRounds
<1>5. ASSUME NEW c \in Thread, MqRecvAgain(c) PROVE RetryInv'
  <2>1. Again(c, Receivers) /\ RecvSlot(c, Remaining(wait[c]))
    BY <1>5 DEF MqRecvAgain
  <2>2. Round(c, Remaining(wait[c]))
    BY <2>1, RetryAgain DEF Round
  <2> QED BY <2>1, <2>2, MqRounds
<1>6. ASSUME NEW c \in Thread, NEW v \in Msg, NEW time \in WaitTime,
             rt_mq_send_wait(c, v, time)
      PROVE  RetryInv'
  <2>1. Asks(c, "send", Receivers) /\ SendSlot(c, v, time) /\ time \in Nat \cup {-1}
    BY <1>6, IpcAssumption DEF rt_mq_send_wait
  <2>2. Round(c, time)
    BY <2>1, RetryAsks DEF Round
  <2> QED BY <2>1, <2>2, MqRounds
<1>7. ASSUME NEW c \in Thread, NEW time \in WaitTime, rt_mq_recv(c, time) PROVE RetryInv'
  <2>1. Asks(c, "recv", Receivers) /\ RecvSlot(c, time) /\ time \in Nat \cup {-1}
    BY <1>7, IpcAssumption DEF rt_mq_recv
  <2>2. Round(c, time)
    BY <2>1, RetryAsks DEF Round
  <2> QED BY <2>1, <2>2, MqRounds
<1>8. ASSUME NEW c \in Thread, NEW v \in Msg, rt_mq_urgent(c, v) PROVE RetryInv'
  <2>1. /\ Asks(c, "urgent", Receivers) /\ Leaves(c) /\ UNCHANGED <<k, isr>>
        /\ pc' = [pc EXCEPT ![c] = At("mq_urgent", Senders)]
    BY <1>8 DEF rt_mq_urgent, TakeSlot, Goto
  <2>2. Runs(c)
    BY <2>1, RetryAsks
  <2>3. Goes(c, "mq_urgent", Senders) /\ "mq_urgent" \notin WaitLabels
    BY <2>2, GoesOn
  <2> QED BY <2>1, <2>2, <2>3, AsideSame
<1>9. ASSUME NEW c \in Thread, LinkSlot(c) \/ FreeSlot(c) PROVE RetryInv'
  <2>1. PICK l \in {"mq_send", "mq_urgent", "mq_free"} : Executes(c, l)
    BY <1>9 DEF LinkSlot, FreeSlot
  <2>2. Runs(c)
    BY <2>1, CallExecutes DEF Label, Runs, RetryInv
  <2>3. PICK q \in BothLists : k' = WakeFirst(k, q) /\ Completes(c, q) /\ UNCHANGED isr
    BY <1>9 DEF LinkSlot, FreeSlot, BothLists
  <2>4. q \in Queue
    BY ChannelAssumption DEF BothLists
  <2> QED BY <2>2, <2>3, <2>4, RetryCompletes
<1>10. ASSUME NEW c \in Thread, rt_mq_control(c) PROVE RetryInv'
  BY <1>10, RetryResets DEF rt_mq_control
<1>11. ASSUME NEW c \in Thread, rt_mq_detach(c) \/ rt_mq_init(c) PROVE RetryInv'
  BY <1>11, RetryManages DEF rt_mq_detach, rt_mq_init
<1>12. ASSUME NEW v \in Msg, IsrMqSend(v) PROVE RetryInv'
  BY <1>12, RetryIsr, ChannelAssumption DEF IsrMqSend
<1> QED BY <1>1, <1>2, <1>3, <1>4, <1>5, <1>6, <1>7, <1>8, <1>9, <1>10, <1>11, <1>12
        DEF MqNext

(***************************************************************************)
(* The same for a thread that waits for a message or for a free slot of a  *)
(* message queue.                                                          *)
(***************************************************************************)
THEOREM MessageTimesOutOnTime ==
  ASSUME Polite, IsFiniteSet(Thread)
  PROVE  MqSpec => []TimesOutOnTime
<1>1. MqInit => RetryInv
  BY RetryInitInv DEF MqInit
<1> QED BY <1>1, MqRetryInv, RetryOnTime, PTL DEF MqSpec
=============================================================================
