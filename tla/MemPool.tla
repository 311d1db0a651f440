------------------------------ MODULE MemPool ------------------------------
(***************************************************************************)
(* The memory pool of mempool.c: equal blocks in a free list, and a list   *)
(* of threads that wait for one, the latest first.  A thread that has been *)
(* resumed computes what is left of its waiting time with interrupts       *)
(* enabled and then looks again.  Blocks are freed by any thread and by    *)
(* interrupt handlers.                                                     *)
(*                                                                         *)
(*   pool   block_list as the sequence of free blocks, block_free_count,   *)
(*          and the blocks the application has                             *)
(***************************************************************************)
EXTENDS Retry

CONSTANTS Pool,         \* the pool; also its suspend list
          NumBlocks     \* block_total_count

VARIABLE pool

poolVars == <<retryVars, pool>>

ASSUME PoolAssumption == Pool \in Queue /\ NumBlocks \in Nat \ {0}

BlockNo == 1 .. NumBlocks

AllFree == [free |-> [i \in BlockNo |-> i], count |-> NumBlocks, used |-> {}]

MpStart == pool = AllFree

MpInit == RetryInit /\ MpStart

-----------------------------------------------------------------------------
\* Mutant: the block is not taken off the list.
AllocatedStays ==
  [pool EXCEPT !.count = @ - 1, !.used = @ \cup {Head(pool.free)}]

\* The block at the front of the list is handed out.
Allocated ==
  [free |-> Tail(pool.free), count |-> pool.count - 1,
   used |-> pool.used \cup {Head(pool.free)}]

Freed(b) ==
  [free |-> <<b>> \o pool.free, count |-> pool.count + 1, used |-> pool.used \ {b}]

\* The critical section in which a caller blocks.
PoolBlock(c, time) ==
  LET u == rt_list_insert_after(
             rt_thread_suspend([k EXCEPT !.err[c] = "EOK"], c), Pool, c)
  IN  IF time > 0 THEN rt_timer_start(u, c, time) ELSE u

\* rt_mp_alloc from the point where interrupts are disabled.
AllocLoop(c, time) ==
  /\ \/ /\ pool.count # 0
        /\ pool' = Allocated
        /\ Return(c) /\ Leaves(c)
        /\ UNCHANGED k
     \/ /\ pool.count = 0 /\ time = 0
        /\ k' = [k EXCEPT !.err[c] = "ETIMEOUT"]
        /\ Return(c) /\ Leaves(c)
        /\ UNCHANGED pool
     \/ /\ pool.count = 0 /\ time # 0
        /\ k' = PoolBlock(c, time)
        /\ Goto(c, "ipc_sched", Pool)
        /\ wait' = [wait EXCEPT ![c] = [timeout |-> time, spent |-> 0]]
        /\ due' = [due EXCEPT ![c] = IF pc[c].at = "run" THEN time ELSE @]
        /\ UNCHANGED pool
  /\ UNCHANGED <<isr, obj>>

rt_mp_alloc(c, time) == Asks(c, "alloc", Pool) /\ AllocLoop(c, time)

\* The waiting time is recalculated before interrupts are disabled: ticks that
\* pass in between are not subtracted.
Recalculate(c) ==
  /\ Again(c, Pool)
  /\ Goto(c, "mp_again", Pool)
  /\ wait' = [wait EXCEPT ![c] = [timeout |-> Remaining(@), spent |-> 0]]
  /\ UNCHANGED <<k, isr, obj, due, pool>>

AllocAgain(c) == Executes(c, "mp_again") /\ AllocLoop(c, wait[c].timeout)

\* Mutant: only a pool that was empty resumes a waiter.
FreeResumesIfEmpty(kk) ==
  IF kk.list[Pool] # << >> /\ pool.count = 0
    THEN rt_thread_resume(kk, Head(kk.list[Pool])) ELSE kk

\* The critical section of rt_mp_free resumes the first waiter.
FreeResumes(kk) ==
  IF kk.list[Pool] # << >>
    THEN rt_thread_resume([kk EXCEPT !.err[Head(kk.list[Pool])] = "EOK"],
                          Head(kk.list[Pool]))
    ELSE kk

rt_mp_free(c, b) ==
  /\ Asks(c, "free", Pool)
  /\ b \in pool.used
  /\ pool' = Freed(b)
  /\ k' = FreeResumes(k)
  /\ IF k.list[Pool] # << >> THEN Goto(c, "sched", c) ELSE UNCHANGED pc
  /\ UNCHANGED <<isr, obj, wait, due>>

\* rt_mp_free in an interrupt handler.
IsrFree(b) ==
  /\ isr = "none" /\ <<"isr", "free">> \in Uses /\ obj[Pool] = "live"
  /\ b \in pool.used
  /\ pool' = Freed(b)
  /\ k' = IF k.list[Pool] # << >> THEN rt_schedule(FreeResumes(k)) ELSE k
  /\ UNCHANGED <<isr, pc, obj, wait, due>>

\* rt_mp_detach and rt_mp_delete; the application waits for callers that have
\* been resumed and have not looked yet.
rt_mp_detach(c) ==
  /\ Detach(c, Pool)
  /\ Granted(Pool) = {} /\ \A t \in Thread : pc[t].at # "mp_again"
  /\ UNCHANGED <<wait, due, pool>>

\* rt_mp_init and rt_mp_create.
rt_mp_init(c) == Initialize(c, Pool) /\ pool' = AllFree /\ UNCHANGED <<wait, due>>

-----------------------------------------------------------------------------
MpNext ==
  \/ KernelStep /\ UNCHANGED pool
  \/ \E c \in Thread :
       \/ /\ BlockSchedule(c) \/ ResumeAllTest(c) \/ ResumeAllNext(c)
          /\ UNCHANGED <<wait, due, pool>>
       \/ RetryFails(c) /\ UNCHANGED pool
       \/ Recalculate(c) \/ AllocAgain(c)
       \/ \E time \in WaitTime : rt_mp_alloc(c, time)
       \/ \E b \in BlockNo : rt_mp_free(c, b)
       \/ rt_mp_detach(c) \/ rt_mp_init(c)
  \/ \E b \in BlockNo : IsrFree(b)

MpSpec == MpInit /\ [][MpNext]_poolVars

-----------------------------------------------------------------------------
(***************************************************************************)
(* Every block is either free or with the application, never both and      *)
(* never twice in the list, and the count is the length of the list: a     *)
(* block is not handed out twice.                                          *)
(***************************************************************************)
BlocksConserved ==
  /\ pool.count = Len(pool.free)
  /\ IsInjective(pool.free)
  /\ Members(pool.free) = BlockNo \ pool.used

OnTheirWay == Granted(Pool) \cup {t \in Thread : pc[t].at = "mp_again"}

(***************************************************************************)
(* No free block goes unnoticed: threads wait only while every free block  *)
(* has a resumed thread on its way to it.                                  *)
(***************************************************************************)
BlockNotMissed ==
  k.list[Pool] # << >> => pool.count <= Cardinality(OnTheirWay)

=============================================================================
