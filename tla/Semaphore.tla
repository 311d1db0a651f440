----------------------------- MODULE Semaphore -----------------------------
(***************************************************************************)
(* The semaphore of ipc.c, used by started threads and by an interrupt     *)
(* handler that releases it, while the threads also sleep and the tick     *)
(* interrupt runs.  value is sem->value.                                   *)
(***************************************************************************)
EXTENDS Ipc

CONSTANTS Sem,         \* the semaphore
          InitValue,   \* the values a semaphore is initialized or reset to
          MaxValue     \* bound on the permits that accumulate

VARIABLE value

semVars == <<ipcVars, value>>

ASSUME SemaphoreAssumption ==
  /\ Sem \in Queue
  /\ InitValue \subseteq 0 .. 2^16 - 1

SemInit ==
  /\ InitStarted
  /\ value \in InitValue

-----------------------------------------------------------------------------
\* rt_sem_take; rt_sem_trytake is rt_sem_take with time 0.
rt_sem_take(c, time) ==
  /\ Asks(c, "take", Sem)
  /\ IF value > 0
       THEN value' = value - 1 /\ UNCHANGED <<k, pc>>
       ELSE /\ UNCHANGED value
            /\ IF time = 0
                 THEN UNCHANGED <<k, pc>>
                 ELSE k' = Block(k, Sem, c, time) /\ Goto(c, "ipc_sched", Sem)
  /\ UNCHANGED <<isr, obj>>

\* The critical section of rt_sem_release: the first waiter is resumed, or the
\* 16-bit count is incremented.
SemPut ==
  LET wakes == k.list[Sem] # << >>
  IN  [k |-> IF wakes THEN rt_ipc_list_resume(k, Sem) ELSE k,
       value |-> IF wakes THEN value
                          ELSE (value + 1) % 2^16,
       wakes |-> wakes]

rt_sem_release(c) ==
  /\ Asks(c, "release", Sem)
  /\ value < MaxValue
  /\ k' = SemPut.k
  /\ value' = SemPut.value
  /\ IF SemPut.wakes THEN Goto(c, "sched", c) ELSE UNCHANGED pc
  /\ UNCHANGED <<isr, obj>>

\* rt_sem_release in an interrupt handler: no thread runs before its call of
\* rt_schedule.
IsrRelease ==
  /\ isr = "none"
  /\ <<"isr", "release">> \in Uses
  /\ obj[Sem] = "live"
  /\ value < MaxValue
  /\ k' = IF SemPut.wakes THEN rt_schedule(SemPut.k) ELSE k
  /\ value' = SemPut.value
  /\ UNCHANGED <<isr, obj, pc>>

\* Mutant: the waiters stay.
SemResetKeepsWaiters(c, n) ==
  /\ Asks(c, "reset", Sem)
  /\ value' = n % 2^16
  /\ Goto(c, "sched", c)
  /\ UNCHANGED <<k, isr, obj>>

\* rt_sem_control with RT_IPC_CMD_RESET: interrupts stay disabled throughout.
rt_sem_control(c, n) ==
  /\ Asks(c, "reset", Sem)
  /\ k' = rt_ipc_list_resume_all(k, Sem)
  /\ value' = n % 2^16
  /\ Goto(c, "sched", c)
  /\ UNCHANGED <<isr, obj>>

\* rt_sem_detach and rt_sem_delete.
rt_sem_detach(c) == Detach(c, Sem) /\ UNCHANGED value

\* rt_sem_init and rt_sem_create.
rt_sem_init(c, n) == Initialize(c, Sem) /\ value' = n

-----------------------------------------------------------------------------
SemInvoke(c) ==
  \/ \E time \in WaitTime : rt_sem_take(c, time)
  \/ rt_sem_release(c)
  \/ \E n \in InitValue : rt_sem_control(c, n) \/ rt_sem_init(c, n)
  \/ rt_sem_detach(c)

SemNext ==
  \/ Next /\ UNCHANGED <<value, obj>>
  \/ \E c \in Thread : IpcContinue(c) /\ UNCHANGED value
  \/ \E c \in Thread : SemInvoke(c)
  \/ IsrRelease

SemSpec == SemInit /\ [][SemNext]_semVars

(***************************************************************************)
(* The tick keeps coming and its handler completes, and the CPU executes   *)
(* the function its current thread is in.  Nothing is assumed of           *)
(* application code, which may call nothing for ever, or of the interrupt  *)
(* that releases the semaphore.                                            *)
(***************************************************************************)
Execute ==
  \E c \in Thread :
    \/ Continue(c) /\ UNCHANGED <<value, obj>>
    \/ IpcContinue(c) /\ UNCHANGED value

SemFairSpec ==
  /\ SemSpec
  /\ WF_semVars(rt_tick_increase /\ UNCHANGED <<value, obj>>)
  /\ WF_semVars(TickIsr /\ UNCHANGED <<value, obj>>)
  /\ WF_semVars(Execute)

-----------------------------------------------------------------------------
\* The types of the variables; the count never goes below zero.
SemTypeOK == IpcTypeOK /\ value \in 0 .. 2^16 - 1

(***************************************************************************)
(* No lost wakeup: a thread waits on the semaphore only while there is no  *)
(* permit, and every thread in the suspend list is inside the call.        *)
(***************************************************************************)
NoLostWakeup ==
  /\ value > 0 => k.list[Sem] = << >>
  /\ Members(k.list[Sem]) \subseteq Inside(Sem)

(***************************************************************************)
(* Permits come from releases only.  A release is worth exactly one: it    *)
(* completes one waiting take, or it is there for the next one.  Timeouts, *)
(* detaching and returning calls make none.                                *)
(***************************************************************************)
Worth == value + Cardinality(Granted(Sem))

Releases == IsrRelease \/ \E c \in Thread : rt_sem_release(c)

Sets == \E c \in Thread, n \in InitValue : rt_sem_control(c, n) \/ rt_sem_init(c, n)

PermitsAreReleased ==
  [][/\ Releases => Worth' = Worth + 1
     /\ Worth' > Worth => Releases \/ Sets]_semVars

(***************************************************************************)
(* RT_IPC_FLAG_PRIO: when a permit is handed over, no thread that goes on  *)
(* waiting has a higher priority than the one that gets it.                *)
(***************************************************************************)
WakesHighest ==
  [][Flag[Sem] = "PRIO" =>
       \A t \in Granted(Sem)' \ Granted(Sem) : \A u \in Waiting(Sem)' :
         k.prio[t] <= k.prio[u]]_semVars

(***************************************************************************)
(* RT_IPC_FLAG_FIFO: a waiting thread is not overtaken for ever; if the    *)
(* interrupt keeps releasing, its call ends.                               *)
(***************************************************************************)
WaiterIsServed ==
  ([]<><<IsrRelease>>_semVars) =>
    \A t \in Thread : t \in Waiting(Sem) ~> t \notin Waiting(Sem)

\* The abstract state of each caller's rt_sem_take.
CallState ==
  [t \in Thread |-> CASE t \in Waiting(Sem) -> "waiting"
                      [] t \in Granted(Sem) -> "granted"
                      [] t \in Failed(Sem)  -> "failed"
                      [] OTHER -> "none"]

Abstract == INSTANCE SemaphoreSpec WITH
              Caller <- Thread, count <- value, call <- CallState

\* Every behaviour of the code's semaphore is one of SemaphoreSpec: no permit
\* is lost when a timeout, a release and a reset meet, and none is invented.
ImplementsSemaphore == Abstract!SSpec

=============================================================================
