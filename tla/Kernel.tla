------------------------------- MODULE Kernel -------------------------------
(***************************************************************************)
(* The kernel data that the scheduler, the thread API, the IPC objects and *)
(* the thread timers share, and the C functions that change it while       *)
(* interrupts are disabled (rt-thread/src/scheduler.c, thread.c, timer.c). *)
(* The build is the one rtconfig.h selects: one CPU, no signals, at most   *)
(* 32 priorities.                                                          *)
(*                                                                         *)
(* A kernel is a record k; a C function that runs with interrupts disabled *)
(* is an operator from kernels to kernels, so that one function calling    *)
(* another is composition.                                                 *)
(*                                                                         *)
(*   k.stat[t]    thread->stat & RT_THREAD_STAT_MASK; "NONE" is a thread   *)
(*                object that does not exist                               *)
(*   k.yld[t]     the RT_THREAD_STAT_YIELD bit of thread->stat             *)
(*   k.prio[t]    thread->current_priority                                 *)
(*   k.list[h]    the threads linked by tlist into the list with head h: a *)
(*                head is a priority (rt_thread_priority_table[p]), the    *)
(*                suspend list of an IPC object or rt_thread_defunct       *)
(*   k.group      the bits set in rt_thread_ready_priority_group           *)
(*   k.current    rt_current_thread                                        *)
(*   k.lock       rt_scheduler_lock_nest                                   *)
(*   k.slice[t]   thread->remaining_tick                                   *)
(*   k.timer[t]   ticks left on thread->thread_timer, Off if not activated *)
(*   k.err[t]     thread->error                                            *)
(***************************************************************************)
EXTENDS Integers, Sequences, SequencesExt

CONSTANTS Thread,          \* the thread objects
          Idle,            \* the idle thread
          PRIORITY_MAX,    \* RT_THREAD_PRIORITY_MAX
          Queue,           \* the suspend lists of IPC objects
          Defunct,         \* rt_thread_defunct
          InitPrio,        \* thread->init_priority
          InitTick         \* thread->init_tick, the time slice

Prio == 0 .. PRIORITY_MAX - 1

Head_ == Prio \cup Queue \cup {Defunct}

Off == -1

Stat == {"NONE", "INIT", "READY", "RUNNING", "SUSPEND", "CLOSE"}

Error == {"EOK", "ETIMEOUT", "ERROR"}

ASSUME ThreadAssumption ==
  /\ Idle \in Thread
  /\ InitPrio \in [Thread -> Prio]
  /\ InitTick \in [Thread -> Nat \ {0}]

ASSUME HeadAssumption ==
  /\ PRIORITY_MAX \in Nat \ {0}
  /\ Prio \cap Queue = {}
  /\ Defunct \notin Prio \cup Queue

Members(s) == {s[i] : i \in DOMAIN s}

(***************************************************************************)
(* The type of a kernel.                                                   *)
(***************************************************************************)
KernelType ==
  [stat    : [Thread -> Stat],
   yld     : [Thread -> BOOLEAN],
   prio    : [Thread -> Prio],
   list    : [Head_ -> Seq(Thread)],
   group   : SUBSET Prio,
   current : Thread,
   lock    : Nat,
   slice   : [Thread -> Nat],
   timer   : [Thread -> Nat \cup {Off}],
   err     : [Thread -> Error]]

-----------------------------------------------------------------------------
(***************************************************************************)
(* Lists (rtservice.h).  rt_list_remove unlinks a node from whichever list *)
(* it is in, and is harmless on a node that is in none.                    *)
(***************************************************************************)
Drop(s, t) ==
  IF t \in Members(s)
    THEN RemoveAt(s, CHOOSE i \in DOMAIN s : s[i] = t)
    ELSE s

rt_list_remove(k, t) ==
  [k EXCEPT !.list = [h \in Head_ |-> Drop(k.list[h], t)]]

rt_list_insert_before(k, h, t) == [k EXCEPT !.list[h] = Append(@, t)]

rt_list_insert_after(k, h, t) == [k EXCEPT !.list[h] = <<t>> \o @]

-----------------------------------------------------------------------------
(***************************************************************************)
(* scheduler.c                                                             *)
(***************************************************************************)
SetStat(k, t, s) == [k EXCEPT !.stat[t] = s]

\* The priority group is a bitmap; its lowest set bit is found by __rt_ffs.
Highest(k) == CHOOSE p \in k.group : \A q \in k.group : p <= q

get_highest_priority_thread(k) == Head(k.list[Highest(k)])

rt_schedule_insert_thread(k, t) ==
  IF t = k.current
    THEN SetStat(k, t, "RUNNING")
    ELSE [rt_list_insert_before(SetStat(k, t, "READY"), k.prio[t], t)
            EXCEPT !.group = @ \cup {k.prio[t]}]

\* Mutant: the priority's bit is left set.
RemoveThreadKeepsBit(k, t) == rt_list_remove(k, t)

rt_schedule_remove_thread(k, t) ==
  LET u == rt_list_remove(k, t)
  IN  IF u.list[k.prio[t]] = << >>
        THEN [u EXCEPT !.group = @ \ {k.prio[t]}]
        ELSE u

\* The running thread keeps the CPU against the head of the ready queue.
Keeps(k) ==
  /\ k.stat[k.current] = "RUNNING"
  /\ \/ k.prio[k.current] < Highest(k)
     \/ k.prio[k.current] = Highest(k) /\ ~ k.yld[k.current]

Dispatch(k, t) == SetStat(rt_schedule_remove_thread(k, t), t, "RUNNING")

\* Mutant: the preempted thread is not put back into the ready queue.
SwitchToLosesFrom(k, to) == Dispatch([k EXCEPT !.current = to], to)

\* The context switch: the preempted thread goes back to the ready queue and
\* loses its YIELD bit, a thread that is not RUNNING just leaves.
SwitchTo(k, to) ==
  LET from == k.current
      s    == [k EXCEPT !.current = to]
  IN  IF k.stat[from] = "RUNNING"
        THEN Dispatch(rt_schedule_insert_thread(
                        [s EXCEPT !.yld[from] = FALSE], from), to)
        ELSE Dispatch(s, to)

\* Mutant: the scheduler lock is not tested.
ScheduleIgnoresLock(k) ==
  IF k.group = {} THEN k
  ELSE IF Keeps(k) THEN Dispatch(k, k.current)
  ELSE SwitchTo(k, get_highest_priority_thread(k))

rt_schedule(k) ==
  IF k.lock # 0 \/ k.group = {} THEN k
  ELSE IF Keeps(k) THEN Dispatch(k, k.current)
  ELSE SwitchTo(k, get_highest_priority_thread(k))

rt_enter_critical(k) == [k EXCEPT !.lock = @ + 1]

\* The part of rt_exit_critical before the call of rt_schedule.
rt_exit_critical(k) == [k EXCEPT !.lock = IF @ <= 1 THEN 0 ELSE @ - 1]

-----------------------------------------------------------------------------
(***************************************************************************)
(* The thread timer (timer.c, as used by thread.c and ipc.c).  A timer     *)
(* started with d ticks fires at the d-th following tick, one started with *)
(* 0 at the next.                                                          *)
(***************************************************************************)
rt_timer_start(k, t, d) == [k EXCEPT !.timer[t] = d]

rt_timer_stop(k, t) == [k EXCEPT !.timer[t] = Off]

rt_timer_detach(k, t) == [k EXCEPT !.timer[t] = Off]

Expired(k) == {t \in Thread : k.timer[t] = 0}

\* Mutant: the last tick is never counted.
TickTimersOffByOne(k) ==
  [k EXCEPT !.timer = [t \in Thread |-> IF k.timer[t] > 1
                                          THEN k.timer[t] - 1
                                          ELSE k.timer[t]]]

\* One tick passes for every thread timer in rt_timer_list.
TickTimers(k) ==
  [k EXCEPT !.timer = [t \in Thread |-> IF k.timer[t] > 0
                                          THEN k.timer[t] - 1
                                          ELSE k.timer[t]]]

-----------------------------------------------------------------------------
(***************************************************************************)
(* thread.c                                                                *)
(***************************************************************************)
\* Mutant: the thread is unlinked without looking at the priority's bit.
SuspendBodyUnlinksOnly(k, t) ==
  rt_timer_stop(SetStat(rt_list_remove(k, t), t, "SUSPEND"), t)

\* rt_thread_suspend from the point where interrupts are disabled.
SuspendBody(k, t) ==
  rt_timer_stop(SetStat(rt_schedule_remove_thread(k, t), t, "SUSPEND"), t)

CanSuspend(k, t) == k.stat[t] \in {"READY", "RUNNING"}

rt_thread_suspend(k, t) == IF CanSuspend(k, t) THEN SuspendBody(k, t) ELSE k

\* Mutant: the timer of the resumed thread goes on.
ResumeKeepsTimer(k, t) == rt_list_remove(k, t)

\* The critical section of rt_thread_resume, before the thread is inserted in
\* the ready queue with interrupts enabled in between.
ResumeUnlink(k, t) == rt_timer_stop(rt_list_remove(k, t), t)

\* rt_thread_resume called with interrupts disabled.
rt_thread_resume(k, t) ==
  IF k.stat[t] = "SUSPEND"
    THEN rt_schedule_insert_thread(ResumeUnlink(k, t), t)
    ELSE k

\* Mutant: nothing is scheduled when the thread has become ready.
TimeoutNoSchedule(k, t) ==
  LET e == [rt_timer_stop(k, t) EXCEPT !.err[t] = "ETIMEOUT"]
  IN  rt_schedule_insert_thread(rt_list_remove(e, t), t)

\* rt_timer_check takes the timer off its list and calls rt_thread_timeout.
rt_thread_timeout(k, t) ==
  LET e == [rt_timer_stop(k, t) EXCEPT !.err[t] = "ETIMEOUT"]
  IN  rt_schedule(rt_schedule_insert_thread(rt_list_remove(e, t), t))

\* RT_THREAD_CTRL_CHANGE_PRIORITY of rt_thread_control.
ChangePriority(k, t, p) ==
  IF k.stat[t] = "READY"
    THEN rt_schedule_insert_thread(
           [rt_schedule_remove_thread(k, t) EXCEPT !.prio[t] = p], t)
    ELSE [k EXCEPT !.prio[t] = p]

\* Mutant: the slice is not reloaded.
TickSliceNoReload(k) ==
  LET c == k.current
      d == [k EXCEPT !.slice[c] = @ - 1]
  IN  IF d.slice[c] = 0 THEN rt_schedule([d EXCEPT !.yld[c] = TRUE]) ELSE d

\* Mutant: the YIELD bit is not set, so rt_schedule keeps the current thread.
TickSliceNoYield(k) ==
  LET c == k.current
      d == [k EXCEPT !.slice[c] = @ - 1]
  IN  IF d.slice[c] = 0
        THEN rt_schedule([d EXCEPT !.slice[c] = InitTick[c]])
        ELSE d

\* rt_tick_increase up to the call of rt_timer_check.
TickSlice(k) ==
  LET c == k.current
      d == [k EXCEPT !.slice[c] = @ - 1]
  IN  IF d.slice[c] = 0
        THEN rt_schedule([d EXCEPT !.slice[c] = InitTick[c], !.yld[c] = TRUE])
        ELSE d

-----------------------------------------------------------------------------
(***************************************************************************)
(* What the kernel promises about this data between two critical sections. *)
(***************************************************************************)
\* No list holds a thread twice: tlist is one node.
ListsInjective(k) ==
  \A h \in Head_ : \A i, j \in DOMAIN k.list[h] :
    k.list[h][i] = k.list[h][j] => i = j

\* What a thread's membership of a list says of its state.
ListsMatchStat(k) ==
  /\ \A p \in Prio : \A t \in Members(k.list[p]) :
       k.stat[t] = "READY" /\ k.prio[t] = p
  /\ \A q \in Queue : \A t \in Members(k.list[q]) : k.stat[t] = "SUSPEND"
  /\ \A t \in Members(k.list[Defunct]) : k.stat[t] = "CLOSE"

ReadyIsQueued(k) ==
  \A t \in Thread : k.stat[t] = "READY" => t \in Members(k.list[k.prio[t]])

QueuesDisjoint(k) ==
  \A q, r \in Queue : \A t \in Thread :
    t \in Members(k.list[q]) /\ t \in Members(k.list[r]) => q = r

GroupIsNonEmpty(k) == k.group = {p \in Prio : k.list[p] # << >>}

OneRunning(k) ==
  /\ \A t \in Thread : k.stat[t] = "RUNNING" => t = k.current
  /\ k.stat[k.current] \in {"RUNNING", "SUSPEND", "CLOSE"}

TimerImpliesSuspended(k) ==
  \A t \in Thread : k.timer[t] # Off => k.stat[t] = "SUSPEND"

KernelInv(k) ==
  /\ ListsInjective(k) /\ ListsMatchStat(k) /\ QueuesDisjoint(k)
  /\ ReadyIsQueued(k) /\ GroupIsNonEmpty(k)
  /\ OneRunning(k) /\ TimerImpliesSuspended(k)

Unlinked(k, t) == \A h \in Head_ : t \notin Members(k.list[h])

\* A thread that waits for its caller to start it, or to free it.
Held(k, t) ==
  /\ k.stat[t] \in {"SUSPEND", "CLOSE"} /\ k.timer[t] = Off
  /\ Unlinked(k, t) /\ t # k.current

\* No ready thread has a higher priority than the RUNNING one.
TopRuns(k) ==
  k.stat[k.current] = "RUNNING" => \A p \in k.group : k.prio[k.current] <= p

\* The idle thread can always be scheduled.
IdleSchedulable(k) == k.stat[Idle] \in {"READY", "RUNNING"}
=============================================================================
