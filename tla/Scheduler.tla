----------------------------- MODULE Scheduler -----------------------------
(***************************************************************************)
(* The thread API of thread.c, the scheduler lock of scheduler.c, the tick *)
(* interrupt of clock.c and timer.c and the idle thread's reaper of        *)
(* idle.c, running application threads that call them in any order.        *)
(*                                                                         *)
(* There is one CPU.  A step is taken by the current thread, or by the     *)
(* tick interrupt.  A stretch of code with interrupts disabled is one      *)
(* step; between two such stretches of the same function the interrupt,    *)
(* and through it every other thread, may run.  pc[t] is where thread t    *)
(* continues when it has the CPU: the label of the next stretch and the    *)
(* thread the call is about.                                               *)
(*                                                                         *)
(* rt_timer_check disables interrupts for its whole loop: while isr is     *)
(* "timer" only the loop's iterations are enabled.                         *)
(***************************************************************************)
EXTENDS Kernel

CONSTANTS May,         \* the pairs <<t, call>>: thread t makes this API call
          Static,      \* the threads initialized by rt_thread_init
          Cleanup,     \* the threads with a cleanup function
          Timeout,     \* the delays rt_thread_sleep is called with
          MaxNest      \* bound on the nesting of rt_enter_critical

VARIABLES k, isr, pc

vars == <<k, isr, pc>>

Call == {"create", "startup", "suspend", "resume", "sleep", "yield", "exit",
         "delete", "detach", "control", "critical"}

Label == {"run", "startup_unlink", "startup_insert", "resume_unlink",
          "resume_insert", "suspend_body", "sched", "yield", "sleep_sched",
          "sleep_end", "delete_timer", "delete_close", "idle_free", "dead"}

ASSUME SchedulerAssumption ==
  /\ May \subseteq (Thread \ {Idle}) \X Call
  /\ Static \subseteq Thread
  /\ Cleanup \subseteq Thread
  /\ Timeout \subseteq Nat
  /\ MaxNest \in Nat

At(l, t) == [at |-> l, arg |-> t]

Running(t) == At("run", t)

-----------------------------------------------------------------------------
(***************************************************************************)
(* The state after rt_system_scheduler_start: the application thread that  *)
(* started the scheduler's first thread runs, the idle thread is ready,    *)
(* the others have not been created.                                       *)
(***************************************************************************)
InitKernel(first) ==
  [stat    |-> [t \in Thread |-> CASE t = first -> "RUNNING"
                                   [] t = Idle  -> "READY"
                                   [] OTHER     -> "NONE"],
   yld     |-> [t \in Thread |-> FALSE],
   prio    |-> InitPrio,
   list    |-> [h \in Head_ |-> IF h = InitPrio[Idle] THEN <<Idle>> ELSE << >>],
   group   |-> {InitPrio[Idle]},
   current |-> first,
   lock    |-> 0,
   slice   |-> InitTick,
   timer   |-> [t \in Thread |-> Off],
   err     |-> [t \in Thread |-> "EOK"]]

Init ==
  /\ \E first \in Thread \ {Idle} :
        /\ InitPrio[first] <= InitPrio[Idle]
        /\ k = InitKernel(first)
  /\ isr = "none"
  /\ pc = [t \in Thread |-> Running(t)]

-----------------------------------------------------------------------------
\* Thread t has the CPU and is at label l.
Executes(t, l) == isr = "none" /\ t = k.current /\ pc[t].at = l

\* Thread t is in application code and makes the API call a.
Calls(t, a) == Executes(t, "run") /\ <<t, a>> \in May

Goto(t, l, u) == pc' = [pc EXCEPT ![t] = At(l, u)]

Return(t) == Goto(t, "run", t)

\* Mutant: a closed thread's object is taken to be free.
ReusableAnyClosed(t) == k.stat[t] \in {"NONE", "CLOSE"}

\* The object is free: never created, reaped, or static and detached.
Reusable(t) ==
  \/ k.stat[t] = "NONE"
  \/ k.stat[t] = "CLOSE" /\ t \in Static \ Cleanup

\* rt_thread_create of a dynamic thread, rt_thread_init of a static one; the
\* thread's memory is not shared until the call returns.
rt_thread_create(c, t) ==
  /\ Calls(c, "create")
  /\ t # c
  /\ Reusable(t)
  /\ k' = [SetStat(k, t, "INIT") EXCEPT
             !.yld[t] = FALSE, !.prio[t] = InitPrio[t],
             !.slice[t] = InitTick[t], !.timer[t] = Off, !.err[t] = "EOK"]
  /\ pc' = [pc EXCEPT ![t] = Running(t)]
  /\ UNCHANGED isr

\* rt_thread_startup asserts RT_THREAD_INIT, makes the thread SUSPENDed and
\* resumes it; the resumed thread's state is tested before interrupts are
\* disabled.  The assertion, the stores and that test are made with interrupts
\* enabled and are one step here: a thread is started by one other, and nobody
\* else touches one that is not in a list and not SUSPENDed yet.
rt_thread_startup(c, t) ==
  /\ Calls(c, "startup")
  /\ k.stat[t] = "INIT"
  /\ k' = [SetStat(k, t, "SUSPEND") EXCEPT
             !.yld[t] = FALSE, !.prio[t] = InitPrio[t]]
  /\ Goto(c, "startup_unlink", t)
  /\ UNCHANGED isr

StartupUnlink(c) ==
  /\ Executes(c, "startup_unlink")
  /\ k' = ResumeUnlink(k, pc[c].arg)
  /\ Goto(c, "startup_insert", pc[c].arg)
  /\ UNCHANGED isr

StartupInsert(c) ==
  /\ Executes(c, "startup_insert")
  /\ k' = rt_schedule_insert_thread(k, pc[c].arg)
  /\ Goto(c, "sched", c)
  /\ UNCHANGED isr

\* Mutant: the state of the thread is not tested.
ResumeUntested(c, t) ==
  /\ Calls(c, "resume")
  /\ k.stat[t] # "NONE"
  /\ Goto(c, "resume_unlink", t)
  /\ UNCHANGED <<k, isr>>

\* rt_thread_resume: the test of the state, the critical section that unlinks
\* the thread, and the insertion are three steps.
rt_thread_resume_(c, t) ==
  /\ Calls(c, "resume")
  /\ k.stat[t] = "SUSPEND"
  /\ Goto(c, "resume_unlink", t)
  /\ UNCHANGED <<k, isr>>

ResumeUnlinkStep(c) ==
  /\ Executes(c, "resume_unlink")
  /\ k' = ResumeUnlink(k, pc[c].arg)
  /\ Goto(c, "resume_insert", pc[c].arg)
  /\ UNCHANGED isr

ResumeInsert(c) ==
  /\ Executes(c, "resume_insert")
  /\ k' = rt_schedule_insert_thread(k, pc[c].arg)
  /\ Return(c)
  /\ UNCHANGED isr

\* rt_thread_suspend: the test of the state, then the critical section.  A
\* thread that suspends itself calls rt_schedule next.
rt_thread_suspend_(c, t) ==
  /\ Calls(c, "suspend")
  /\ t # Idle
  /\ CanSuspend(k, t)
  /\ Goto(c, "suspend_body", t)
  /\ UNCHANGED <<k, isr>>

SuspendStep(c) ==
  /\ Executes(c, "suspend_body")
  /\ k' = SuspendBody(k, pc[c].arg)
  /\ IF pc[c].arg = c THEN Goto(c, "sched", c) ELSE Return(c)
  /\ UNCHANGED isr

\* rt_schedule, called at the end of several functions.
Schedule(c) ==
  /\ Executes(c, "sched")
  /\ k' = rt_schedule(k)
  /\ Return(c)
  /\ UNCHANGED isr

\* rt_thread_yield only calls rt_schedule; the call is a step of its own, so
\* that a yield that changes nothing is not a stuttering step.
rt_thread_yield(c) ==
  /\ Calls(c, "yield")
  /\ Goto(c, "yield", c)
  /\ UNCHANGED <<k, isr>>

YieldSchedule(c) ==
  /\ Executes(c, "yield")
  /\ k' = rt_schedule(k)
  /\ Return(c)
  /\ UNCHANGED isr

\* rt_thread_sleep ignores the result of rt_thread_suspend.
rt_thread_sleep(c, d) ==
  /\ Calls(c, "sleep")
  /\ k' = rt_timer_start(rt_thread_suspend(k, c), c, d)
  /\ Goto(c, "sleep_sched", c)
  /\ UNCHANGED isr

SleepSchedule(c) ==
  /\ Executes(c, "sleep_sched")
  /\ k' = rt_schedule(k)
  /\ Goto(c, "sleep_end", c)
  /\ UNCHANGED isr

SleepEnd(c) ==
  /\ Executes(c, "sleep_end")
  /\ k' = [k EXCEPT !.err[c] = IF @ = "ETIMEOUT" THEN "EOK" ELSE @]
  /\ Return(c)
  /\ UNCHANGED isr

\* A closed thread is kept on rt_thread_defunct for the idle thread, unless it
\* is static and has no cleanup function: then its object is detached at once.
Close(kk, t) ==
  LET u == [SetStat(kk, t, "CLOSE") EXCEPT !.yld[t] = FALSE]
  IN  IF t \in Static \ Cleanup THEN u ELSE rt_list_insert_after(u, Defunct, t)

\* rt_thread_exit, which a thread function that returns runs into.
rt_thread_exit(c) ==
  /\ Calls(c, "exit")
  /\ k' = rt_schedule(Close(rt_timer_detach(rt_schedule_remove_thread(k, c), c),
                            c))
  /\ Goto(c, "dead", c)
  /\ UNCHANGED isr

\* Mutant: the thread stays in its list while it is closed.
DeleteStaysQueued(c, t) ==
  /\ Calls(c, IF t \in Static THEN "detach" ELSE "delete")
  /\ t \notin {c, Idle}
  /\ k.stat[t] \notin {"NONE", "CLOSE"}
  /\ Goto(c, "delete_timer", t)
  /\ UNCHANGED <<k, isr>>

\* rt_thread_delete of a dynamic thread, rt_thread_detach of a static one: the
\* thread leaves its list, its timer is detached and it is closed in three
\* critical sections.  The application does not delete a thread that has gone.
rt_thread_delete(c, t) ==
  /\ Calls(c, IF t \in Static THEN "detach" ELSE "delete")
  /\ t \notin {c, Idle}
  /\ k.stat[t] \notin {"NONE", "CLOSE"}
  /\ k' = IF k.stat[t] # "INIT" THEN rt_schedule_remove_thread(k, t) ELSE k
  /\ Goto(c, "delete_timer", t)
  /\ UNCHANGED isr

DeleteTimer(c) ==
  /\ Executes(c, "delete_timer")
  /\ k' = rt_timer_detach(k, pc[c].arg)
  /\ Goto(c, "delete_close", pc[c].arg)
  /\ UNCHANGED isr

DeleteClose(c) ==
  /\ Executes(c, "delete_close")
  /\ k' = Close(k, pc[c].arg)
  /\ Return(c)
  /\ UNCHANGED isr

\* rt_thread_control with RT_THREAD_CTRL_CHANGE_PRIORITY of a thread object
\* that exists; nothing is scheduled.
rt_thread_control(c, t, p) ==
  /\ Calls(c, "control")
  /\ t # Idle
  /\ ~ Reusable(t)
  /\ k' = ChangePriority(k, t, p)
  /\ UNCHANGED <<isr, pc>>

EnterCritical(c) ==
  /\ Calls(c, "critical")
  /\ k.lock < MaxNest
  /\ k' = rt_enter_critical(k)
  /\ UNCHANGED <<isr, pc>>

\* Lowering the lock and the rt_schedule that follows are two stretches.
ExitCritical(c) ==
  /\ Calls(c, "critical")
  /\ k.lock > 0
  /\ k' = rt_exit_critical(k)
  /\ IF k'.lock = 0 THEN Goto(c, "sched", c) ELSE UNCHANGED pc
  /\ UNCHANGED isr

-----------------------------------------------------------------------------
(***************************************************************************)
(* rt_thread_idle_excute, the idle thread's loop: it takes the first       *)
(* defunct thread, runs its cleanup with the scheduler locked, schedules   *)
(* when it unlocks, and frees a dynamic thread's memory afterwards.        *)
(***************************************************************************)
IdleReap ==
  /\ Executes(Idle, "run")
  /\ k.list[Defunct] # << >>
  /\ LET t == Head(k.list[Defunct])
         u == rt_schedule(rt_list_remove(k, t))
     IN  IF t \in Static
           THEN k' = SetStat(u, t, "NONE") /\ UNCHANGED pc
           ELSE k' = u /\ Goto(Idle, "idle_free", t)
  /\ UNCHANGED isr

IdleFree ==
  /\ Executes(Idle, "idle_free")
  /\ k' = SetStat(k, pc[Idle].arg, "NONE")
  /\ Return(Idle)
  /\ UNCHANGED isr

-----------------------------------------------------------------------------
(***************************************************************************)
(* The SysTick interrupt: rt_tick_increase charges the current thread and  *)
(* yields for it when its slice is used up; then rt_timer_check runs the   *)
(* timeout functions of the expired timers.                                *)
(***************************************************************************)
rt_tick_increase ==
  /\ isr = "none"
  /\ k' = TickTimers(TickSlice(k))
  /\ isr' = "timer"
  /\ UNCHANGED pc

TimerFires(t) ==
  /\ isr = "timer"
  /\ t \in Expired(k)
  /\ k' = rt_thread_timeout(k, t)
  /\ UNCHANGED <<isr, pc>>

TickEnds ==
  /\ isr = "timer"
  /\ Expired(k) = {}
  /\ isr' = "none"
  /\ UNCHANGED <<k, pc>>

TickIsr == TickEnds \/ \E t \in Thread : TimerFires(t)

-----------------------------------------------------------------------------
\* The steps that finish a function the thread has called.
Continue(c) ==
  \/ StartupUnlink(c) \/ StartupInsert(c)
  \/ ResumeUnlinkStep(c) \/ ResumeInsert(c)
  \/ SuspendStep(c)
  \/ Schedule(c) \/ YieldSchedule(c)
  \/ SleepSchedule(c) \/ SleepEnd(c)
  \/ DeleteTimer(c) \/ DeleteClose(c)

\* The calls an application thread may make.
Invoke(c) ==
  \/ \E t \in Thread :
       \/ rt_thread_create(c, t) \/ rt_thread_startup(c, t)
       \/ rt_thread_resume_(c, t) \/ rt_thread_suspend_(c, t)
       \/ rt_thread_delete(c, t)
       \/ \E p \in Prio : rt_thread_control(c, t, p)
  \/ \E d \in Timeout : rt_thread_sleep(c, d)
  \/ rt_thread_yield(c) \/ rt_thread_exit(c)
  \/ EnterCritical(c) \/ ExitCritical(c)

Next ==
  \/ \E c \in Thread : Continue(c) \/ Invoke(c)
  \/ IdleReap \/ IdleFree
  \/ rt_tick_increase \/ TickIsr

Spec == Init /\ [][Next]_vars

-----------------------------------------------------------------------------
\* The types of the variables; a thread's continuation names a thread.
TypeOK ==
  /\ k \in KernelType
  /\ isr \in {"none", "timer"}
  /\ pc \in [Thread -> [at : Label, arg : Thread]]

\* The threads taken off their list by a delete that has not closed them yet.
Leaving ==
  {pc[c].arg : c \in {d \in Thread : pc[d].at \in {"delete_timer",
                                                   "delete_close"}}}

(***************************************************************************)
(* The scheduler's data structure is consistent whenever interrupts are    *)
(* enabled: tlist links a thread into at most one list, the one its state  *)
(* and priority call for, every READY thread can be found by rt_schedule,  *)
(* and a bit of the priority group is set exactly for a non-empty list     *)
(* (_get_highest_priority_thread takes the first node of that list without *)
(* looking whether there is one).                                          *)
(***************************************************************************)
ReadyQueueConsistent ==
  /\ ListsInjective(k) /\ ListsMatchStat(k) /\ QueuesDisjoint(k)
  /\ GroupIsNonEmpty(k)
  /\ \A t \in Thread \ Leaving :
       k.stat[t] = "READY" => t \in Members(k.list[k.prio[t]])

(***************************************************************************)
(* Only rt_current_thread is RUNNING, the idle thread never blocks, and an *)
(* armed thread timer belongs to a SUSPENDed thread, which is what         *)
(* rt_thread_timeout asserts when the timer fires.                         *)
(***************************************************************************)
ThreadStates ==
  OneRunning(k) /\ IdleSchedulable(k) /\ TimerImpliesSuspended(k)

(***************************************************************************)
(* Preemption: while the scheduler is not locked, a RUNNING thread that is *)
(* not just about to call rt_schedule has the highest priority of all      *)
(* ready threads, in interrupt handlers too.  (rt_thread_resume and        *)
(* rt_thread_control leave the call of rt_schedule to the application, so  *)
(* this is not checked of programs that use them.)                         *)
(***************************************************************************)
HighestRuns ==
  k.lock = 0 /\ pc[k.current].at # "sched" => TopRuns(k)

(***************************************************************************)
(* A thread that is being started or freed in several critical sections is *)
(* meanwhile in no list, has no timer running and is not the current       *)
(* thread, and no second caller starts or frees it.                        *)
(***************************************************************************)
Holds(c) == pc[c].at \in {"startup_unlink", "startup_insert", "idle_free"}

HeldThreads ==
  /\ \A c \in Thread : Holds(c) => Held(k, pc[c].arg)
  /\ \A c, d \in Thread :
       Holds(c) /\ Holds(d) /\ pc[c].arg = pc[d].arg => c = d

(***************************************************************************)
(* A thread that has exited or has been deleted stays closed until its     *)
(* object is released: it is not made ready, suspended or run again.       *)
(***************************************************************************)
ClosedStaysClosed ==
  [][\A t \in Thread : k.stat[t] = "CLOSE" =>
        k'.stat[t] \in {"CLOSE", "NONE", "INIT"}]_vars

(***************************************************************************)
(* rt_thread_resume takes a thread off its suspend list, never off the     *)
(* ready queue: what it saw before disabling interrupts still holds.       *)
(***************************************************************************)
ResumesSuspended ==
  \A c \in Thread : pc[c].at \in {"resume_unlink", "startup_unlink"} =>
    k.stat[pc[c].arg] = "SUSPEND"

(***************************************************************************)
(* rt_enter_critical: nobody else gets the CPU until rt_exit_critical has  *)
(* been called as often, whatever the tick interrupt makes ready.          *)
(***************************************************************************)
LockHolds == [][k.lock # 0 => k'.current = k.current]_vars

(***************************************************************************)
(* A thread that sleeps is made ready again.                               *)
(***************************************************************************)
SleepEnds ==
  \A t \in Thread : k.timer[t] # Off ~> k.timer[t] = Off

(***************************************************************************)
(* Time slicing: a READY thread that stays at the highest priority gets    *)
(* the CPU, however long the others of its priority compute.               *)
(***************************************************************************)
AtTop(t) ==
  /\ k.lock = 0
  /\ k.stat[t] = "READY"
  /\ \A p \in k.group \cup {k.prio[k.current]} : k.prio[t] <= p

RoundRobin ==
  \A t \in Thread : [](AtTop(t) => <>(k.current = t \/ ~ AtTop(t)))

-----------------------------------------------------------------------------
(***************************************************************************)
(* What comments and tests in the code say of it, and it does not do.      *)
(***************************************************************************)
\* "After yield processor, the current thread is still in READY state": with
\* another ready thread of its priority, rt_thread_yield gives up the CPU.
YieldGivesUp ==
  [][\A c \in Thread :
       YieldSchedule(c) /\ k.lock = 0 /\ k.prio[c] \in k.group =>
         k'.stat[c] = "READY"]_vars

\* A deleted thread is "removed from thread queue": none of the ready lists
\* holds a thread that has been closed.
ClosedOffReadyQueue ==
  \A p \in Prio : \A t \in Members(k.list[p]) : k.stat[t] # "CLOSE"
=============================================================================
