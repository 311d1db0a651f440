------------------------------ MODULE IpcProofs ------------------------------
(***************************************************************************)
(* What the IPC objects share, for any number of objects, threads and      *)
(* priorities: a thread is linked into a suspend list exactly while it     *)
(* waits in a call on that object, and whoever resumes it has said why.    *)
(*                                                                         *)
(* The programs are those without the thread API's open races: no thread   *)
(* resumes, suspends or deletes another one that may be in an IPC call,    *)
(* none blocks while the scheduler is locked, and the idle thread, which   *)
(* must stay schedulable, uses no IPC object.                              *)
(***************************************************************************)
EXTENDS Ipc, SchedulerProofs, FiniteSetTheorems, FunctionTheorems

PoliteCalls == {"create", "startup", "sleep", "yield", "exit", "control"}

Polite ==
  /\ \A m \in May : m[2] \in PoliteCalls
  /\ \A a : <<Idle, a>> \notin Uses

-----------------------------------------------------------------------------
(***************************************************************************)
(* The inductive invariant, on top of the scheduler's.  A waiter is in the *)
(* middle of the call on the object whose list it is in, and has no error  *)
(* yet; a thread in IPC code that does not wait can run; and the current   *)
(* thread is RUNNING unless it is about to give up the CPU.                *)
(***************************************************************************)
WaitLabels == {"ipc_sched", "ipc_end"}

Runnable == {"READY", "RUNNING"}

Linked(kk, p) ==
  \A q \in Queue : \A t \in Members(kk.list[q]) :
    p[t].at \in WaitLabels /\ p[t].arg = q

Away(kk, p) ==
  \A t \in Thread : p[t].at \notin Label =>
    kk.stat[t] \in Runnable \/ \E q \in Queue : t \in Members(kk.list[q])

Clean(kk) == \A q \in Queue : \A t \in Members(kk.list[q]) : kk.err[t] = "EOK"

WaitersOK(kk, p) == Linked(kk, p) /\ Away(kk, p) /\ Clean(kk)

CurrentRuns(kk, p) ==
  kk.stat[kk.current] = "RUNNING" \/ p[kk.current].at \in {"sleep_sched", "ipc_sched"}

IpcInv ==
  /\ IInv /\ k.lock = 0
  /\ WaitersOK(k, pc) /\ CurrentRuns(k, pc)
  /\ \A t \in Thread : pc[t].at # "suspend_body"

\* Threads in a list are threads, and those in a suspend list are SUSPENDed.
LEMMA MembersAre ==
  ASSUME NEW kk, Core(kk, {}), NEW q \in Queue, NEW t \in Members(kk.list[q])
  PROVE  t \in Thread /\ kk.stat[t] = "SUSPEND"
<1>1. q \in Head_ /\ kk.list \in [Head_ -> Seq(Thread)]
  BY DEF Core, KernelType, Head_
<1>2. Members(kk.list[q]) \subseteq Thread
  BY <1>1 DEF Members
<1> QED BY <1>2 DEF Core, ListsMatchStat

\* A thread that is not SUSPENDed is in no suspend list.
LEMMA NotSuspended ==
  ASSUME NEW kk, Core(kk, {}), NEW t, kk.stat[t] # "SUSPEND"
  PROVE  \A q \in Queue : t \notin Members(kk.list[q])
BY MembersAre

\* A step keeps what is said of waiters if the threads it disturbs can run or
\* are outside IPC code, and it moves no waiter further than past rt_schedule.
LEMMA WaitersKept ==
  ASSUME NEW kk, NEW u, NEW p, NEW r, NEW X \in SUBSET Thread,
         WaitersOK(kk, p), Core(kk, {}), Core(u, {}), Steady(kk, u, X),
         \A x \in X : u.stat[x] \in Runnable \/ p[x].at \in Label,
         \A x \in Thread : \/ r[x] = p[x]
                           \/ u.stat[x] \in Runnable
                           \/ p[x].at \in Label /\ r[x].at \in Label
                           \/ /\ p[x].at \in WaitLabels /\ r[x].at \in WaitLabels
                              /\ r[x].arg = p[x].arg
  PROVE  WaitersOK(u, r)
<1>1. \A l \in WaitLabels : l \notin Label
  BY DEF WaitLabels, Label
<1>2. ASSUME NEW q \in Queue, NEW t \in Members(u.list[q])
      PROVE  /\ t \in Thread /\ u.stat[t] = "SUSPEND" /\ t \in Members(kk.list[q])
             /\ p[t].at \in WaitLabels /\ p[t].arg = q /\ kk.err[t] = "EOK"
             /\ p[t].at \notin Label /\ t \notin X
  <2>1. t \in Thread /\ u.stat[t] = "SUSPEND"
    BY <1>2, MembersAre
  <2>2. t \in Members(kk.list[q])
    BY <1>2 DEF Steady
  <2>3. p[t].at \in WaitLabels /\ p[t].arg = q /\ kk.err[t] = "EOK"
    BY <2>2 DEF WaitersOK, Linked, Clean
  <2>4. u.stat[t] \notin Runnable
    BY <2>1 DEF Runnable
  <2> QED BY <1>1, <2>1, <2>2, <2>3, <2>4
<1>3. Linked(u, r)
  <2>1. ASSUME NEW q \in Queue, NEW t \in Members(u.list[q])
        PROVE  r[t].at \in WaitLabels /\ r[t].arg = q
    BY <1>2, <2>1 DEF Runnable
  <2> QED BY <2>1 DEF Linked
<1>4. Clean(u)
  BY <1>2 DEF Clean, Steady
<1>5. Away(u, r)
  <2>1. ASSUME NEW t \in Thread, r[t].at \notin Label, u.stat[t] \notin Runnable
        PROVE  \E q \in Queue : t \in Members(u.list[q])
    <3>1. p[t].at \notin Label
      BY <1>1, <2>1
    <3>2. t \notin X
      BY <2>1, <3>1
    <3>3. kk.stat[t] \notin Runnable
      BY <2>1, <3>2 DEF Steady, Runnable
    <3>4. PICK q \in Queue : t \in Members(kk.list[q])
      BY <3>1, <3>3 DEF WaitersOK, Away
    <3> QED BY <3>2, <3>4 DEF Steady
  <2> QED BY <2>1 DEF Away
<1> QED BY <1>3, <1>4, <1>5 DEF WaitersOK

\* rt_schedule, called with the scheduler unlocked, leaves a RUNNING thread.
LEMMA ScheduleRuns ==
  ASSUME NEW u, Core(u, {}), CurrentOK(u), IdleSchedulable(u), u.lock = 0
  PROVE  rt_schedule(u).stat[rt_schedule(u).current] = "RUNNING"
<1> DEFINE v == rt_schedule(u)
<1>1. u \in KernelType
  BY DEF Core
<1>2. Core(v, {}) /\ CurrentOK(v) /\ Moves(u, v)
  BY ScheduleCore
<1>3. CASE u.stat[u.current] = "RUNNING"
  <2>1. u.current \in Thread /\ v.current \in Thread
    BY <1>1, <1>2 DEF KernelType, Core
  <2> HIDE DEF v
  <2>2. v.stat[v.current] \in {"READY", "RUNNING"}
    BY <1>2, <1>3, <2>1 DEF Moves
  <2> QED BY <1>2, <2>2 DEF CurrentOK, v
<1>4. CASE u.stat[u.current] # "RUNNING"
  <2>1. u.group # {}
    <3>1. u.stat[Idle] = "READY" /\ Idle \in Thread
      BY <1>4, ThreadAssumption DEF IdleSchedulable, Core, StatOK
    <3>2. Idle \in Members(u.list[u.prio[Idle]]) /\ u.prio[Idle] \in Prio
      BY <1>1, <3>1 DEF Core, StatOK, KernelType
    <3> QED BY <3>2 DEF Core
  <2> DEFINE to == get_highest_priority_thread(u)
             s  == [u EXCEPT !.current = to]
  <2>2. to \in Thread /\ u.stat[to] = "READY"
    BY <2>1, HighestReady
  <2> HIDE DEF to
  <2>3. v = Dispatch(s, to)
    BY <1>4, <2>1 DEF rt_schedule, Keeps, SwitchTo, to
  <2>4. IsKernel(s) /\ s.current = to
    <3>1. IsKernel(u)
      BY <1>1 DEF IsKernel, KernelType
    <3> QED BY <3>1 DEF IsKernel
  <2> HIDE DEF s, v
  <2>5. v.current = to
    <3> DEFINE d == rt_schedule_remove_thread(s, to)
    <3>1. Stays(s, d)
      BY <2>4, OperationsStay
    <3>2. v = SetStat(d, to, "RUNNING")
      BY <2>3 DEF Dispatch
    <3> HIDE DEF d
    <3>3. Stays(d, v)
      BY <3>1, <3>2, OperationsStay DEF Stays
    <3> QED BY <2>4, <3>1, <3>3 DEF Stays
  <2>6. v.stat[to] \in {"READY", "RUNNING"}
    BY <1>2, <2>2 DEF Moves
  <2> QED BY <1>2, <2>5, <2>6 DEF CurrentOK, v
<1> QED BY <1>3, <1>4

\* The thread that executes is RUNNING, unless it has just blocked.
LEMMA ExecutesRuns ==
  ASSUME IpcInv, NEW c \in Thread, NEW l, Executes(c, l),
         l \notin {"sleep_sched", "ipc_sched"}
  PROVE  c = k.current /\ k.stat[c] = "RUNNING" /\ k \in KernelType
BY DEF IpcInv, CurrentRuns, Executes, IInv, StateOK

\* A thread that can neither run nor waits in a list is outside IPC code.
LEMMA BlockedAtLabel ==
  ASSUME IpcInv, NEW t \in Thread, k.stat[t] \notin Runnable,
         \A q \in Queue : t \notin Members(k.list[q])
  PROVE  pc[t].at \in Label
BY DEF IpcInv, WaitersOK, Away

\* So is a thread that somebody is starting or freeing.
LEMMA HeldAtLabel ==
  ASSUME IpcInv, NEW t \in Thread, Held(k, t)
  PROVE  pc[t].at \in Label
<1>1. k.stat[t] \notin Runnable
  BY DEF Held, Runnable
<1>2. \A q \in Queue : t \notin Members(k.list[q])
  BY DEF Held, Unlinked, Head_
<1> QED BY <1>1, <1>2, BlockedAtLabel

\* The timer of a blocked thread has fired.
TimedOut(t) ==
  /\ UNCHANGED pc /\ k'.err[t] = "ETIMEOUT"
  /\ k.stat[t] = "SUSPEND" /\ k'.stat[t] \in Runnable

(***************************************************************************)
(* A step of the scheduler, the thread API or the tick interrupt disturbs  *)
(* no thread in IPC code, except one whose timer fires.                    *)
(***************************************************************************)
Quiet(t) ==
  /\ Steady(k, k', {t}) /\ CurrentRuns(k', pc')
  /\ pc[t].at \in Label \/ TimedOut(t)

\* A step of the RUNNING thread c that is about another thread.
LEMMA QuietLocal ==
  ASSUME IpcInv, NEW c \in Thread, NEW l, Executes(c, l),
         l \notin {"sleep_sched", "ipc_sched"},
         NEW t \in Thread, t # c, Local(k, k', t), pc[t].at \in Label
  PROVE  Quiet(t)
<1>1. c = k.current /\ k.stat[c] = "RUNNING"
  BY ExecutesRuns
<1>2. k'.current = c /\ k'.stat[c] = "RUNNING"
  BY <1>1 DEF Local
<1> QED BY <1>2, LocalSteady DEF Quiet, CurrentRuns

\* A step that ends with rt_schedule.
LEMMA QuietSchedule ==
  ASSUME IpcInv, NEW u, NEW t \in Thread, k' = rt_schedule(u), Steady(k, u, {t}),
         Core(u, {}), CurrentOK(u), IdleSchedulable(u),
         pc[t].at \in Label \/ TimedOut(t)
  PROVE  Quiet(t)
<1>1. u.lock = 0
  BY DEF IpcInv, Steady
<1>2. k'.stat[k'.current] = "RUNNING"
  BY <1>1, ScheduleRuns
<1>3. Moves(u, k')
  BY ScheduleCore
<1>4. Steady(k, k', {t})
  BY <1>3, MovesSteady, SteadyTrans
<1> QED BY <1>2, <1>4 DEF Quiet, CurrentRuns

\* The calls of rt_schedule.
LEMMA QuietCallsSchedule ==
  ASSUME IpcInv, NEW c \in Thread, NEW l \in Label, Executes(c, l),
         k' = rt_schedule(k)
  PROVE  Quiet(c)
<1>1. Steady(k, k, {c})
  BY DEF Steady
<1>2. Core(k, {}) /\ CurrentOK(k) /\ IdleSchedulable(k)
  BY DEF IpcInv, IInv
<1> QED BY <1>1, <1>2, QuietSchedule DEF Executes

\* The later critical sections of the thread API's calls.
LEMMA ContinueQuiet ==
  ASSUME Polite, IpcInv, NEW c \in Thread, Continue(c)
  PROVE  \E t \in Thread : Quiet(t)
<1>1. Core(k, {}) /\ CurrentOK(k) /\ IInv
  BY DEF IpcInv, IInv
<1>2. RaceFree
  BY DEF Polite, RaceFree, RacyCalls, PoliteCalls
<1>3. CASE StartupUnlink(c) \/ StartupInsert(c)
  <2> DEFINE a == pc[c].arg
  <2>1. PICK l \in {"startup_unlink", "startup_insert"} : Executes(c, l)
    BY <1>3 DEF StartupUnlink, StartupInsert
  <2>2. l \in Label /\ l \notin {"sleep_sched", "ipc_sched"} /\ l \in HoldLabels
    BY DEF Label, HoldLabels
  <2>3. a \in Thread /\ c = k.current /\ pc[c].at = l
    BY <1>1, <2>1, <2>2, ExecutesFacts
  <2>4. Held(k, a)
    BY <1>1, <2>1, <2>3 DEF IInv, HeldThreads, Holds
  <2>5. a # c /\ pc[a].at \in Label
    BY <2>3, <2>4, HeldAtLabel DEF Held
  <2>6. Local(k, k', a)
    BY <1>1, <1>3, <2>3, <2>4, ResumeUnlinkCore, InsertHeldCore
       DEF StartupUnlink, StartupInsert
  <2> QED BY <2>1, <2>2, <2>3, <2>5, <2>6, QuietLocal
<1>4. CASE Schedule(c) \/ YieldSchedule(c) \/ SleepSchedule(c)
  <2>1. PICK l \in Label : Executes(c, l) /\ k' = rt_schedule(k)
    BY <1>4 DEF Schedule, YieldSchedule, SleepSchedule, Label
  <2> QED BY <2>1, QuietCallsSchedule
<1>5. CASE SleepEnd(c)
  <2>1. c = k.current /\ k.stat[c] = "RUNNING" /\ k \in KernelType
        /\ pc[c].at \in Label
    <3>1. Executes(c, "sleep_end")
      BY <1>5 DEF SleepEnd
    <3> QED BY <3>1, ExecutesRuns DEF Executes, Label
  <2>2. /\ k'.current = k.current /\ k'.stat = k.stat /\ k'.list = k.list
        /\ k'.lock = k.lock /\ \A x \in Thread \ {c} : k'.err[x] = k.err[x]
    BY <1>5, <2>1 DEF SleepEnd, KernelType
  <2>3. Steady(k, k', {c})
    BY <2>2 DEF Steady
  <2> QED BY <2>1, <2>2, <2>3 DEF Quiet, CurrentRuns
<1>6. ~ SuspendStep(c)
  BY DEF SuspendStep, Executes, IpcInv
<1> QED BY <1>1, <1>2, <1>3, <1>4, <1>5, <1>6, NoRacyStep DEF Continue

\* Setting fields of one thread, the lists staying as they are, is local.
LEMMA FieldsLocal ==
  ASSUME NEW kk, NEW u, NEW t, u.list = kk.list, u.current = kk.current,
         u.lock = kk.lock,
         \A x \in Thread \ {t} :
           /\ u.stat[x] = kk.stat[x] /\ u.prio[x] = kk.prio[x]
           /\ u.timer[x] = kk.timer[x] /\ u.err[x] = kk.err[x]
  PROVE  Local(kk, u, t)
BY DEF Local

\* A changed priority is nothing a waiter sees: one that is queued in priority
\* order keeps its place.
LEMMA ControlSteady ==
  ASSUME NEW kk, NEW t \in Thread, NEW p \in Prio, Core(kk, {}), CurrentOK(kk)
  PROVE  LET u == ChangePriority(kk, t, p)
         IN  Steady(kk, u, {}) /\ u.current = kk.current /\ u.stat[t] = kk.stat[t]
<1> DEFINE u == ChangePriority(kk, t, p)
<1>1. /\ Core(u, {}) /\ CurrentOK(u) /\ Local(kk, u, t)
      /\ u.stat[t] = kk.stat[t]
  BY ChangePriorityCore
<1>2. kk \in KernelType
  BY DEF Core
<1>3. \A q \in Queue : t \in Members(u.list[q]) <=> t \in Members(kk.list[q])
  <2>1. CASE kk.stat[t] = "READY"
    BY <1>1, <2>1, NotSuspended
  <2>2. CASE kk.stat[t] # "READY"
    <3>1. u.list = kk.list
      BY <1>2, <2>2 DEF ChangePriority, KernelType
    <3> QED BY <3>1
  <2> QED BY <2>1, <2>2
<1>4. u.err = kk.err
  <2>1. CASE kk.stat[t] = "READY"
    <3> DEFINE r == rt_schedule_remove_thread(kk, t)
    <3>1. r.err = kk.err /\ r \in KernelType
      BY RemoveThreadCore DEF Frame, Core
    <3>2. u.err = r.err
      <4>1. u = rt_schedule_insert_thread([r EXCEPT !.prio[t] = p], t)
        BY <2>1 DEF ChangePriority
      <4> HIDE DEF r, u
      <4> QED BY <3>1, <4>1 DEF rt_schedule_insert_thread, SetStat,
                                 rt_list_insert_before, KernelType
    <3> QED BY <3>1, <3>2
  <2>2. CASE kk.stat[t] # "READY"
    BY <1>2, <2>2 DEF ChangePriority, KernelType
  <2> QED BY <2>1, <2>2
<1> HIDE DEF u
<1>5. Steady(kk, u, {})
  <2>1. \A x \in Thread :
          /\ u.stat[x] = kk.stat[x]
          /\ \A q \in Queue : x \in Members(u.list[q]) <=> x \in Members(kk.list[q])
    BY <1>1, <1>3 DEF Local, Head_
  <2> QED BY <1>1, <1>4, <2>1 DEF Steady, Local
<1> QED BY <1>1, <1>5 DEF Local, u

\* The calls of application threads.
LEMMA InvokeQuiet ==
  ASSUME Polite, IpcInv, NEW c \in Thread, Invoke(c)
  PROVE  \E t \in Thread : Quiet(t)
<1>1. Core(k, {}) /\ CurrentOK(k) /\ IInv /\ k \in KernelType
  BY DEF IpcInv, IInv, StateOK
<1>2. ASSUME NEW a, Calls(c, a)
      PROVE  /\ Executes(c, "run") /\ c = k.current /\ k.stat[c] = "RUNNING"
             /\ pc[c].at \in Label /\ a \in PoliteCalls
             /\ "run" \notin {"sleep_sched", "ipc_sched"}
  <2>1. Executes(c, "run") /\ <<c, a>> \in May
    BY <1>2 DEF Calls
  <2>2. a \in PoliteCalls
    BY <2>1 DEF Polite
  <2>3. c = k.current /\ k.stat[c] = "RUNNING"
    BY <2>1, ExecutesRuns
  <2> QED BY <2>1, <2>2, <2>3 DEF Executes, Label
<1>3. ASSUME NEW t \in Thread, rt_thread_create(c, t) PROVE Quiet(t)
  <2>1. Calls(c, "create") /\ t # c /\ Reusable(t)
    BY <1>3 DEF rt_thread_create
  <2>2. pc[t].at \in Label
    <3>1. k.stat[t] \in {"NONE", "CLOSE"}
      BY <2>1 DEF Reusable
    <3> QED BY <1>1, <3>1, BlockedAtLabel, NotSuspended DEF Runnable
  <2>3. k' = [k EXCEPT !.stat = [k.stat EXCEPT ![t] = "INIT"],
                       !.yld = [k.yld EXCEPT ![t] = FALSE],
                       !.prio = [k.prio EXCEPT ![t] = InitPrio[t]],
                       !.slice = [k.slice EXCEPT ![t] = InitTick[t]],
                       !.timer = [k.timer EXCEPT ![t] = Off],
                       !.err = [k.err EXCEPT ![t] = "EOK"]]
    BY <1>1, <1>3 DEF rt_thread_create, SetStat, KernelType
  <2>4. Local(k, k', t)
    <3>1. /\ k'.list = k.list /\ k'.current = k.current /\ k'.lock = k.lock
          /\ \A x \in Thread \ {t} :
               /\ k'.stat[x] = k.stat[x] /\ k'.prio[x] = k.prio[x]
               /\ k'.timer[x] = k.timer[x] /\ k'.err[x] = k.err[x]
      BY <1>1, <2>3 DEF KernelType
    <3> QED BY <3>1, FieldsLocal
  <2> QED BY <1>2, <2>1, <2>2, <2>4, QuietLocal
<1>4. ASSUME NEW t \in Thread, rt_thread_startup(c, t) PROVE Quiet(t)
  <2>1. Calls(c, "startup") /\ k.stat[t] = "INIT"
    BY <1>4 DEF rt_thread_startup
  <2>2. pc[t].at \in Label /\ t # c
    BY <1>1, <1>2, <2>1, BlockedAtLabel, NotSuspended DEF Runnable
  <2>3. k' = [k EXCEPT !.stat = [k.stat EXCEPT ![t] = "SUSPEND"],
                       !.yld = [k.yld EXCEPT ![t] = FALSE],
                       !.prio = [k.prio EXCEPT ![t] = InitPrio[t]]]
    BY <1>1, <1>4 DEF rt_thread_startup, SetStat, KernelType
  <2>4. Local(k, k', t)
    <3>1. /\ k'.list = k.list /\ k'.current = k.current /\ k'.lock = k.lock
          /\ \A x \in Thread \ {t} :
               /\ k'.stat[x] = k.stat[x] /\ k'.prio[x] = k.prio[x]
               /\ k'.timer[x] = k.timer[x] /\ k'.err[x] = k.err[x]
      BY <1>1, <2>3 DEF KernelType
    <3> QED BY <3>1, FieldsLocal
  <2> QED BY <1>2, <2>1, <2>2, <2>4, QuietLocal
<1>5. ASSUME NEW t \in Thread, NEW p \in Prio, rt_thread_control(c, t, p)
      PROVE  Quiet(c)
  <2>1. Calls(c, "control") /\ k' = ChangePriority(k, t, p)
    BY <1>5 DEF rt_thread_control
  <2>2. Steady(k, k', {}) /\ k'.current = k.current /\ k'.stat[t] = k.stat[t]
    BY <1>1, <2>1, ControlSteady
  <2>3. Local(k, k', t)
    BY <1>1, <2>1, ChangePriorityCore
  <2>4. k'.stat[c] = "RUNNING"
    BY <1>2, <2>1, <2>2, <2>3 DEF Local
  <2>5. Steady(k, k', {c})
    BY <2>2 DEF Steady
  <2> QED BY <1>2, <2>1, <2>2, <2>4, <2>5 DEF Quiet, CurrentRuns
<1>6. ASSUME NEW d \in Timeout, rt_thread_sleep(c, d) PROVE Quiet(c)
  <2> DEFINE s == SuspendBody(k, c)
  <2>1. Calls(c, "sleep") /\ pc' = [pc EXCEPT ![c] = At("sleep_sched", c)]
        /\ k' = rt_timer_start(rt_thread_suspend(k, c), c, d)
    BY <1>6 DEF rt_thread_sleep, Goto
  <2>2. c = k.current /\ k.stat[c] = "RUNNING" /\ pc[c].at \in Label
    BY <1>2, <2>1
  <2>3. k' = rt_timer_start(s, c, d)
    BY <2>1, <2>2 DEF rt_thread_suspend, CanSuspend
  <2>4. /\ Core(s, {}) /\ CurrentOK(s) /\ Local(k, s, c) /\ s.stat[c] = "SUSPEND"
    BY <1>1, SuspendBodyCore
  <2> HIDE DEF s
  <2>5. Local(s, k', c)
    BY <2>3, <2>4, TimerStartCore, SchedulerAssumption
  <2>6. Local(k, k', c)
    BY <2>4, <2>5, LocalTrans
  <2>7. CurrentRuns(k', pc')
    BY <1>1, <2>1, <2>2, <2>6 DEF CurrentRuns, Local, At, IInv, StateOK
  <2> QED BY <2>2, <2>6, <2>7, LocalSteady DEF Quiet
<1>7. CASE rt_thread_yield(c)
  <2>1. Calls(c, "yield") /\ k' = k
    BY <1>7 DEF rt_thread_yield
  <2>2. Steady(k, k', {c})
    BY <2>1 DEF Steady
  <2> QED BY <1>2, <2>1, <2>2 DEF Quiet, CurrentRuns
<1>8. CASE rt_thread_exit(c)
  <2>1. Calls(c, "exit")
    BY <1>8 DEF rt_thread_exit
  <2>2. PICK u : /\ k' = rt_schedule(u)
                 /\ Core(u, {}) /\ CurrentOK(u) /\ IdleSchedulable(u)
                 /\ Steady(k, u, {c})
    BY <1>1, <1>8, ThreadExitCore
  <2> QED BY <1>2, <2>1, <2>2, QuietSchedule
<1>9. ~ EnterCritical(c) /\ ~ ExitCritical(c)
  BY <1>2 DEF EnterCritical, ExitCritical, PoliteCalls
<1>10. ASSUME NEW t \in Thread
       PROVE  /\ ~ rt_thread_resume_(c, t) /\ ~ rt_thread_suspend_(c, t)
              /\ ~ rt_thread_delete(c, t)
  BY <1>2 DEF rt_thread_resume_, rt_thread_suspend_, rt_thread_delete, PoliteCalls
<1> QED BY <1>3, <1>4, <1>5, <1>6, <1>7, <1>8, <1>9, <1>10 DEF Invoke

\* The idle thread's loop.
LEMMA IdleQuiet ==
  ASSUME IpcInv, IdleReap \/ IdleFree
  PROVE  \E t \in Thread : Quiet(t)
<1>1. Core(k, {}) /\ CurrentOK(k) /\ IInv /\ k \in KernelType /\ Idle \in Thread
  BY ThreadAssumption DEF IpcInv, IInv, StateOK
<1>2. CASE IdleReap
  <2>1. PICK t \in Thread : \E w : Reaps(t, w)
    BY <1>1, <1>2, ReapCore
  <2>2. PICK u : Reaps(t, u)
    BY <2>1
  <2>3. /\ Core(u, {}) /\ CurrentOK(u) /\ IdleSchedulable(u)
        /\ u.stat = k.stat /\ Steady(k, u, {}) /\ Held(u, t)
        /\ k' = rt_schedule(u) \/ k' = SetStat(rt_schedule(u), t, "NONE")
    BY <2>2 DEF Reaps
  <2>4. pc[t].at \in Label
    <3>1. k.stat[t] \notin Runnable
      BY <2>3 DEF Held, Runnable
    <3>2. \A q \in Queue : t \notin Members(k.list[q])
      BY <2>3 DEF Held, Unlinked, Steady, Head_
    <3> QED BY <3>1, <3>2, BlockedAtLabel
  <2>5. Steady(k, u, {t}) /\ u.lock = 0
    BY <2>3 DEF Steady, IpcInv
  <2>6. CASE k' = rt_schedule(u)
    BY <2>3, <2>4, <2>5, <2>6, QuietSchedule
  <2>7. CASE k' = SetStat(rt_schedule(u), t, "NONE")
    <3> DEFINE w == rt_schedule(u)
    <3>1. w.stat[w.current] = "RUNNING"
      BY <2>3, <2>5, ScheduleRuns
    <3>2. Core(w, {}) /\ Moves(u, w)
      BY <2>3, ScheduleCore
    <3>3. Held(w, t)
      BY <2>3, <3>2, MovesFacts
    <3>4. k' = SetStat(w, t, "NONE")
      BY <2>7
    <3> HIDE DEF w
    <3>5. w \in KernelType /\ t # w.current
      BY <3>2, <3>3 DEF Core, Held
    <3>6. /\ k'.list = w.list /\ k'.current = w.current /\ k'.lock = w.lock
          /\ \A x \in Thread \ {t} :
               /\ k'.stat[x] = w.stat[x] /\ k'.prio[x] = w.prio[x]
               /\ k'.timer[x] = w.timer[x] /\ k'.err[x] = w.err[x]
      BY <3>4, <3>5 DEF SetStat, KernelType
    <3>7. Steady(w, k', {t})
      BY <3>6, FieldsLocal, LocalSteady
    <3>8. Steady(k, k', {t})
      BY <2>5, <3>2, <3>7, MovesSteady, SteadyTrans
    <3>9. k'.stat[k'.current] = "RUNNING"
      BY <3>1, <3>5, <3>6 DEF KernelType
    <3> QED BY <2>4, <3>8, <3>9 DEF Quiet, CurrentRuns
  <2> QED BY <2>3, <2>6, <2>7
<1>3. CASE IdleFree
  <2> DEFINE t == pc[Idle].arg
  <2>1. Executes(Idle, "idle_free") /\ "idle_free" \in Label
        /\ "idle_free" \notin {"sleep_sched", "ipc_sched"}
    BY <1>3 DEF IdleFree, Label
  <2>2. Idle = k.current /\ pc[Idle].at = "idle_free" /\ t \in Thread
    BY <1>1, <2>1, ExecutesFacts
  <2>3. Held(k, t)
    BY <1>1, <2>2 DEF IInv, HeldThreads, Holds
  <2>4. t # Idle /\ pc[t].at \in Label
    BY <2>2, <2>3, HeldAtLabel DEF Held
  <2>5. k' = SetStat(k, t, "NONE")
    BY <1>3 DEF IdleFree
  <2> HIDE DEF t
  <2>6. /\ k'.list = k.list /\ k'.current = k.current /\ k'.lock = k.lock
        /\ \A x \in Thread \ {t} :
             /\ k'.stat[x] = k.stat[x] /\ k'.prio[x] = k.prio[x]
             /\ k'.timer[x] = k.timer[x] /\ k'.err[x] = k.err[x]
    BY <1>1, <2>5 DEF SetStat, KernelType
  <2>7. Local(k, k', t)
    BY <2>6, FieldsLocal
  <2> QED BY <1>1, <2>1, <2>2, <2>4, <2>7, QuietLocal
<1> QED BY <1>2, <1>3

\* The tick's charge to the current thread leaves it where it is or calls
\* rt_schedule.
LEMMA TickSliceRuns ==
  ASSUME NEW kk, Core(kk, {}), CurrentOK(kk), IdleSchedulable(kk), kk.lock = 0
  PROVE  LET u == TickSlice(kk)
         IN  \/ u.stat[u.current] = "RUNNING"
             \/ u.stat = kk.stat /\ u.current = kk.current
<1> DEFINE c == kk.current
           d == [kk EXCEPT !.slice[c] = kk.slice[c] - 1]
           e == [d EXCEPT !.slice[c] = InitTick[c], !.yld[c] = TRUE]
           u == TickSlice(kk)
<1>1. kk \in KernelType /\ c \in Thread
  BY DEF Core, KernelType
<1>2. u = IF d.slice[c] = 0 THEN rt_schedule(e) ELSE d
  BY DEF TickSlice
<1>3. CASE d.slice[c] # 0
  BY <1>1, <1>2, <1>3 DEF KernelType
<1>4. CASE d.slice[c] = 0
  <2> DEFINE y == [kk.yld EXCEPT ![c] = TRUE]
             s == [kk.slice EXCEPT ![c] = InitTick[c]]
  <2>1. y \in [Thread -> BOOLEAN]
    BY <1>1 DEF KernelType
  <2>2. s \in [Thread -> Nat]
    BY <1>1, ThreadAssumption DEF KernelType
  <2>3. e = [kk EXCEPT !.slice = s, !.yld = y]
    BY <1>1 DEF KernelType
  <2> HIDE DEF y, s
  <2>4. /\ e \in KernelType
        /\ e.list = kk.list /\ e.group = kk.group /\ e.current = kk.current
        /\ e.stat = kk.stat /\ e.prio = kk.prio /\ e.timer = kk.timer
        /\ e.lock = kk.lock
    BY <1>1, <2>1, <2>2, <2>3 DEF KernelType
  <2> HIDE DEF e
  <2>5. Core(e, {}) /\ CurrentOK(e)
    BY <2>4, SameCore
  <2>6. IdleSchedulable(e) /\ e.lock = 0
    BY <2>4 DEF IdleSchedulable
  <2>7. rt_schedule(e).stat[rt_schedule(e).current] = "RUNNING"
    BY <2>5, <2>6, ScheduleRuns
  <2> QED BY <1>2, <1>4, <2>7
<1> QED BY <1>3, <1>4

\* The tick interrupt.
LEMMA TickQuiet ==
  ASSUME IpcInv, rt_tick_increase \/ TickIsr
  PROVE  \E t \in Thread : Quiet(t)
<1>1. /\ Core(k, {}) /\ CurrentOK(k) /\ IInv /\ k \in KernelType /\ Idle \in Thread
      /\ IdleSchedulable(k) /\ k.lock = 0 /\ CurrentRuns(k, pc)
      /\ k.current \in Thread
  BY ThreadAssumption DEF IpcInv, IInv, StateOK, KernelType
<1>2. pc[Idle].at \in Label
  BY <1>1 DEF IInv, Labels, LabelOK, Label
<1>3. CASE rt_tick_increase
  <2> DEFINE u == TickSlice(k)
  <2>1. k' = TickTimers(u) /\ UNCHANGED pc
    BY <1>3 DEF rt_tick_increase
  <2>2. Core(u, {}) /\ CurrentOK(u) /\ Steady(k, u, {})
    BY <1>1, TickSliceCore DEF IInv, SliceOK
  <2>3. \/ u.stat[u.current] = "RUNNING"
        \/ u.stat = k.stat /\ u.current = k.current
    BY <1>1, TickSliceRuns
  <2> HIDE DEF u
  <2>4. /\ k'.stat = u.stat /\ k'.lock = u.lock /\ k'.list = u.list
        /\ k'.current = u.current /\ k'.err = u.err
    BY <2>1, <2>2, TickTimersCore
  <2>5. Steady(k, k', {Idle})
    BY <2>2, <2>4 DEF Steady
  <2>6. CurrentRuns(k', pc')
    BY <1>1, <2>1, <2>3, <2>4 DEF CurrentRuns
  <2> QED BY <1>1, <1>2, <2>5, <2>6 DEF Quiet
<1>4. ASSUME NEW t \in Thread, TimerFires(t) PROVE Quiet(t)
  <2> DEFINE u == Wake(k, t)
             e == [rt_timer_stop(k, t) EXCEPT !.err[t] = "ETIMEOUT"]
             r == rt_list_remove(e, t)
  <2>1. k.timer[t] = 0 /\ k' = rt_thread_timeout(k, t) /\ UNCHANGED pc
    BY <1>4 DEF TimerFires, Expired
  <2>2. k.stat[t] = "SUSPEND" /\ t # Idle
    BY <1>1, <2>1 DEF Core, StatOK, Off, IdleSchedulable
  <2>3. /\ Core(u, {}) /\ CurrentOK(u) /\ Local(k, u, t)
        /\ u.stat[t] \in {"READY", "RUNNING"}
        /\ rt_thread_timeout(k, t) = rt_schedule(u)
    BY <1>1, <2>2, WakeCore
  <2>4. u.err[t] = "ETIMEOUT"
    <3>1. u.err = r.err
      BY DEF Wake, rt_schedule_insert_thread, SetStat, rt_list_insert_before
    <3>2. r.err[t] = "ETIMEOUT"
      BY <1>1 DEF rt_list_remove, rt_timer_stop, KernelType
    <3> QED BY <3>1, <3>2
  <2> HIDE DEF u, e, r
  <2>5. IdleSchedulable(u)
    BY <1>1, <2>2, <2>3, LocalFacts
  <2>6. k' = rt_schedule(u)
    BY <2>1, <2>3
  <2>7. Moves(u, k')
    BY <2>3, <2>6, ScheduleCore
  <2>8. TimedOut(t)
    BY <2>1, <2>2, <2>3, <2>4, <2>7 DEF TimedOut, Moves, Runnable
  <2>9. Steady(k, u, {t})
    BY <2>3, LocalSteady
  <2> QED BY <2>3, <2>5, <2>6, <2>8, <2>9, QuietSchedule
<1>5. CASE TickEnds
  <2>1. k' = k /\ pc' = pc
    BY <1>5 DEF TickEnds
  <2>2. Steady(k, k', {Idle})
    BY <2>1 DEF Steady
  <2> QED BY <1>1, <1>2, <2>1, <2>2 DEF Quiet
<1> QED BY <1>3, <1>4, <1>5 DEF TickIsr

\* A step moves a thread only between labels that are not those of IPC code.
Unmoved(t) == pc'[t] = pc[t] \/ (pc[t].at \in Label /\ pc'[t].at \in Label)

\* Every step of the scheduler, the thread API and the tick interrupt keeps the
\* invariant and disturbs at most one thread, which is not in IPC code unless
\* its timer has fired.
LEMMA NextIpcInv ==
  ASSUME Polite, IpcInv, Next
  PROVE  /\ IpcInv' /\ \A x \in Thread : Unmoved(x)
         /\ \E t \in Thread : Quiet(t)
<1>1. IInv /\ Core(k, {}) /\ RaceFree /\ WaitersOK(k, pc)
  BY DEF IpcInv, IInv, Polite, RaceFree, PoliteCalls, RacyCalls
<1>2. IInv'
  BY <1>1, NextIInv
<1>3. PICK t \in Thread : Quiet(t)
  BY ContinueQuiet, InvokeQuiet, IdleQuiet, TickQuiet DEF Next
<1>4. ASSUME NEW x \in Thread PROVE Unmoved(x)
  <2>1. CASE UNCHANGED pc
    BY <2>1 DEF Unmoved
  <2>2. ASSUME NEW y \in Thread, NEW l \in Label, NEW a,
               pc' = [pc EXCEPT ![y] = At(l, a)],
               pc[y].at \in Label \/ Reusable(y)
        PROVE  Unmoved(x)
    <3>1. pc[y].at \in Label
      <4>1. ASSUME Reusable(y) PROVE k.stat[y] \in {"NONE", "CLOSE"}
        BY <4>1 DEF Reusable
      <4> QED BY <1>1, <2>2, <4>1, BlockedAtLabel, NotSuspended DEF Runnable
    <3>2. pc = [z \in Thread |-> pc[z]]
      BY <1>1 DEF IInv, StateOK
    <3> QED BY <2>2, <3>1, <3>2 DEF Unmoved, At
  <2> QED BY <2>1, <2>2, NextPc
<1>5. WaitersOK(k', pc')
  <2>1. Core(k', {})
    BY <1>2 DEF IInv
  <2>2. \A x \in {t} : k'.stat[x] \in Runnable \/ pc[x].at \in Label
    BY <1>3 DEF Quiet, TimedOut
  <2>3. Steady(k, k', {t}) /\ {t} \in SUBSET Thread
    BY <1>3 DEF Quiet
  <2> QED BY <1>1, <1>4, <2>1, <2>2, <2>3, WaitersKept DEF Unmoved
<1>6. k'.lock = 0 /\ CurrentRuns(k', pc')
  BY <1>3 DEF Quiet, Steady, IpcInv
<1>7. \A x \in Thread : pc'[x].at # "suspend_body"
  <2>1. \A x \in Thread : ~ Calls(x, "suspend")
    BY DEF Polite, PoliteCalls, Calls
  <2>2. pc = [z \in Thread |-> pc[z]]
    BY <1>1 DEF IInv, StateOK
  <2> QED BY <2>1, <2>2, NextPc DEF IpcInv, At
<1> QED BY <1>2, <1>3, <1>4, <1>5, <1>6, <1>7 DEF IpcInv

-----------------------------------------------------------------------------
(***************************************************************************)
(* A step of the scheduler or the thread API leaves the waiters in their   *)
(* order and with their timers; a tick lowers the timers, and a timer that *)
(* fires takes its thread out of the list.                                 *)
(***************************************************************************)
\* A context switch does not touch them.
LEMMA ScheduleUntouched ==
  ASSUME NEW kk, NEW u, NEW t, Untouched(kk, u, t), Core(u, {}), CurrentOK(u)
  PROVE  Untouched(kk, rt_schedule(u), t)
<1>1. Moves(u, rt_schedule(u))
  BY ScheduleCore
<1> QED BY <1>1 DEF Moves, Untouched

\* Nor does taking a thread off the ready queue, or putting it there.
LEMMA RemoveUntouched ==
  ASSUME NEW kk, NEW t \in Thread, Core(kk, {}),
         \A q \in Queue : t \notin Members(kk.list[q])
  PROVE  /\ Untouched(kk, rt_schedule_remove_thread(kk, t), t)
         /\ Untouched(kk, rt_list_remove(kk, t), t)
         /\ rt_list_remove(kk, t) \in KernelType
<1> DEFINE u == rt_schedule_remove_thread(kk, t)
           r == rt_list_remove(kk, t)
<1>1. Queue \subseteq Head_
  BY DEF Head_
<1>2. /\ Frame(kk, u)
      /\ \A h \in Head_ : t \notin Members(kk.list[h]) => u.list[h] = kk.list[h]
  BY RemoveThreadCore
<1>3. kk \in KernelType /\ \A h \in Head_ : Injective(kk.list[h])
  BY DEF Core
<1>4. /\ Frame(kk, r) /\ r \in KernelType
      /\ \A h \in Head_ : t \notin Members(kk.list[h]) => r.list[h] = kk.list[h]
  BY <1>3, ListRemoveFacts
<1> HIDE DEF u, r
<1>5. Untouched(kk, u, t)
  BY <1>1, <1>2 DEF Frame, Untouched
<1>6. Untouched(kk, r, t)
  BY <1>1, <1>4 DEF Frame, Untouched
<1> QED BY <1>4, <1>5, <1>6 DEF u, r

LEMMA InsertUntouched ==
  ASSUME NEW kk \in KernelType, NEW t \in Thread
  PROVE  Untouched(kk, rt_schedule_insert_thread(kk, t), t)
<1> DEFINE u == rt_schedule_insert_thread(kk, t)
<1>1. CASE t = kk.current
  <2>1. u = [kk EXCEPT !.stat[t] = "RUNNING"]
    BY <1>1 DEF rt_schedule_insert_thread, SetStat
  <2>2. u.list = kk.list /\ u.timer = kk.timer
    BY <2>1 DEF KernelType
  <2> QED BY <2>2 DEF Untouched
<1>2. CASE t # kk.current
  <2>1. /\ u.timer = kk.timer
        /\ u.list = [kk.list EXCEPT ![kk.prio[t]] = Append(kk.list[kk.prio[t]], t)]
    BY <1>2, InsertThreadFields
  <2> HIDE DEF u
  <2>2. kk.prio[t] \in Prio /\ kk.list = [h \in Head_ |-> kk.list[h]]
    BY DEF KernelType
  <2>3. \A q \in Queue : q # kk.prio[t] /\ q \in Head_
    BY <2>2, HeadAssumption DEF Head_
  <2>4. \A q \in Queue : u.list[q] = kk.list[q]
    BY <2>1, <2>2, <2>3
  <2> QED BY <2>1, <2>4 DEF Untouched, u
<1> QED BY <1>1, <1>2

\* Changes that are about one thread, one after the other.
LEMMA UntouchedTrans ==
  ASSUME NEW kk, NEW u, NEW v, NEW t, Untouched(kk, u, t), Untouched(u, v, t)
  PROVE  Untouched(kk, v, t)
BY DEF Untouched

\* Setting fields of one thread.
LEMMA FieldsUntouched ==
  ASSUME NEW kk, NEW u, NEW t, u.list = kk.list,
         \A x \in Thread \ {t} : u.timer[x] = kk.timer[x]
  PROVE  Untouched(kk, u, t)
BY DEF Untouched

\* A changed priority moves nobody in a suspend list.
LEMMA ControlUntouched ==
  ASSUME NEW kk, NEW t \in Thread, NEW p \in Prio, Core(kk, {}), CurrentOK(kk)
  PROVE  /\ Untouched(kk, ChangePriority(kk, t, p), t)
         /\ ChangePriority(kk, t, p).timer = kk.timer
<1> DEFINE u == ChangePriority(kk, t, p)
<1>1. kk \in KernelType
  BY DEF Core
<1>2. CASE kk.stat[t] = "READY"
  <2> DEFINE r == rt_schedule_remove_thread(kk, t)
             v == [r EXCEPT !.prio = [r.prio EXCEPT ![t] = p]]
  <2>1. \A q \in Queue : t \notin Members(kk.list[q])
    BY <1>2, NotSuspended
  <2>2. Untouched(kk, r, t) /\ r \in KernelType /\ Frame(kk, r)
    BY <2>1, RemoveUntouched, RemoveThreadCore DEF Core
  <2>3. u = rt_schedule_insert_thread(v, t)
    BY <1>2 DEF ChangePriority
  <2> HIDE DEF r
  <2>4. /\ v \in KernelType /\ v.list = r.list /\ v.timer = r.timer
        /\ v.current = r.current
    <3>1. [r.prio EXCEPT ![t] = p] \in [Thread -> Prio]
      BY <2>2 DEF KernelType
    <3> QED BY <2>2, <3>1 DEF KernelType
  <2> HIDE DEF v
  <2>5. Untouched(r, v, t)
    BY <2>4, FieldsUntouched
  <2>6. Untouched(v, u, t)
    BY <2>3, <2>4, InsertUntouched
  <2>7. t # kk.current
    BY <1>2 DEF CurrentOK
  <2>8. u.timer = v.timer
    <3>1. v \in KernelType /\ t # v.current
      BY <2>2, <2>4, <2>7 DEF Frame
    <3>2. rt_schedule_insert_thread(v, t).timer = v.timer
      BY ONLY <3>1, t \in Thread, InsertThreadFields
    <3> QED BY <2>3, <3>2
  <2>9. u.timer = kk.timer
    BY <2>2, <2>4, <2>8 DEF Frame
  <2> HIDE DEF u
  <2>10. Untouched(kk, u, t)
    BY <2>2, <2>5, <2>6, UntouchedTrans
  <2> QED BY <2>9, <2>10 DEF u
<1>3. CASE kk.stat[t] # "READY"
  <2>1. u = [kk EXCEPT !.prio[t] = p]
    BY <1>3 DEF ChangePriority
  <2>2. u.list = kk.list /\ u.timer = kk.timer
    BY <1>1, <2>1 DEF KernelType
  <2> QED BY <2>2, FieldsUntouched
<1> QED BY <1>2, <1>3

\* A thread at a label of the scheduler or the thread API is in no list.
LEMMA LabelNotWaiting ==
  ASSUME IpcInv, NEW t, pc[t].at \in Label
  PROVE  \A q \in Queue : t \notin Members(k.list[q])
<1>1. \A l \in Label : l \notin WaitLabels
  BY DEF Label, WaitLabels
<1> QED BY <1>1 DEF IpcInv, WaitersOK, Linked

\* The later critical sections of the thread API's calls.
LEMMA ContinueUntouched ==
  ASSUME Polite, IpcInv, NEW c \in Thread, Continue(c)
  PROVE  \E t \in Thread : pc[t].at \in Label /\ Untouched(k, k', t)
<1>1. Core(k, {}) /\ CurrentOK(k) /\ IInv /\ k \in KernelType
  BY DEF IpcInv, IInv, StateOK
<1>2. RaceFree
  BY DEF Polite, RaceFree, RacyCalls, PoliteCalls
<1>3. CASE StartupUnlink(c) \/ StartupInsert(c)
  <2> DEFINE a == pc[c].arg
             r == rt_list_remove(k, a)
  <2>1. PICK l \in {"startup_unlink", "startup_insert"} : Executes(c, l)
    BY <1>3 DEF StartupUnlink, StartupInsert
  <2>2. l \in Label /\ l \in HoldLabels
    BY DEF Label, HoldLabels
  <2>3. a \in Thread /\ pc[c].at = l
    BY <1>1, <2>1, <2>2, ExecutesFacts
  <2>4. Held(k, a)
    BY <1>1, <2>1, <2>3 DEF IInv, HeldThreads, Holds
  <2>5. pc[a].at \in Label
    BY <2>3, <2>4, HeldAtLabel
  <2>6. CASE StartupInsert(c)
    BY <1>1, <2>3, <2>5, <2>6, InsertUntouched DEF StartupInsert
  <2>7. CASE StartupUnlink(c)
    <3>1. Untouched(k, r, a) /\ r \in KernelType
      BY <1>1, <2>3, <2>5, LabelNotWaiting, RemoveUntouched
    <3>2. k' = rt_timer_stop(r, a)
      BY <2>7 DEF StartupUnlink, ResumeUnlink
    <3> HIDE DEF r
    <3>3. k'.list = r.list /\ \A x \in Thread \ {a} : k'.timer[x] = r.timer[x]
      BY <3>1, <3>2 DEF rt_timer_stop, KernelType
    <3>4. Untouched(k, k', a)
      BY <3>1, <3>3, FieldsUntouched, UntouchedTrans
    <3> QED BY <2>3, <2>5, <3>4
  <2> QED BY <1>3, <2>6, <2>7
<1>4. CASE Schedule(c) \/ YieldSchedule(c) \/ SleepSchedule(c)
  <2>1. pc[c].at \in Label /\ k' = rt_schedule(k)
    BY <1>4 DEF Schedule, YieldSchedule, SleepSchedule, Label, Executes
  <2>2. Untouched(k, k, c)
    BY DEF Untouched
  <2> QED BY <1>1, <2>1, <2>2, ScheduleUntouched
<1>5. CASE SleepEnd(c)
  <2>1. pc[c].at \in Label
    BY <1>5 DEF SleepEnd, Label, Executes
  <2>2. k'.list = k.list /\ k'.timer = k.timer
    BY <1>1, <1>5 DEF SleepEnd, KernelType
  <2> QED BY <2>1, <2>2, FieldsUntouched
<1>6. ~ SuspendStep(c)
  BY DEF SuspendStep, Executes, IpcInv
<1> QED BY <1>1, <1>2, <1>3, <1>4, <1>5, <1>6, NoRacyStep DEF Continue

\* The calls of application threads.
LEMMA InvokeUntouched ==
  ASSUME Polite, IpcInv, NEW c \in Thread, Invoke(c)
  PROVE  \E t \in Thread : pc[t].at \in Label /\ Untouched(k, k', t)
<1>1. Core(k, {}) /\ CurrentOK(k) /\ IInv /\ k \in KernelType
  BY DEF IpcInv, IInv, StateOK
<1>2. ASSUME NEW a, Calls(c, a)
      PROVE  /\ pc[c].at \in Label /\ k.stat[c] = "RUNNING" /\ a \in PoliteCalls
             /\ \A q \in Queue : c \notin Members(k.list[q])
  <2>1. Executes(c, "run") /\ <<c, a>> \in May
    BY <1>2 DEF Calls
  <2>2. a \in PoliteCalls
    BY <2>1 DEF Polite
  <2>3. pc[c].at \in Label
    BY <2>1 DEF Executes, Label
  <2>4. k.stat[c] = "RUNNING"
    BY <2>1, ExecutesRuns
  <2> QED BY <2>2, <2>3, <2>4, LabelNotWaiting
<1>3. ASSUME NEW t \in Thread, rt_thread_create(c, t)
      PROVE  pc[t].at \in Label /\ Untouched(k, k', t)
  <2>1. k.stat[t] \in {"NONE", "CLOSE"}
    BY <1>3 DEF rt_thread_create, Reusable
  <2>2. pc[t].at \in Label
    BY <1>1, <2>1, BlockedAtLabel, NotSuspended DEF Runnable
  <2>3. k' = [k EXCEPT !.stat = [k.stat EXCEPT ![t] = "INIT"],
                       !.yld = [k.yld EXCEPT ![t] = FALSE],
                       !.prio = [k.prio EXCEPT ![t] = InitPrio[t]],
                       !.slice = [k.slice EXCEPT ![t] = InitTick[t]],
                       !.timer = [k.timer EXCEPT ![t] = Off],
                       !.err = [k.err EXCEPT ![t] = "EOK"]]
    BY <1>1, <1>3 DEF rt_thread_create, SetStat, KernelType
  <2>4. k'.list = k.list /\ \A x \in Thread \ {t} : k'.timer[x] = k.timer[x]
    BY <1>1, <2>3 DEF KernelType
  <2> QED BY <2>2, <2>4, FieldsUntouched
<1>4. ASSUME NEW t \in Thread, rt_thread_startup(c, t)
      PROVE  Calls(c, "startup") /\ Untouched(k, k', c)
  <2>1. Calls(c, "startup")
    BY <1>4 DEF rt_thread_startup
  <2>2. k'.list = k.list /\ k'.timer = k.timer
    BY <1>1, <1>4 DEF rt_thread_startup, SetStat, KernelType
  <2> QED BY <2>1, <2>2, FieldsUntouched
<1>5. ASSUME NEW t \in Thread, NEW p \in Prio, rt_thread_control(c, t, p)
      PROVE  Calls(c, "control") /\ Untouched(k, k', c)
  <2>1. Calls(c, "control") /\ Untouched(k, k', t) /\ k'.timer = k.timer
    BY <1>1, <1>5, ControlUntouched DEF rt_thread_control
  <2> QED BY <2>1 DEF Untouched
<1>6. ASSUME NEW d \in Timeout, rt_thread_sleep(c, d)
      PROVE  Calls(c, "sleep") /\ Untouched(k, k', c)
  <2> DEFINE r == rt_schedule_remove_thread(k, c)
             s == SuspendBody(k, c)
  <2>1. /\ Calls(c, "sleep")
        /\ k.stat[c] = "RUNNING" /\ \A q \in Queue : c \notin Members(k.list[q])
        /\ k' = rt_timer_start(rt_thread_suspend(k, c), c, d)
    BY <1>2, <1>6 DEF rt_thread_sleep
  <2>2. k' = rt_timer_start(s, c, d) /\ s = rt_timer_stop(SetStat(r, c, "SUSPEND"), c)
    BY <2>1 DEF rt_thread_suspend, CanSuspend, SuspendBody
  <2>3. Untouched(k, r, c) /\ r \in KernelType
    BY <1>1, <2>1, RemoveUntouched, RemoveThreadCore DEF Core
  <2> HIDE DEF r, s
  <2>4. s = [r EXCEPT !.stat = [r.stat EXCEPT ![c] = "SUSPEND"],
                      !.timer = [r.timer EXCEPT ![c] = Off]]
    BY <2>2, <2>3 DEF SetStat, rt_timer_stop, KernelType
  <2>5. k' = [s EXCEPT !.timer = [s.timer EXCEPT ![c] = d]]
    BY <2>2 DEF rt_timer_start
  <2>6. s.list = r.list /\ s.timer = [r.timer EXCEPT ![c] = Off]
    BY <2>3, <2>4 DEF KernelType
  <2>7. k'.list = s.list /\ k'.timer = [s.timer EXCEPT ![c] = d]
    BY <2>3, <2>4, <2>5 DEF KernelType
  <2>8. k'.list = r.list /\ \A x \in Thread \ {c} : k'.timer[x] = r.timer[x]
    BY <2>3, <2>6, <2>7 DEF KernelType
  <2> QED BY <2>1, <2>3, <2>8, FieldsUntouched, UntouchedTrans
<1>7. CASE rt_thread_yield(c)
  <2>1. Calls(c, "yield") /\ k' = k
    BY <1>7 DEF rt_thread_yield
  <2> QED BY <1>2, <2>1 DEF Untouched
<1>8. CASE rt_thread_exit(c)
  <2>1. Calls(c, "exit")
    BY <1>8 DEF rt_thread_exit
  <2>2. PICK u : /\ k' = rt_schedule(u) /\ Core(u, {}) /\ CurrentOK(u)
                 /\ (\A q \in Queue : c \notin Members(k.list[q])) => Untouched(k, u, c)
    BY <1>1, <1>8, ThreadExitCore
  <2> QED BY <1>2, <2>1, <2>2, ScheduleUntouched
<1>9. ~ EnterCritical(c) /\ ~ ExitCritical(c)
  BY <1>2 DEF EnterCritical, ExitCritical, PoliteCalls
<1>10. ASSUME NEW t \in Thread
       PROVE  /\ ~ rt_thread_resume_(c, t) /\ ~ rt_thread_suspend_(c, t)
              /\ ~ rt_thread_delete(c, t)
  BY <1>2 DEF rt_thread_resume_, rt_thread_suspend_, rt_thread_delete, PoliteCalls
<1>11. ASSUME NEW a, Calls(c, a), Untouched(k, k', c)
       PROVE  \E t \in Thread : pc[t].at \in Label /\ Untouched(k, k', t)
  BY <1>2, <1>11
<1> QED BY <1>3, <1>4, <1>5, <1>6, <1>7, <1>8, <1>9, <1>10, <1>11 DEF Invoke

\* The idle thread's loop.
LEMMA IdleUntouched ==
  ASSUME IpcInv, IdleReap \/ IdleFree
  PROVE  \E t \in Thread : pc[t].at \in Label /\ Untouched(k, k', t)
<1>1. Core(k, {}) /\ CurrentOK(k) /\ IInv /\ k \in KernelType /\ Idle \in Thread
  BY ThreadAssumption DEF IpcInv, IInv, StateOK
<1>2. CASE IdleReap
  <2>1. PICK t \in Thread : \E w : Reaps(t, w)
    BY <1>1, <1>2, ReapCore
  <2>2. PICK u : Reaps(t, u)
    BY <2>1
  <2>3. /\ Core(u, {}) /\ CurrentOK(u) /\ u.stat = k.stat /\ Held(u, t)
        /\ Untouched(k, u, t)
        /\ k' = rt_schedule(u) \/ k' = SetStat(rt_schedule(u), t, "NONE")
    BY <2>2 DEF Reaps
  <2>4. pc[t].at \in Label
    <3>1. k.stat[t] \notin Runnable
      BY <2>3 DEF Held, Runnable
    <3>2. \A q \in Queue : t \notin Members(k.list[q])
      BY <2>3 DEF Held, Unlinked, Untouched, Head_
    <3> QED BY <3>1, <3>2, BlockedAtLabel
  <2>5. Untouched(k, rt_schedule(u), t) /\ rt_schedule(u) \in KernelType
    BY <2>3, ScheduleUntouched, ScheduleCore DEF Core
  <2>6. CASE k' = SetStat(rt_schedule(u), t, "NONE")
    <3> DEFINE w == rt_schedule(u)
    <3>1. k' = SetStat(w, t, "NONE") /\ w \in KernelType /\ Untouched(k, w, t)
      BY <2>5, <2>6
    <3> HIDE DEF w
    <3>2. k'.list = w.list /\ k'.timer = w.timer
      BY <3>1 DEF SetStat, KernelType
    <3> QED BY <2>4, <3>1, <3>2, FieldsUntouched, UntouchedTrans
  <2> QED BY <2>3, <2>4, <2>5, <2>6
<1>3. CASE IdleFree
  <2>1. pc[Idle].at \in Label
    BY <1>3 DEF IdleFree, Executes, Label
  <2>2. k'.list = k.list /\ k'.timer = k.timer
    BY <1>1, <1>3 DEF IdleFree, SetStat, KernelType
  <2> QED BY <1>1, <2>1, <2>2, FieldsUntouched
<1> QED BY <1>2, <1>3

\* A timer that fires takes its thread out of the list it waits in.
LEMMA FiresUntouched ==
  ASSUME IpcInv, NEW t \in Thread, TimerFires(t)
  PROVE  /\ \A q \in Queue : k'.list[q] = Drop(k.list[q], t)
         /\ \A x \in Thread \ {t} : k'.timer[x] = k.timer[x]
         /\ isr = "timer"
<1> DEFINE e == [rt_timer_stop(k, t) EXCEPT !.err[t] = "ETIMEOUT"]
           r == rt_list_remove(e, t)
           u == rt_schedule_insert_thread(r, t)
<1>1. Core(k, {}) /\ CurrentOK(k) /\ k \in KernelType
  BY DEF IpcInv, IInv, StateOK
<1>2. k.timer[t] = 0 /\ k' = rt_thread_timeout(k, t) /\ isr = "timer"
  BY DEF TimerFires, Expired
<1>3. k.stat[t] = "SUSPEND"
  BY <1>1, <1>2 DEF Core, StatOK, Off
<1>4. Core(u, {}) /\ CurrentOK(u) /\ k' = rt_schedule(u) /\ Local(k, u, t)
  BY <1>1, <1>2, <1>3, WakeCore DEF Wake
<1>5. e \in KernelType /\ e.list = k.list
  <2>1. [k.timer EXCEPT ![t] = Off] \in [Thread -> Nat \cup {Off}]
    BY <1>1 DEF KernelType
  <2>2. [k.err EXCEPT ![t] = "ETIMEOUT"] \in [Thread -> Error]
    BY <1>1 DEF KernelType, Error
  <2> QED BY <1>1, <2>1, <2>2 DEF rt_timer_stop, KernelType
<1> HIDE DEF e
<1>6. r \in KernelType
  BY <1>1, <1>5, ListRemoveFacts DEF Core
<1>7. \A q \in Queue : r.list[q] = Drop(k.list[q], t)
  BY <1>5 DEF rt_list_remove, KernelType, Head_
<1> HIDE DEF r
<1>8. Untouched(r, u, t)
  BY <1>6, InsertUntouched
<1> HIDE DEF u
<1>9. Moves(u, k')
  BY <1>4, ScheduleCore
<1>10. \A q \in Queue : k'.list[q] = Drop(k.list[q], t)
  BY <1>7, <1>8, <1>9 DEF Moves, Untouched
<1>11. \A x \in Thread \ {t} : k'.timer[x] = k.timer[x]
  BY <1>4, <1>9 DEF Moves, Local
<1> QED BY <1>2, <1>10, <1>11

\* Only the tick interrupt's first step sets isr to "timer".
LEMMA NextIsr ==
  ASSUME Next
  PROVE  rt_tick_increase \/ TickIsr \/ isr' = isr
<1>1. ASSUME NEW c \in Thread, Continue(c) PROVE isr' = isr
  BY <1>1 DEF Continue, StartupUnlink, StartupInsert, ResumeUnlinkStep, ResumeInsert,
     SuspendStep, Schedule, YieldSchedule, SleepSchedule, SleepEnd, DeleteTimer,
     DeleteClose
<1>2. ASSUME NEW c \in Thread, Invoke(c) PROVE isr' = isr
  <2>1. ASSUME NEW t \in Thread, rt_thread_create(c, t) PROVE isr' = isr
    BY Zenon, <2>1 DEF rt_thread_create
  <2>2. ASSUME NEW t \in Thread, rt_thread_startup(c, t) PROVE isr' = isr
    BY Zenon, <2>2 DEF rt_thread_startup
  <2>3. ASSUME NEW t \in Thread,
               rt_thread_resume_(c, t) \/ rt_thread_suspend_(c, t) \/ rt_thread_delete(c, t)
        PROVE  isr' = isr
    BY Zenon, <2>3 DEF rt_thread_resume_, rt_thread_suspend_, rt_thread_delete
  <2>4. ASSUME NEW t \in Thread, NEW p \in Prio, rt_thread_control(c, t, p)
        PROVE  isr' = isr
    BY Zenon, <2>4 DEF rt_thread_control
  <2>5. ASSUME NEW d \in Timeout, rt_thread_sleep(c, d) PROVE isr' = isr
    BY Zenon, <2>5 DEF rt_thread_sleep
  <2>6. CASE rt_thread_yield(c) \/ rt_thread_exit(c) \/ EnterCritical(c) \/ ExitCritical(c)
    BY Zenon, <2>6 DEF rt_thread_yield, rt_thread_exit, EnterCritical, ExitCritical
  <2> QED BY <1>2, <2>1, <2>2, <2>3, <2>4, <2>5, <2>6 DEF Invoke
<1>3. CASE IdleReap \/ IdleFree
  BY Zenon, <1>3 DEF IdleReap, IdleFree
<1> QED BY <1>1, <1>2, <1>3 DEF Next

\* The timer of a thread after a step, which may be a tick.
Ticked(d) ==
  IF isr = "none" /\ isr' = "timer" /\ d > 0 THEN d - 1 ELSE d

\* What a step of the scheduler, the thread API or the tick interrupt does to
\* the suspend lists and to the timers of the waiters.
LEMMA NextWaiters ==
  ASSUME Polite, IpcInv, Next
  PROVE  /\ \/ \A q \in Queue : k'.list[q] = k.list[q]
            \/ \E t \in Thread : \A q \in Queue : k'.list[q] = Drop(k.list[q], t)
         /\ \A q \in Queue : \A x \in Members(k'.list[q]) :
              k'.timer[x] = Ticked(k.timer[x])
<1>1. /\ Core(k, {}) /\ CurrentOK(k) /\ IInv /\ k.lock = 0 /\ k.current \in Thread
  BY DEF IpcInv, IInv, StateOK, KernelType
<1>2. /\ Core(k', {}) /\ \A q \in Queue : \A x \in Members(k'.list[q]) : x \in Thread
  <2>1. Core(k', {})
    BY NextIpcInv DEF IpcInv, IInv
  <2> QED BY <2>1, MembersAre
<1>3. ASSUME NEW t \in Thread, pc[t].at \in Label, Untouched(k, k', t),
             ~ (isr = "none" /\ isr' = "timer")
      PROVE  /\ \A q \in Queue : k'.list[q] = k.list[q]
             /\ \A q \in Queue : \A x \in Members(k'.list[q]) :
                  k'.timer[x] = Ticked(k.timer[x])
  <2>1. \A q \in Queue : t \notin Members(k.list[q])
    BY <1>3, LabelNotWaiting
  <2> QED BY <1>2, <1>3, <2>1 DEF Untouched, Ticked
<1>4. CASE rt_tick_increase
  <2> DEFINE u == TickSlice(k)
  <2>1. k' = TickTimers(u) /\ isr = "none" /\ isr' = "timer"
    BY <1>4 DEF rt_tick_increase
  <2>2. /\ Core(u, {}) /\ CurrentOK(u)
        /\ u.timer = k.timer /\ \A q \in Queue : u.list[q] = k.list[q]
    BY <1>1, TickSliceCore DEF IInv, SliceOK
  <2> HIDE DEF u
  <2>3. /\ k'.list = u.list
        /\ \A x \in Thread :
             k'.timer[x] = IF u.timer[x] > 0 THEN u.timer[x] - 1 ELSE u.timer[x]
    BY <2>1, <2>2, TickTimersCore
  <2> QED BY <1>2, <2>1, <2>2, <2>3 DEF Ticked
<1>5. ASSUME NEW t \in Thread, TimerFires(t)
      PROVE  /\ \A q \in Queue : k'.list[q] = Drop(k.list[q], t)
             /\ \A q \in Queue : \A x \in Members(k'.list[q]) :
                  k'.timer[x] = Ticked(k.timer[x])
  <2>1. /\ \A q \in Queue : k'.list[q] = Drop(k.list[q], t)
        /\ \A x \in Thread \ {t} : k'.timer[x] = k.timer[x]
        /\ isr = "timer"
    BY <1>5, FiresUntouched
  <2>2. \A q \in Queue : t \notin Members(k'.list[q])
    <3>1. \A q \in Queue : k.list[q] \in Seq(Thread) /\ Injective(k.list[q])
      BY <1>1 DEF Core, KernelType, Head_
    <3> QED BY <2>1, <3>1, DropFacts
  <2> QED BY <1>2, <2>1, <2>2 DEF Ticked
<1>6. CASE TickEnds
  <2>1. k' = k /\ isr = "timer"
    BY <1>6 DEF TickEnds
  <2> QED BY <2>1 DEF Ticked
<1>7. CASE ~ rt_tick_increase /\ ~ TickIsr
  <2>1. isr' = isr
    BY <1>7, NextIsr
  <2>2. PICK t \in Thread : pc[t].at \in Label /\ Untouched(k, k', t)
    BY <1>7, ContinueUntouched, InvokeUntouched, IdleUntouched DEF Next
  <2> QED BY <1>3, <2>1, <2>2
<1> QED BY <1>4, <1>5, <1>6, <1>7 DEF TickIsr

-----------------------------------------------------------------------------
(***************************************************************************)
(* Joining a suspend list.                                                 *)
(***************************************************************************)
\* InsertAt puts an element in front of the i-th one.
LEMMA InsertAtMembers ==
  ASSUME NEW T, NEW s \in Seq(T), NEW t \in T, Injective(s), t \notin Members(s),
         NEW i \in DOMAIN s
  PROVE  /\ InsertAt(s, i, t) \in Seq(T)
         /\ Injective(InsertAt(s, i, t))
         /\ Members(InsertAt(s, i, t)) = Members(s) \cup {t}
<1> DEFINE r == InsertAt(s, i, t)
<1>1. i \in 1 .. Len(s) /\ Len(s) \in Nat /\ DOMAIN s = 1 .. Len(s)
  OBVIOUS
<1>2. /\ r \in Seq(T) /\ Len(r) = Len(s) + 1
      /\ \A j \in 1 .. Len(s) + 1 :
           r[j] = IF j < i THEN s[j] ELSE IF j = i THEN t ELSE s[j - 1]
  <2> DEFINE a == SubSeq(s, 1, i - 1)
             b == SubSeq(s, i, Len(s))
  <2>1. a \in Seq(T) /\ Len(a) = i - 1 /\ \A j \in 1 .. i - 1 : a[j] = s[j]
    BY <1>1
  <2>2. /\ b \in Seq(T) /\ Len(b) = Len(s) - i + 1
        /\ \A j \in 1 .. Len(s) - i + 1 : b[j] = s[i + j - 1]
    BY <1>1
  <2>3. r = a \o <<t>> \o b
    BY DEF InsertAt
  <2> HIDE DEF a, b, r
  <2>4. /\ a \o <<t>> \in Seq(T) /\ Len(a \o <<t>>) = i
        /\ \A j \in 1 .. i : (a \o <<t>>)[j] = IF j < i THEN s[j] ELSE t
    BY <1>1, <2>1
  <2> DEFINE c == a \o <<t>>
  <2>5. c \in Seq(T) /\ Len(c) = i /\ r = c \o b
        /\ \A j \in 1 .. i : c[j] = IF j < i THEN s[j] ELSE t
    BY <2>3, <2>4
  <2> HIDE DEF c
  <2>6. r \in Seq(T) /\ Len(r) = Len(s) + 1
    <3>1. c \in Seq(T) /\ b \in Seq(T) /\ r = c \o b
      BY <2>2, <2>5
    <3>2. r \in Seq(T) /\ Len(r) = Len(c) + Len(b)
      BY <3>1, ConcatProperties
    <3>3. Len(c) = i /\ Len(b) = Len(s) - i + 1 /\ i \in Nat /\ Len(s) \in Nat
      BY <1>1, <2>2, <2>5
    <3> QED BY <3>2, <3>3
  <2>7. ASSUME NEW j \in 1 .. Len(s) + 1
        PROVE  r[j] = IF j < i THEN s[j] ELSE IF j = i THEN t ELSE s[j - 1]
    <3>1. r[j] = IF j <= i THEN c[j] ELSE b[j - i]
      BY <1>1, <2>2, <2>5, <2>7
    <3>2. CASE j <= i
      BY <1>1, <2>5, <2>7, <3>1, <3>2
    <3>3. CASE j > i
      <4>1. j - i \in 1 .. Len(s) - i + 1 /\ i + (j - i) - 1 = j - 1
        BY <1>1, <2>7, <3>3
      <4>2. b[j - i] = s[j - 1]
        BY <2>2, <4>1
      <4> QED BY <1>1, <3>1, <3>3, <4>2
    <3> QED BY <1>1, <2>7, <3>2, <3>3
  <2> QED BY <2>6, <2>7
<1> HIDE DEF r
<1>3. DOMAIN r = 1 .. Len(s) + 1
  BY <1>1, <1>2
<1>4. \A j \in DOMAIN s : s[j] # t
  BY DEF Members
<1>5. Injective(r)
  <2>1. ASSUME NEW j \in DOMAIN r, NEW l \in DOMAIN r, r[j] = r[l], j < l
        PROVE  FALSE
    <3> DEFINE From(n) == IF n < i THEN n ELSE n - 1
    <3>1. ASSUME NEW n \in DOMAIN r
          PROVE  n \in Nat /\ (n # i => From(n) \in DOMAIN s /\ r[n] = s[From(n)])
                 /\ (n = i => r[n] = t)
      BY <1>1, <1>2, <1>3, <3>1
    <3>2. CASE j = i \/ l = i
      <4> HIDE DEF From
      <4> QED BY <1>1, <1>4, <2>1, <3>1, <3>2
    <3>3. CASE j # i /\ l # i
      <4>1. From(j) # From(l)
        BY <1>1, <2>1, <3>1, <3>3
      <4> HIDE DEF From
      <4> QED BY <2>1, <3>1, <3>3, <4>1 DEF Injective
    <3> QED BY <3>2, <3>3
  <2> QED BY <1>1, <1>3, <2>1 DEF Injective
<1>6. Members(r) = Members(s) \cup {t}
  <2>1. ASSUME NEW j \in DOMAIN r PROVE r[j] \in Members(s) \cup {t}
    <3>1. CASE j < i
      BY <1>1, <1>2, <1>3, <2>1, <3>1 DEF Members
    <3>2. CASE j = i
      BY <1>1, <1>2, <1>3, <2>1, <3>2
    <3>3. CASE j > i
      <4>1. j - 1 \in DOMAIN s /\ r[j] = s[j - 1]
        BY <1>1, <1>2, <1>3, <2>1, <3>3
      <4> QED BY <4>1 DEF Members
    <3> QED BY <1>1, <1>3, <3>1, <3>2, <3>3
  <2>2. ASSUME NEW j \in DOMAIN s PROVE s[j] \in Members(r)
    <3>1. CASE j < i
      BY <1>1, <1>2, <1>3, <2>2, <3>1 DEF Members
    <3>2. CASE j >= i
      <4>1. j + 1 \in DOMAIN r /\ r[j + 1] = s[j]
        BY <1>1, <1>2, <1>3, <2>2, <3>2
      <4> QED BY <4>1 DEF Members
    <3> QED BY <1>1, <3>1, <3>2
  <2>3. t \in Members(r)
    BY <1>1, <1>2, <1>3 DEF Members
  <2> QED BY <2>1, <2>2, <2>3 DEF Members
<1> QED BY <1>2, <1>5, <1>6 DEF r

\* The fields of the kernel that joining a list leaves alone.
OnlyLists(kk, u) ==
  /\ u.stat = kk.stat /\ u.prio = kk.prio /\ u.timer = kk.timer
  /\ u.lock = kk.lock /\ u.err = kk.err /\ u.slice = kk.slice
  /\ u.group = kk.group /\ u.current = kk.current

\* Wherever in the list the thread is put, it becomes a member of this list
\* and of no other.
LEMMA InsertWaiterIs ==
  ASSUME NEW kk \in KernelType, NEW q \in Queue, NEW t \in Thread,
         Injective(kk.list[q]), t \notin Members(kk.list[q])
  PROVE  LET u == InsertWaiter(kk, q, t)
         IN  /\ u \in KernelType /\ OnlyLists(kk, u)
             /\ Injective(u.list[q])
             /\ Members(u.list[q]) = Members(kk.list[q]) \cup {t}
             /\ \A h \in Head_ \ {q} : u.list[h] = kk.list[h]
<1> DEFINE s == kk.list[q]
           later == {i \in DOMAIN s : kk.prio[t] < kk.prio[s[i]]}
           first == CHOOSE i \in later : \A j \in later : i <= j
           r == IF Flag[q] = "PRIO" /\ later # {}
                  THEN InsertAt(s, first, t) ELSE Append(s, t)
           u == InsertWaiter(kk, q, t)
<1>1. q \in Head_ /\ s \in Seq(Thread) /\ kk.list \in [Head_ -> Seq(Thread)]
  BY DEF KernelType, Head_
<1>2. /\ r \in Seq(Thread) /\ Injective(r) /\ Members(r) = Members(s) \cup {t}
  <2>1. CASE Flag[q] = "PRIO" /\ later # {}
    <3>1. later \in SUBSET Nat
      BY <1>1
    <3>2. first \in DOMAIN s
      <4> HIDE DEF later
      <4>1. first \in later
        BY <2>1, <3>1, SmallestExists
      <4> QED BY <4>1 DEF later
    <3> HIDE DEF later, first
    <3> QED BY <1>1, <2>1, <3>2, InsertAtMembers
  <2>2. CASE ~ (Flag[q] = "PRIO" /\ later # {})
    <3> HIDE DEF later, first
    <3> QED BY <1>1, <2>2, AppendMembers
  <2> QED BY <2>1, <2>2
<1>3. u = [kk EXCEPT !.list = [kk.list EXCEPT ![q] = r]]
  <2>1. u = IF Flag[q] = "PRIO" /\ later # {}
              THEN [kk EXCEPT !.list = [kk.list EXCEPT ![q] = InsertAt(s, first, t)]]
              ELSE [kk EXCEPT !.list = [kk.list EXCEPT ![q] = Append(s, t)]]
    BY DEF InsertWaiter, rt_list_insert_before
  <2> HIDE DEF later, first, s, u
  <2> QED BY <2>1
<1> HIDE DEF r, s, u, later, first
<1>4. [kk.list EXCEPT ![q] = r] \in [Head_ -> Seq(Thread)]
  BY <1>1, <1>2
<1>5. u \in KernelType /\ u.list = [kk.list EXCEPT ![q] = r] /\ OnlyLists(kk, u)
  BY <1>3, <1>4 DEF KernelType, OnlyLists
<1>6. u.list[q] = r /\ \A h \in Head_ \ {q} : u.list[h] = kk.list[h]
  BY <1>1, <1>5
<1> QED BY <1>2, <1>5, <1>6 DEF u, s

\* Thread x is where it was, except perhaps in the ready queue.
Stands(kk, u, x) ==
  /\ u.stat[x] = kk.stat[x] /\ u.err[x] = kk.err[x] /\ u.timer[x] = kk.timer[x]
  /\ \A h \in Queue \cup {Defunct} :
       x \in Members(u.list[h]) <=> x \in Members(kk.list[h])
  /\ Unlinked(u, x) <=> Unlinked(kk, x)

\* A thread stands if it stays in the lists it is in.
LEMMA StandsIs ==
  ASSUME NEW kk, NEW u, NEW x,
         u.stat[x] = kk.stat[x], u.err[x] = kk.err[x], u.timer[x] = kk.timer[x],
         \A h \in Head_ : x \in Members(u.list[h]) <=> x \in Members(kk.list[h])
  PROVE  Stands(kk, u, x)
<1>1. Unlinked(u, x) <=> Unlinked(kk, x)
  BY DEF Unlinked
<1> QED BY <1>1 DEF Stands, Head_

\* One change after another.
LEMMA StandsTrans ==
  ASSUME NEW kk, NEW u, NEW v, NEW x, Stands(kk, u, x), Stands(u, v, x)
  PROVE  Stands(kk, v, x)
BY DEF Stands

\* What a blocking call does to the kernel: the caller t, SUSPENDed and without
\* an error, is in the list of q; nothing else has changed for anybody.
Blocks(kk, u, q, t) ==
  /\ u.lock = kk.lock /\ u.current = kk.current /\ u.slice = kk.slice
  /\ u.stat[t] = "SUSPEND" /\ u.err[t] = "EOK"
  /\ \A x \in Thread \ {t} : Stands(kk, u, x)
  /\ t \in Members(u.list[q])
  /\ \A h \in Head_ \ {q} : t \notin Members(u.list[h])

\* The caller t has suspended itself: it is in no list yet.
SelfSuspended(kk, t) == rt_thread_suspend([kk EXCEPT !.err[t] = "EOK"], t)

LEMMA SelfSuspendedIs ==
  ASSUME NEW kk, NEW t \in Thread, Core(kk, {}), CurrentOK(kk), kk.stat[t] = "RUNNING"
  PROVE  LET s == SelfSuspended(kk, t)
         IN  /\ Core(s, {}) /\ CurrentOK(s) /\ Local(kk, s, t)
             /\ s.stat[t] = "SUSPEND" /\ Unlinked(s, t)
             /\ s.err[t] = "EOK" /\ s.slice = kk.slice
             /\ \A x \in Thread \ {t} : s.err[x] = kk.err[x]
<1> DEFINE e == [kk EXCEPT !.err[t] = "EOK"]
           r == rt_schedule_remove_thread(e, t)
           s == SuspendBody(e, t)
<1>1. kk \in KernelType
  BY DEF Core
<1>2. /\ e \in KernelType /\ e.err[t] = "EOK"
      /\ e.list = kk.list /\ e.group = kk.group /\ e.current = kk.current
      /\ e.stat = kk.stat /\ e.prio = kk.prio /\ e.timer = kk.timer
      /\ e.lock = kk.lock /\ e.slice = kk.slice
      /\ \A x \in Thread \ {t} : e.err[x] = kk.err[x]
  <2>1. [kk.err EXCEPT ![t] = "EOK"] \in [Thread -> Error]
    BY <1>1 DEF KernelType, Error
  <2> QED BY <1>1, <2>1 DEF KernelType
<1>3. SelfSuspended(kk, t) = s
  <2>1. CanSuspend(e, t)
    BY <1>2 DEF CanSuspend
  <2> QED BY <2>1 DEF SelfSuspended, rt_thread_suspend
<1> HIDE DEF e
<1>4. Core(e, {}) /\ CurrentOK(e)
  BY <1>2, SameCore
<1>5. /\ Core(s, {}) /\ CurrentOK(s) /\ Local(e, s, t)
      /\ s.stat[t] = "SUSPEND" /\ Unlinked(s, t) /\ s.err = e.err
  BY <1>4, SuspendBodyCore
<1>6. s.slice = e.slice
  <2>1. r \in KernelType /\ r.slice = e.slice
    BY <1>4, RemoveThreadCore DEF Frame, Core
  <2>2. s = rt_timer_stop(SetStat(r, t, "SUSPEND"), t)
    BY DEF SuspendBody
  <2> HIDE DEF r, s
  <2> QED BY <2>1, <2>2 DEF rt_timer_stop, SetStat, KernelType
<1> HIDE DEF s
<1>7. Local(kk, s, t)
  BY <1>2, <1>5 DEF Local
<1> QED BY <1>2, <1>3, <1>5, <1>6, <1>7

\* t has been put somewhere into the list of q, and nothing else has changed.
Joins(s, w, q, t) ==
  /\ w \in KernelType /\ OnlyLists(s, w) /\ Injective(w.list[q])
  /\ Members(w.list[q]) = Members(s.list[q]) \cup {t}
  /\ \A h \in Head_ \ {q} : w.list[h] = s.list[h]

\* Wherever it is put, and whether its timer is then started or not, the kernel
\* stays consistent.
LEMMA JoinCore ==
  ASSUME NEW kk, NEW q \in Queue, NEW t \in Thread, NEW time \in Nat \cup {-1},
         Core(kk, {}), CurrentOK(kk), kk.stat[t] = "RUNNING",
         NEW w, Joins(SelfSuspended(kk, t), w, q, t)
  PROVE  LET u == IF time > 0 THEN rt_timer_start(w, t, time) ELSE w
         IN  Core(u, {}) /\ CurrentOK(u) /\ Blocks(kk, u, q, t)
<1> DEFINE s == SelfSuspended(kk, t)
           v == rt_timer_start(w, t, time)
           u == IF time > 0 THEN v ELSE w
<1>1. kk \in KernelType /\ q \in Head_
  BY DEF Core, Head_
<1>2. u = IF time > 0 THEN v ELSE w
  OBVIOUS
<1>5. /\ Core(s, {}) /\ CurrentOK(s) /\ Local(kk, s, t)
      /\ s.stat[t] = "SUSPEND" /\ Unlinked(s, t)
      /\ s.err[t] = "EOK" /\ s.slice = kk.slice
      /\ \A x \in Thread \ {t} : s.err[x] = kk.err[x]
  BY SelfSuspendedIs
<1>7. s \in KernelType
  BY <1>5 DEF Core
<1>8. /\ w \in KernelType /\ OnlyLists(s, w) /\ Injective(w.list[q])
      /\ Members(w.list[q]) = Members(s.list[q]) \cup {t}
      /\ \A h \in Head_ \ {q} : w.list[h] = s.list[h]
  BY DEF Joins
<1> HIDE DEF s, u
<1>9. Core(w, {}) /\ CurrentOK(w)
  <2>1. \A p \in Prio : p \in Head_ \ {q} /\ p \in Head_
    BY HeadAssumption DEF Head_
  <2>2. Defunct \in Head_ \ {q} /\ \A p \in Queue : p \in Head_
    BY HeadAssumption DEF Head_
  <2>3. \A x \in Thread : StatOK(w, x)
    <3>1. \A x \in Thread : s.prio[x] \in Prio
      BY <1>7 DEF KernelType
    <3> QED BY <1>5, <1>8, <2>1, <3>1 DEF Core, StatOK, OnlyLists
  <2>4. ListsMatchStat(w)
    <3>1. ListsMatchStat(s)
      BY <1>5 DEF Core
    <3>2. \A p \in Prio : w.list[p] = s.list[p]
      BY <1>8, <2>1
    <3>3. w.list[Defunct] = s.list[Defunct]
      BY <1>8, <2>2
    <3>4. \A p \in Queue : \A x \in Members(w.list[p]) :
            x \in Members(s.list[p]) \/ x = t
      BY <1>8, <2>2
    <3> QED BY <1>5, <1>8, <3>1, <3>2, <3>3, <3>4 DEF ListsMatchStat, OnlyLists
  <2>5. QueuesDisjoint(w)
    <3>1. QueuesDisjoint(s)
      BY <1>5 DEF Core
    <3>2. \A p \in Queue : \A x \in Thread :
            x \in Members(w.list[p]) <=>
              x \in Members(s.list[p]) \/ (p = q /\ x = t)
      BY <1>8, <2>2
    <3>3. \A p \in Queue : t \notin Members(s.list[p])
      BY <1>5, <2>2 DEF Unlinked
    <3> QED BY <3>1, <3>2, <3>3 DEF QueuesDisjoint
  <2>6. \A h \in Head_ : Injective(w.list[h])
    BY <1>5, <1>8 DEF Core
  <2>7. w.group = {p \in Prio : Members(w.list[p]) # {}}
    <3>1. \A p \in Prio : w.list[p] = s.list[p]
      BY <1>8, <2>1
    <3> QED BY <1>5, <1>8, <3>1 DEF Core, OnlyLists
  <2>8. Core(w, {})
    BY <1>8, <2>3, <2>4, <2>5, <2>6, <2>7 DEF Core
  <2> QED BY <1>5, <1>8, <2>8 DEF CurrentOK, OnlyLists
<1>10. Blocks(kk, w, q, t)
  <2>1. \A x \in Thread \ {t} :
          \A h \in Head_ : x \in Members(w.list[h]) <=> x \in Members(kk.list[h])
    BY <1>5, <1>8 DEF Local
  <2>2. \A h \in Head_ \ {q} : t \notin Members(w.list[h])
    BY <1>5, <1>8 DEF Unlinked
  <2>3. \A x \in Thread \ {t} :
          w.stat[x] = kk.stat[x] /\ w.err[x] = kk.err[x] /\ w.timer[x] = kk.timer[x]
    BY <1>5, <1>8 DEF OnlyLists, Local
  <2>4. \A x \in Thread \ {t} : Stands(kk, w, x)
    BY <2>1, <2>3, StandsIs
  <2> QED BY <1>5, <1>8, <2>2, <2>4 DEF Blocks, OnlyLists, Local
<1>11. CASE time > 0
  <2>1. time \in Nat
    BY <1>11
  <2>2. w.stat[t] = "SUSPEND"
    BY <1>10 DEF Blocks, Stands
  <2>3. /\ Core(v, {}) /\ CurrentOK(v) /\ Local(w, v, t)
        /\ v.stat = w.stat /\ v.list = w.list /\ v.err = w.err
    BY <1>9, <2>1, <2>2, TimerStartCore
  <2>4. v.slice = w.slice
    BY <1>8 DEF rt_timer_start, KernelType
  <2> HIDE DEF v
  <2>5. \A x \in Thread \ {t} : Stands(w, v, x)
    BY <2>3, StandsIs DEF Local
  <2>6. \A x \in Thread \ {t} : Stands(kk, v, x)
    BY <1>10, <2>5, StandsTrans DEF Blocks
  <2>7. Blocks(kk, v, q, t)
    BY <1>10, <2>3, <2>4, <2>6 DEF Blocks, Local
  <2> QED BY <1>11, <2>3, <2>7 DEF v
<1>12. CASE ~ time > 0
  BY <1>2, <1>9, <1>10, <1>12
<1> QED BY <1>11, <1>12 DEF u

\* The list of an object that t, which has suspended itself, joins.
LEMMA BeforeJoin ==
  ASSUME NEW kk, NEW q \in Queue, NEW t \in Thread,
         Core(kk, {}), CurrentOK(kk), kk.stat[t] = "RUNNING"
  PROVE  LET s == SelfSuspended(kk, t)
         IN  s \in KernelType /\ Injective(s.list[q]) /\ t \notin Members(s.list[q])
<1> DEFINE s == SelfSuspended(kk, t)
<1>1. Core(s, {}) /\ Unlinked(s, t) /\ q \in Head_
  BY SelfSuspendedIs DEF Head_
<1> HIDE DEF s
<1>2. s \in KernelType /\ Injective(s.list[q]) /\ t \notin Members(s.list[q])
  BY <1>1 DEF Core, Unlinked
<1> QED BY <1>2 DEF s

\* The critical section in which a caller blocks keeps the kernel consistent.
LEMMA BlockCore ==
  ASSUME NEW kk, NEW q \in Queue, NEW t \in Thread, NEW time \in Nat \cup {-1},
         Core(kk, {}), CurrentOK(kk), kk.stat[t] = "RUNNING"
  PROVE  LET u == Block(kk, q, t, time)
         IN  Core(u, {}) /\ CurrentOK(u) /\ Blocks(kk, u, q, t)
<1> DEFINE s == SelfSuspended(kk, t)
           w == InsertWaiter(s, q, t)
<1>1. Block(kk, q, t, time) = IF time > 0 THEN rt_timer_start(w, t, time) ELSE w
  BY DEF Block, rt_ipc_list_suspend, SelfSuspended
<1>2. s \in KernelType /\ Injective(s.list[q]) /\ t \notin Members(s.list[q])
  BY BeforeJoin
<1> HIDE DEF s
<1>3. Joins(s, w, q, t)
  BY <1>2, InsertWaiterIs DEF Joins
<1> HIDE DEF w
<1> QED BY <1>1, <1>3, JoinCore DEF s

\* The timer of a caller that has blocked: it is off if it waits for ever.
LEMMA BlockTimer ==
  ASSUME NEW kk, NEW q \in Queue, NEW t \in Thread, NEW time \in Nat \cup {-1},
         Core(kk, {}), CurrentOK(kk), kk.stat[t] = "RUNNING", time # 0
  PROVE  Block(kk, q, t, time).timer[t] = time
<1> DEFINE e == [kk EXCEPT !.err[t] = "EOK"]
           r == SetStat(rt_schedule_remove_thread(e, t), t, "SUSPEND")
           s == SelfSuspended(kk, t)
           w == InsertWaiter(s, q, t)
<1>1. Block(kk, q, t, time) = IF time > 0 THEN rt_timer_start(w, t, time) ELSE w
  BY DEF Block, rt_ipc_list_suspend, SelfSuspended
<1>2. s \in KernelType /\ Injective(s.list[q]) /\ t \notin Members(s.list[q])
  BY BeforeJoin
<1>3. s.timer[t] = -1
  <2>1. kk \in KernelType
    BY DEF Core
  <2>2. e.stat = kk.stat
    BY <2>1 DEF KernelType
  <2>3. s = rt_timer_stop(r, t)
    BY <2>2 DEF SelfSuspended, rt_thread_suspend, CanSuspend, SuspendBody
  <2>4. s = [r EXCEPT !.timer = [r.timer EXCEPT ![t] = Off]]
    BY <2>3 DEF rt_timer_stop
  <2> HIDE DEF s, r
  <2>5. s.timer \in [Thread -> Nat \cup {Off}]
    BY <1>2 DEF KernelType
  <2> QED BY <1>2, <2>4, <2>5 DEF Off, KernelType
<1> HIDE DEF s
<1>4. w \in KernelType /\ OnlyLists(s, w)
  BY <1>2, InsertWaiterIs
<1> HIDE DEF w
<1>5. w.timer[t] = -1
  BY <1>3, <1>4 DEF OnlyLists
<1> QED BY <1>1, <1>4, <1>5 DEF rt_timer_start, KernelType

\* An IPC call is made by a RUNNING thread that is not the idle thread.
LEMMA AsksFacts ==
  ASSUME Polite, IpcInv, NEW c \in Thread, NEW a, NEW q, Asks(c, a, q)
  PROVE  /\ Executes(c, "run") /\ pc[c].at \in Label /\ obj[q] = "live"
         /\ c = k.current /\ k.stat[c] = "RUNNING" /\ c # Idle
<1>1. Executes(c, "run") /\ <<c, a>> \in Uses /\ obj[q] = "live"
  BY DEF Asks
<1>2. c = k.current /\ k.stat[c] = "RUNNING"
  BY <1>1, ExecutesRuns
<1>3. c # Idle
  BY <1>1 DEF Polite
<1> QED BY <1>1, <1>2, <1>3 DEF Executes, Label

\* The first half of a blocking call keeps the invariant.
LEMMA BlockIpcInv ==
  ASSUME IpcInv, NEW c \in Thread, NEW q \in Queue,
         c = k.current, k.stat[c] = "RUNNING", c # Idle,
         Core(k', {}), CurrentOK(k'), Blocks(k, k', q, c),
         pc' = [pc EXCEPT ![c] = At("ipc_sched", q)], UNCHANGED isr
  PROVE  IpcInv'
<1>1. IInv /\ Core(k, {}) /\ CurrentOK(k) /\ pc = [x \in Thread |-> pc[x]]
  BY DEF IpcInv, IInv, StateOK
<1>2. c = k.current /\ k.stat[c] = "RUNNING"
  OBVIOUS
<1>3. Core(k', {}) /\ CurrentOK(k') /\ Blocks(k, k', q, c)
  OBVIOUS
<1>4. q \in Head_ /\ q # Defunct /\ Defunct \in Head_
  BY HeadAssumption DEF Head_
<1>5. IdleSchedulable(k')
  BY <1>1, <1>3, ThreadAssumption DEF IdleSchedulable, IInv, Blocks, Stands
<1>6. DefunctOK'
  <2>1. \A x \in Members(k'.list[Defunct]) : x \in Thread
    BY <1>3, <1>4 DEF Core, KernelType, Members
  <2> QED BY <1>1, <1>3, <1>4, <2>1 DEF DefunctOK, IInv, Blocks, Stands
<1>7. SliceOK'
  BY <1>1, <1>3 DEF SliceOK, IInv, Blocks, Stands
<1>8. DeadOK'
  BY <1>2, <1>3 DEF DeadOK, Blocks, Stands
<1>9. \A x \in Thread \ {c} : Held(k, x) => Held(k', x) /\ k'.stat[x] = k.stat[x]
  BY <1>3 DEF Held, Unlinked, Blocks, Stands
<1>10. LabelOK(c, "ipc_sched", q) /\ "ipc_sched" \notin HoldLabels
       /\ "ipc_sched" \notin Label
  BY DEF LabelOK, HoldLabels, RacyLabels, Label
<1>11. ~ Held(k, c)
  BY <1>2 DEF Held
<1>12. isr' \in {"none", "timer"}
  BY <1>1 DEF IInv, StateOK
<1>13. IInv'
  <2>1. \A d \in Thread \ {c} : Holds(d) => pc[d].arg # c
    BY <1>1, <1>11 DEF IInv, HeldThreads
  <2> QED BY <1>1, <1>3, <1>5, <1>6, <1>7, <1>8, <1>9, <1>10, <1>12, <2>1, StepIInv
<1>14. /\ pc'[c].at = "ipc_sched" /\ pc'[c].arg = q
       /\ \A x \in Thread \ {c} : pc'[x] = pc[x]
  BY <1>1 DEF At
<1>15. WaitersOK(k', pc')
  <2>1. WaitersOK(k, pc) /\ \A r \in Queue : r \in Head_
    BY DEF IpcInv, Head_
  <2>2. \A r \in Queue : \A x \in Members(k'.list[r]) :
          /\ x \in Thread
          /\ (x = c /\ r = q) \/ (x # c /\ x \in Members(k.list[r]))
    BY <1>3, <2>1, MembersAre DEF Blocks, Stands
  <2>3. Linked(k', pc')
    <3>1. "ipc_sched" \in WaitLabels
      BY DEF WaitLabels
    <3> QED BY <1>14, <2>1, <2>2, <3>1 DEF WaitersOK, Linked
  <2>4. Clean(k')
    BY <1>3, <2>1, <2>2 DEF WaitersOK, Clean, Blocks, Stands
  <2>5. Away(k', pc')
    <3>1. ASSUME NEW x \in Thread \ {c}, pc'[x].at \notin Label
          PROVE  k'.stat[x] \in Runnable \/ \E r \in Queue : x \in Members(k'.list[r])
      BY <1>3, <1>14, <2>1, <3>1 DEF WaitersOK, Away, Blocks, Stands
    <3>2. c \in Members(k'.list[q])
      BY <1>3 DEF Blocks, Stands
    <3> QED BY <3>1, <3>2 DEF Away
  <2> QED BY <2>3, <2>4, <2>5 DEF WaitersOK
<1>16. k'.lock = 0 /\ CurrentRuns(k', pc')
  BY <1>2, <1>3, <1>14 DEF Blocks, Stands, CurrentRuns, IpcInv
<1>17. \A x \in Thread : pc'[x].at # "suspend_body"
  BY <1>14 DEF IpcInv
<1> QED BY <1>3, <1>13, <1>15, <1>16, <1>17 DEF IpcInv

-----------------------------------------------------------------------------
(***************************************************************************)
(* Resuming waiters.                                                       *)
(***************************************************************************)
\* The threads of X have been made ready, nothing else has changed for anybody.
Resumed(kk, u, X) ==
  /\ u.lock = kk.lock /\ u.current = kk.current /\ u.slice = kk.slice
  /\ \A x \in X : u.stat[x] \in Runnable
  /\ \A x \in Thread \ X : Stands(kk, u, x)
  /\ \A h \in Queue \cup {Defunct} : Members(u.list[h]) \subseteq Members(kk.list[h])

\* rt_thread_resume of a SUSPENDed thread makes it ready and keeps its error.
LEMMA ResumeCore ==
  ASSUME NEW kk, NEW t \in Thread, Core(kk, {}), CurrentOK(kk),
         kk.stat[t] = "SUSPEND"
  PROVE  LET u == rt_thread_resume(kk, t)
         IN  /\ Core(u, {}) /\ CurrentOK(u) /\ Resumed(kk, u, {t})
             /\ u.err = kk.err
             /\ \A q \in Queue : u.list[q] = Drop(kk.list[q], t)
<1> DEFINE r == rt_list_remove(kk, t)
           s == rt_timer_stop(r, t)
           u == rt_schedule_insert_thread(s, t)
<1>1. kk \in KernelType /\ kk.current \in Thread
  BY DEF Core, KernelType
<1>2. rt_thread_resume(kk, t) = u
  BY DEF rt_thread_resume, ResumeUnlink
<1>3. Core(r, {t}) /\ Frame(kk, r) /\ r.stat = kk.stat /\ Local(kk, r, t)
  BY UnlinkCore, UnlinkLocal
<1>4. \A q \in Queue : r.list[q] = Drop(kk.list[q], t)
  BY <1>1 DEF rt_list_remove, KernelType, Head_
<1> HIDE DEF r
<1>5. r \in KernelType
  BY <1>3 DEF Core
<1>6. /\ s \in KernelType /\ s.timer[t] = Off
      /\ s.list = r.list /\ s.group = r.group /\ s.current = r.current
      /\ s.stat = r.stat /\ s.prio = r.prio /\ s.lock = r.lock
      /\ s.err = r.err /\ s.slice = r.slice
      /\ \A x \in Thread \ {t} : s.timer[x] = r.timer[x]
  <2>1. [r.timer EXCEPT ![t] = Off] \in [Thread -> Nat \cup {Off}]
    BY <1>5 DEF KernelType
  <2> QED BY <1>5, <2>1 DEF rt_timer_stop, KernelType
<1> HIDE DEF s
<1>7. Core(s, {t}) /\ Local(r, s, t)
  BY <1>3, <1>6, SetFieldsLocal
<1>8. Core(u, {})
  BY <1>6, <1>7, InsertThreadCore
<1>9. /\ Local(s, u, t)
      /\ u.stat[t] = IF t = s.current THEN "RUNNING" ELSE "READY"
  BY <1>7, InsertThreadLocal
<1>10. u.err = s.err /\ u.slice = s.slice
  BY DEF rt_schedule_insert_thread, SetStat, rt_list_insert_before
<1>11. \A q \in Queue : u.list[q] = s.list[q]
  <2>1. CASE t = s.current
    BY <1>6, <2>1 DEF rt_schedule_insert_thread, SetStat, KernelType
  <2>2. CASE t # s.current
    <3>1. u.list = [s.list EXCEPT ![s.prio[t]] = Append(s.list[s.prio[t]], t)]
      BY <1>6, <2>2, InsertThreadFields
    <3>2. s.prio[t] \in Prio /\ s.list \in [Head_ -> Seq(Thread)]
      BY <1>6 DEF KernelType
    <3>3. \A q \in Queue : q # s.prio[t] /\ q \in Head_
      BY <3>2, HeadAssumption DEF Head_
    <3> HIDE DEF u
    <3> QED BY <3>1, <3>2, <3>3
  <2> QED BY <2>1, <2>2
<1> HIDE DEF u
<1>12. Local(kk, u, t)
  BY <1>3, <1>7, <1>9, LocalTrans
<1>13. CurrentOK(u)
  <2>1. s.current = kk.current /\ u.current = kk.current
    BY <1>3, <1>6, <1>12 DEF Frame, Local
  <2>2. CASE t = kk.current
    BY <1>9, <2>1, <2>2 DEF CurrentOK
  <2>3. CASE t # kk.current
    BY <1>1, <1>12, <2>1, <2>3 DEF CurrentOK, Local
  <2> QED BY <2>2, <2>3
<1>14. u.slice = kk.slice /\ u.err = kk.err
  BY <1>3, <1>6, <1>10 DEF Frame
<1>15. Resumed(kk, u, {t})
  <2>1. \A x \in Thread \ {t} : Stands(kk, u, x)
    BY <1>12, StandsIs DEF Local
  <2> QED BY <1>9, <1>12, <1>14, <2>1 DEF Resumed, Local, Runnable
<1>16. \A q \in Queue : u.list[q] = Drop(kk.list[q], t)
  BY <1>4, <1>6, <1>11
<1> QED BY <1>2, <1>8, <1>13, <1>14, <1>15, <1>16

\* The first thread of a suspend list that is not empty.
LEMMA HeadIs ==
  ASSUME NEW kk, Core(kk, {}), NEW q \in Queue, kk.list[q] # << >>
  PROVE  /\ Head(kk.list[q]) \in Members(kk.list[q])
         /\ Head(kk.list[q]) \in Thread /\ kk.stat[Head(kk.list[q])] = "SUSPEND"
<1>1. kk.list[q] \in Seq(Thread)
  BY DEF Core, KernelType, Head_
<1>2. Head(kk.list[q]) \in Members(kk.list[q])
  BY <1>1 DEF Members
<1> QED BY <1>2, MembersAre

\* One round of rt_ipc_list_resume_all.
LEMMA ResumeErrorCore ==
  ASSUME NEW kk, Core(kk, {}), CurrentOK(kk), NEW q \in Queue, kk.list[q] # << >>
  PROVE  LET u == ResumeWithError(kk, q)
             t == Head(kk.list[q])
         IN  /\ Core(u, {}) /\ CurrentOK(u) /\ Resumed(kk, u, {t})
             /\ u.err[t] = "ERROR"
             /\ Len(u.list[q]) = Len(kk.list[q]) - 1
             /\ Members(u.list[q]) = Members(kk.list[q]) \ {t}
<1> DEFINE t == Head(kk.list[q])
           e == [kk EXCEPT !.err[t] = "ERROR"]
           u == rt_thread_resume(e, t)
<1>1. t \in Thread /\ kk.stat[t] = "SUSPEND" /\ t \in Members(kk.list[q])
  BY HeadIs
<1>2. ResumeWithError(kk, q) = u
  BY DEF ResumeWithError
<1> HIDE DEF t
<1>3. kk \in KernelType /\ kk.list[q] \in Seq(Thread) /\ Injective(kk.list[q])
  BY DEF Core, KernelType, Head_
<1>4. /\ e \in KernelType /\ e.err[t] = "ERROR"
      /\ e.list = kk.list /\ e.group = kk.group /\ e.current = kk.current
      /\ e.stat = kk.stat /\ e.prio = kk.prio /\ e.timer = kk.timer
      /\ e.lock = kk.lock /\ e.slice = kk.slice
      /\ \A x \in Thread \ {t} : e.err[x] = kk.err[x]
  <2>1. [kk.err EXCEPT ![t] = "ERROR"] \in [Thread -> Error]
    BY <1>3 DEF KernelType, Error
  <2> QED BY <1>1, <1>3, <2>1 DEF KernelType
<1> HIDE DEF e
<1>5. Core(e, {}) /\ CurrentOK(e)
  BY <1>4, SameCore
<1>6. /\ Core(u, {}) /\ CurrentOK(u) /\ Resumed(e, u, {t}) /\ u.err = e.err
      /\ u.list[q] = Drop(kk.list[q], t)
  BY <1>1, <1>4, <1>5, ResumeCore
<1> HIDE DEF u
<1>7. Resumed(kk, u, {t})
  <2>1. \A x \in Thread \ {t} : Stands(kk, e, x)
    BY <1>4, StandsIs
  <2>2. \A x \in Thread \ {t} : Stands(kk, u, x)
    BY <1>6, <2>1, StandsTrans DEF Resumed
  <2> QED BY <1>4, <1>6, <2>2 DEF Resumed
<1>8. Members(u.list[q]) = Members(kk.list[q]) \ {t}
  BY <1>3, <1>6, DropFacts
<1>9. Len(u.list[q]) = Len(kk.list[q]) - 1
  <2> DEFINE i == CHOOSE j \in DOMAIN kk.list[q] : kk.list[q][j] = t
  <2>1. i \in DOMAIN kk.list[q]
    BY <1>1 DEF Members
  <2>2. u.list[q] = RemoveAt(kk.list[q], i)
    BY <1>1, <1>6 DEF Drop
  <2> HIDE DEF i
  <2> QED BY <1>3, <2>1, <2>2, RemoveAtFacts
<1> QED BY <1>2, <1>4, <1>6, <1>7, <1>8, <1>9 DEF t

(***************************************************************************)
(* rt_ipc_list_resume_all is defined by a recursive function on the number *)
(* of rounds.  It exists, and every value of it is what the definition     *)
(* says: both are shown by looking at a least number for which it would be *)
(* false.                                                                  *)
(***************************************************************************)
Rounds(g, kk, q, n) ==
  g = [m \in 0 .. n |-> IF m = 0 THEN kk ELSE ResumeWithError(g[m - 1], q)]

\* For any number of rounds there is such a function.
LEMMA RoundsExist ==
  ASSUME NEW kk, NEW q, NEW n \in Nat
  PROVE  \E g : Rounds(g, kk, q, n)
<1> DEFINE Bad == {m \in Nat : ~ \E g : Rounds(g, kk, q, m)}
<1>1. SUFFICES ASSUME Bad # {} PROVE FALSE
  OBVIOUS
<1>2. PICK m \in Bad : \A i \in Bad : m <= i
  <2>1. Bad \in SUBSET Nat
    OBVIOUS
  <2> HIDE DEF Bad
  <2> QED BY <1>1, <2>1, SmallestExists
<1>3. m \in Nat /\ ~ \E g : Rounds(g, kk, q, m)
  OBVIOUS
<1>4. CASE m = 0
  <2> DEFINE g == [i \in 0 .. 0 |-> kk]
  <2>1. g = [i \in 0 .. 0 |-> IF i = 0 THEN kk ELSE ResumeWithError(g[i - 1], q)]
    OBVIOUS
  <2> QED BY <1>3, <1>4, <2>1 DEF Rounds
<1>5. CASE m # 0
  <2>1. m - 1 \in Nat /\ m - 1 \notin Bad
    <3> HIDE DEF Bad
    <3> QED BY <1>2, <1>3, <1>5
  <2>2. PICK f : Rounds(f, kk, q, m - 1)
    BY <2>1
  <2> DEFINE g == [i \in 0 .. m |->
                     IF i = 0 THEN kk ELSE ResumeWithError(f[i - 1], q)]
  <2>3. \A i \in 0 .. m - 1 : g[i] = f[i]
    <3>1. \A i \in 0 .. m - 1 : i \in 0 .. m
      BY <1>3
    <3> QED BY <2>2, <3>1 DEF Rounds
  <2>4. ASSUME NEW i \in 0 .. m, i # 0 PROVE g[i - 1] = f[i - 1]
    <3>1. i - 1 \in 0 .. m - 1
      BY <1>3, <2>4
    <3> QED BY <2>3, <3>1
  <2>5. g = [i \in 0 .. m |-> IF i = 0 THEN kk ELSE ResumeWithError(g[i - 1], q)]
    BY <2>4
  <2> HIDE DEF g
  <2> QED BY <1>3, <2>5 DEF Rounds
<1> QED BY <1>4, <1>5

\* After some rounds on q: the threads that have left the list see an error.
Cleared(kk, u, q, n) ==
  /\ Core(u, {}) /\ CurrentOK(u)
  /\ Members(u.list[q]) \subseteq Members(kk.list[q])
  /\ Resumed(kk, u, Members(kk.list[q]) \ Members(u.list[q]))
  /\ \A x \in Members(kk.list[q]) \ Members(u.list[q]) : u.err[x] = "ERROR"
  /\ Len(u.list[q]) = Len(kk.list[q]) - n

\* One more round.
LEMMA ClearedNext ==
  ASSUME NEW kk, Core(kk, {}), NEW q \in Queue, NEW n \in Nat,
         n < Len(kk.list[q]), NEW u, Cleared(kk, u, q, n)
  PROVE  Cleared(kk, ResumeWithError(u, q), q, n + 1)
<1> DEFINE v == ResumeWithError(u, q)
           t == Head(u.list[q])
           X == Members(kk.list[q]) \ Members(u.list[q])
           Y == Members(kk.list[q]) \ Members(v.list[q])
<1>1. /\ Core(u, {}) /\ CurrentOK(u) /\ Resumed(kk, u, X)
      /\ Members(u.list[q]) \subseteq Members(kk.list[q])
      /\ \A x \in X : u.err[x] = "ERROR"
      /\ Len(u.list[q]) = Len(kk.list[q]) - n
  BY DEF Cleared
<1>2. kk.list[q] \in Seq(Thread) /\ u.list[q] \in Seq(Thread) /\ q \in Head_
  BY <1>1 DEF Core, KernelType, Head_
<1>3. u.list[q] # << >>
  BY <1>1, <1>2
<1>4. t \in Members(u.list[q]) /\ t \in Thread
  BY <1>1, <1>3, HeadIs
<1>5. /\ Core(v, {}) /\ CurrentOK(v) /\ Resumed(u, v, {t})
      /\ v.err[t] = "ERROR"
      /\ Len(v.list[q]) = Len(u.list[q]) - 1
      /\ Members(v.list[q]) = Members(u.list[q]) \ {t}
  BY <1>1, <1>3, ResumeErrorCore
<1> HIDE DEF v, t
<1>6. Y = X \cup {t} /\ t \notin X
  BY <1>1, <1>4, <1>5
<1>7. X \in SUBSET Thread
  BY <1>2 DEF Members
<1> HIDE DEF X, Y
<1>8. Resumed(kk, v, Y)
  <2>1. \A x \in Y : v.stat[x] \in Runnable
    BY <1>1, <1>5, <1>6, <1>7 DEF Resumed, Stands
  <2>2. \A x \in Thread \ Y : Stands(kk, v, x)
    BY <1>1, <1>5, <1>6, StandsTrans DEF Resumed
  <2>3. \A h \in Queue \cup {Defunct} :
          Members(v.list[h]) \subseteq Members(kk.list[h])
    BY <1>1, <1>5 DEF Resumed
  <2> QED BY <1>1, <1>5, <2>1, <2>2, <2>3 DEF Resumed
<1>9. \A x \in Y : v.err[x] = "ERROR"
  BY <1>1, <1>5, <1>6, <1>7 DEF Resumed, Stands
<1>10. Len(v.list[q]) = Len(kk.list[q]) - (n + 1)
  BY <1>1, <1>2, <1>5
<1> QED BY <1>1, <1>5, <1>8, <1>9, <1>10 DEF Cleared, Y, v

\* rt_ipc_list_resume_all resumes every waiter with an error and leaves the list
\* empty.
LEMMA ResumeAllCore ==
  ASSUME NEW kk, Core(kk, {}), CurrentOK(kk), NEW q \in Queue
  PROVE  LET u == rt_ipc_list_resume_all(kk, q)
         IN  /\ Core(u, {}) /\ CurrentOK(u)
             /\ Resumed(kk, u, Members(kk.list[q]))
             /\ \A x \in Members(kk.list[q]) : u.err[x] = "ERROR"
             /\ u.list[q] = << >>
<1> DEFINE L == Len(kk.list[q])
           g == CHOOSE f : Rounds(f, kk, q, L)
           u == rt_ipc_list_resume_all(kk, q)
<1>1. kk.list[q] \in Seq(Thread) /\ L \in Nat
  BY DEF Core, KernelType, Head_
<1>2. u = g[L]
  BY DEF rt_ipc_list_resume_all, Rounds
<1> HIDE DEF L, u
<1>3. Rounds(g, kk, q, L)
  BY <1>1, RoundsExist
<1> HIDE DEF g
<1> DEFINE Bad == {n \in 0 .. L : ~ Cleared(kk, g[n], q, n)}
<1>4. Bad = {}
  <2>1. SUFFICES ASSUME Bad # {} PROVE FALSE
    OBVIOUS
  <2>2. PICK n \in Bad : \A i \in Bad : n <= i
    <3>1. Bad \in SUBSET Nat
      BY <1>1
    <3> HIDE DEF Bad
    <3> QED BY <2>1, <3>1, SmallestExists
  <2>3. n \in 0 .. L /\ ~ Cleared(kk, g[n], q, n) /\ n \in Nat
    BY <1>1, <2>2
  <2>4. g[n] = IF n = 0 THEN kk ELSE ResumeWithError(g[n - 1], q)
    BY <1>3, <2>3 DEF Rounds
  <2>5. CASE n = 0
    <3>1. Resumed(kk, kk, Members(kk.list[q]) \ Members(kk.list[q]))
      BY DEF Resumed, Stands
    <3>2. Len(kk.list[q]) = Len(kk.list[q]) - 0
      BY <1>1 DEF L
    <3>3. Cleared(kk, kk, q, 0)
      BY <3>1, <3>2 DEF Cleared
    <3> QED BY <2>3, <2>4, <2>5, <3>3
  <2>6. CASE n # 0
    <3> DEFINE m == n - 1
    <3>1. m \in 0 .. L /\ m \in Nat /\ m < L /\ n = m + 1 /\ m \notin Bad
      <4>1. m \in 0 .. L /\ m \in Nat /\ m < L /\ n = m + 1 /\ m < n
        BY <1>1, <2>3, <2>6
      <4> HIDE DEF Bad, m
      <4> QED BY <2>2, <2>3, <4>1
    <3>2. Cleared(kk, g[m], q, m)
      BY <3>1
    <3>3. g[n] = ResumeWithError(g[m], q)
      BY <2>4, <2>6
    <3> HIDE DEF m, Bad
    <3>4. Cleared(kk, ResumeWithError(g[m], q), q, m + 1)
      BY <3>1, <3>2, ClearedNext DEF L
    <3> QED BY <2>3, <3>1, <3>3, <3>4
  <2> QED BY <2>5, <2>6
<1>5. Cleared(kk, u, q, L)
  BY <1>1, <1>2, <1>4
<1>6. u.list[q] \in Seq(Thread)
  BY <1>5 DEF Cleared, Core, KernelType, Head_
<1>7. Len(u.list[q]) = 0
  BY <1>1, <1>5 DEF Cleared, L
<1>8. u.list[q] = << >> /\ Members(u.list[q]) = {}
  BY <1>6, <1>7 DEF Members
<1>9. Members(kk.list[q]) \ Members(u.list[q]) = Members(kk.list[q])
  BY <1>8
<1> QED BY <1>5, <1>8, <1>9 DEF Cleared, u

-----------------------------------------------------------------------------
(***************************************************************************)
(* The steps of IPC code keep the invariant.                               *)
(***************************************************************************)
\* The threads that wait, on any object.
Waiters(kk) == UNION {Members(kk.list[q]) : q \in Queue}

\* Resuming waiters, in the terms of the scheduler's lemmas.
LEMMA WaitersResumed ==
  ASSUME IpcInv, NEW u, NEW X \in SUBSET Waiters(k),
         Core(u, {}), Resumed(k, u, X)
  PROVE  /\ X \in SUBSET Thread /\ \A x \in X : k.stat[x] = "SUSPEND"
         /\ Steady(k, u, X) /\ IdleSchedulable(u)
         /\ \A x \in Members(u.list[Defunct]) : x \notin Static \ Cleanup
         /\ \A x \in Thread : Held(k, x) => Held(u, x) /\ u.stat[x] = k.stat[x]
         /\ WaitersOK(u, pc)
<1>1. IInv /\ Core(k, {}) /\ WaitersOK(k, pc)
  BY DEF IpcInv, IInv
<1>2. X \in SUBSET Thread /\ \A x \in X : k.stat[x] = "SUSPEND"
  BY <1>1, MembersAre DEF Waiters
<1>3. Steady(k, u, X)
  BY DEF Resumed, Stands, Steady, Head_
<1>4. IdleSchedulable(u)
  BY <1>1, <1>2, ThreadAssumption DEF IdleSchedulable, IInv, Resumed, Stands
<1>5. \A x \in Members(u.list[Defunct]) : x \notin Static \ Cleanup
  BY <1>1 DEF Resumed, Stands, IInv, DefunctOK
<1>6. \A x \in Thread : Held(k, x) => Held(u, x) /\ u.stat[x] = k.stat[x]
  <2>1. \A x \in Thread : Held(k, x) => x \notin X
    BY DEF Held, Unlinked, Head_, Waiters
  <2> QED BY <2>1 DEF Held, Unlinked, Resumed, Stands
<1>7. WaitersOK(u, pc)
  <2>1. \A x \in X : u.stat[x] \in Runnable
    BY DEF Resumed, Stands
  <2> QED BY <1>1, <1>2, <1>3, <2>1, WaitersKept
<1> QED BY <1>2, <1>3, <1>4, <1>5, <1>6, <1>7

\* The same for the waiters of one object.
LEMMA ResumedFacts ==
  ASSUME IpcInv, NEW u, NEW q \in Queue, NEW X \in SUBSET Members(k.list[q]),
         Core(u, {}), Resumed(k, u, X)
  PROVE  /\ X \in SUBSET Thread /\ \A x \in X : k.stat[x] = "SUSPEND"
         /\ Steady(k, u, X) /\ IdleSchedulable(u)
         /\ \A x \in Members(u.list[Defunct]) : x \notin Static \ Cleanup
         /\ \A x \in Thread : Held(k, x) => Held(u, x) /\ u.stat[x] = k.stat[x]
         /\ WaitersOK(u, pc)
<1>1. X \in SUBSET Waiters(k)
  BY DEF Waiters
<1> QED BY <1>1, WaitersResumed

\* A step of a RUNNING thread that resumes some waiters, or none.
LEMMA WaitersResumedIpcInv ==
  ASSUME IpcInv, NEW c \in Thread, c = k.current, k.stat[c] = "RUNNING", c # Idle,
         NEW X \in SUBSET Waiters(k),
         Core(k', {}), CurrentOK(k'), Resumed(k, k', X),
         NEW l, NEW a, l \in Label => a \in Thread, LabelOK(c, l, a),
         l \notin HoldLabels, l # "suspend_body",
         pc' = [pc EXCEPT ![c] = At(l, a)], UNCHANGED isr
  PROVE  IpcInv'
<1>1. IInv /\ Core(k, {}) /\ WaitersOK(k, pc) /\ pc = [x \in Thread |-> pc[x]]
  BY DEF IpcInv, IInv, StateOK
<1>2. /\ X \in SUBSET Thread /\ \A x \in X : k.stat[x] = "SUSPEND"
      /\ Steady(k, k', X) /\ IdleSchedulable(k')
      /\ \A x \in Members(k'.list[Defunct]) : x \notin Static \ Cleanup
      /\ \A x \in Thread : Held(k, x) => Held(k', x) /\ k'.stat[x] = k.stat[x]
  BY WaitersResumed
<1>3. c \notin X /\ k'.stat[c] = "RUNNING" /\ k'.current = c
  BY <1>2 DEF Resumed, Stands
<1>4. DefunctOK' /\ SliceOK' /\ DeadOK'
  BY <1>1, <1>2, <1>3 DEF DefunctOK, SliceOK, DeadOK, IInv, Resumed, Stands
<1>5. IInv'
  <2>1. \A d \in Thread \ {c} : Holds(d) => pc[d].arg # c
    BY <1>1 DEF IInv, HeldThreads, Held
  <2>2. isr' \in {"none", "timer"}
    BY <1>1 DEF IInv, StateOK
  <2> QED BY <1>1, <1>2, <1>4, <2>1, <2>2, StepIInv
<1>6. /\ pc'[c].at = l /\ pc'[c].arg = a
      /\ \A x \in Thread \ {c} : pc'[x] = pc[x]
  BY <1>1 DEF At
<1>7. WaitersOK(k', pc')
  <2>1. \A x \in X : k'.stat[x] \in Runnable
    BY DEF Resumed, Stands
  <2>2. \A x \in Thread : pc'[x] = pc[x] \/ k'.stat[x] \in Runnable
    BY <1>3, <1>6 DEF Runnable
  <2> QED BY <1>1, <1>2, <2>1, <2>2, WaitersKept
<1>8. k'.lock = 0 /\ CurrentRuns(k', pc')
  BY <1>3 DEF Resumed, Stands, CurrentRuns, IpcInv
<1>9. \A x \in Thread : pc'[x].at # "suspend_body"
  BY <1>6 DEF IpcInv
<1> QED BY <1>5, <1>7, <1>8, <1>9 DEF IpcInv

\* The same for the waiters of one object.
LEMMA ResumedIpcInv ==
  ASSUME IpcInv, NEW c \in Thread, c = k.current, k.stat[c] = "RUNNING", c # Idle,
         NEW q \in Queue, NEW X \in SUBSET Members(k.list[q]),
         Core(k', {}), CurrentOK(k'), Resumed(k, k', X),
         NEW l, NEW a, l \in Label => a \in Thread, LabelOK(c, l, a),
         l \notin HoldLabels, l # "suspend_body",
         pc' = [pc EXCEPT ![c] = At(l, a)], UNCHANGED isr
  PROVE  IpcInv'
<1>1. X \in SUBSET Waiters(k)
  BY DEF Waiters
<1> QED BY <1>1, WaitersResumedIpcInv

\* A step of a RUNNING thread that leaves the kernel alone.
LEMMA SameIpcInv ==
  ASSUME IpcInv, NEW c \in Thread, c = k.current, k.stat[c] = "RUNNING", c # Idle,
         NEW q \in Queue, k' = k,
         NEW l, NEW a, l \in Label => a \in Thread, LabelOK(c, l, a),
         l \notin HoldLabels, l # "suspend_body",
         pc' = [pc EXCEPT ![c] = At(l, a)], UNCHANGED isr
  PROVE  IpcInv'
<1> DEFINE X == {}
<1>1. Core(k', {}) /\ CurrentOK(k')
  BY DEF IpcInv, IInv
<1>2. Resumed(k, k', X)
  BY DEF Resumed, Stands
<1>3. X \in SUBSET Members(k.list[q])
  OBVIOUS
<1> HIDE DEF X
<1> QED BY <1>1, <1>2, <1>3, ResumedIpcInv

\* A step that leaves the scheduler's state alone.
LEMMA UnchangedIpcInv ==
  ASSUME IpcInv, UNCHANGED <<k, isr, pc>>
  PROVE  IpcInv'
<1>1. k' = k /\ isr' = isr /\ pc' = pc
  OBVIOUS
<1> QED BY <1>1 DEF IpcInv, IInv, StateOK, Labels, HeldThreads, Holds,
           StartsSuspended, DeadOK, DefunctOK, SliceOK

\* An interrupt handler that resumes waiters and then calls rt_schedule.
LEMMA IsrIpcInv ==
  ASSUME IpcInv, NEW q \in Queue, NEW X \in SUBSET Members(k.list[q]),
         NEW u, Core(u, {}), CurrentOK(u), Resumed(k, u, X),
         k' = rt_schedule(u), UNCHANGED <<isr, pc>>
  PROVE  IpcInv' /\ Steady(u, k', {})
<1>1. IInv /\ Core(k, {}) /\ CurrentOK(k) /\ Idle \in Thread
  BY ThreadAssumption DEF IpcInv, IInv
<1>2. /\ IdleSchedulable(u) /\ WaitersOK(u, pc)
      /\ \A x \in X : k.stat[x] = "SUSPEND"
      /\ \A x \in Members(u.list[Defunct]) : x \notin Static \ Cleanup
      /\ \A x \in Thread : Held(k, x) => Held(u, x) /\ u.stat[x] = k.stat[x]
  BY ResumedFacts
<1>3. /\ Core(k', {}) /\ CurrentOK(k') /\ IdleSchedulable(k')
      /\ DefunctOK' /\ SliceOK'
      /\ k'.stat[k'.current] = "CLOSE" => u.stat[u.current] = "CLOSE"
      /\ k'.current = u.current \/ k'.stat[k'.current] # "CLOSE"
      /\ \A x \in Thread \ {Idle} :
           Held(k, x) => Held(k', x) /\ k'.stat[x] = k.stat[x]
  <2>1. u.slice = k.slice
    BY DEF Resumed, Stands
  <2> QED BY <1>1, <1>2, <2>1, ScheduleFacts
<1>4. ~ Held(k, Idle)
  BY <1>1 DEF IInv, IdleSchedulable, Held
<1>5. u.lock = 0
  BY DEF Resumed, Stands, IpcInv
<1>6. k'.stat[k'.current] = "RUNNING"
  BY <1>2, <1>5, ScheduleRuns
<1>7. DeadOK'
  BY <1>6 DEF DeadOK
<1>8. IInv'
  <2>1. isr' \in {"none", "timer"}
    BY <1>1 DEF IInv, StateOK
  <2> QED BY <1>1, <1>3, <1>4, <1>7, <2>1, TickIInv
<1>9. Moves(u, k')
  BY ScheduleCore
<1>10. Steady(u, k', {}) /\ k'.lock = 0
  BY <1>5, <1>9, MovesSteady DEF Moves
<1>11. WaitersOK(k', pc')
  <2>1. {} \in SUBSET Thread /\ pc' = pc
    OBVIOUS
  <2> QED BY <1>2, <1>3, <1>10, <2>1, WaitersKept
<1> QED BY <1>6, <1>8, <1>10, <1>11 DEF IpcInv, CurrentRuns

\* The call of rt_schedule in a blocking call.
LEMMA BlockScheduleIpcInv ==
  ASSUME IpcInv, NEW c \in Thread, BlockSchedule(c)
  PROVE  IpcInv' /\ Steady(k, k', {})
<1>1. /\ Executes(c, "ipc_sched") /\ k' = rt_schedule(k) /\ UNCHANGED isr
      /\ pc' = [pc EXCEPT ![c] = At("ipc_end", pc[c].arg)]
  BY DEF BlockSchedule, Goto
<1>2. /\ IInv /\ Core(k, {}) /\ CurrentOK(k) /\ IdleSchedulable(k)
      /\ WaitersOK(k, pc) /\ k.lock = 0 /\ pc = [x \in Thread |-> pc[x]]
  BY DEF IpcInv, IInv, StateOK
<1>3. c = k.current /\ pc[c].at = "ipc_sched"
  BY <1>1 DEF Executes
<1>4. k.stat[c] # "CLOSE" /\ c # Idle
  BY <1>2, <1>3 DEF IInv, DeadOK, Labels, LabelOK
<1>5. LabelOK(c, "ipc_end", pc[c].arg) /\ "ipc_end" \notin HoldLabels
      /\ "ipc_end" \notin Label
  BY <1>4 DEF LabelOK, RacyLabels, HoldLabels, Label
<1>6. IInv'
  BY <1>1, <1>2, <1>3, <1>4, <1>5, ScheduleStep
<1>7. Moves(k, k') /\ k'.stat[k'.current] = "RUNNING"
  BY <1>1, <1>2, ScheduleCore, ScheduleRuns
<1>8. Steady(k, k', {}) /\ k'.lock = 0
  BY <1>2, <1>7, MovesSteady DEF Moves
<1>9. /\ pc'[c].at = "ipc_end" /\ pc'[c].arg = pc[c].arg
      /\ \A x \in Thread \ {c} : pc'[x] = pc[x]
  BY <1>1, <1>2 DEF At
<1>10. WaitersOK(k', pc')
  <2>1. \A x \in Thread :
          \/ pc'[x] = pc[x]
          \/ /\ pc[x].at \in WaitLabels /\ pc'[x].at \in WaitLabels
             /\ pc'[x].arg = pc[x].arg
    BY <1>3, <1>9 DEF WaitLabels
  <2>2. {} \in SUBSET Thread /\ Core(k', {})
    BY <1>6 DEF IInv
  <2> QED BY <1>2, <1>8, <2>1, <2>2, WaitersKept
<1>11. \A x \in Thread : pc'[x].at # "suspend_body"
  BY <1>9 DEF IpcInv
<1> QED BY <1>6, <1>7, <1>8, <1>10, <1>11 DEF IpcInv, CurrentRuns

-----------------------------------------------------------------------------
(***************************************************************************)
(* What a call may do to the kernel besides resuming or blocking: change   *)
(* the error of its caller c and, as the priority inheritance of mutexes   *)
(* does, priorities.                                                       *)
(***************************************************************************)
Spares(kk, u, c) ==
  /\ u.lock = kk.lock /\ u.current = kk.current /\ u.slice = kk.slice
  /\ u.stat[c] = kk.stat[c] /\ u.timer[c] = kk.timer[c]
  /\ \A x \in Thread \ {c} : Stands(kk, u, x)
  /\ \A h \in Queue \cup {Defunct} : u.list[h] = kk.list[h]

\* The caller sets its own error.
LEMMA SetErrorSpares ==
  ASSUME NEW kk, Core(kk, {}), CurrentOK(kk), NEW c \in Thread, NEW e \in Error
  PROVE  LET w == [kk EXCEPT !.err[c] = e]
         IN  Core(w, {}) /\ CurrentOK(w) /\ Spares(kk, w, c)
<1> DEFINE f == [kk.err EXCEPT ![c] = e]
           w == [kk EXCEPT !.err[c] = e]
<1>1. kk \in KernelType
  BY DEF Core
<1>2. f \in [Thread -> Error] /\ \A x \in Thread \ {c} : f[x] = kk.err[x]
  BY <1>1 DEF KernelType
<1>3. w = [kk EXCEPT !.err = f]
  OBVIOUS
<1> HIDE DEF f
<1>4. /\ w \in KernelType /\ w.err = f
      /\ w.list = kk.list /\ w.group = kk.group /\ w.current = kk.current
      /\ w.stat = kk.stat /\ w.prio = kk.prio /\ w.timer = kk.timer
      /\ w.lock = kk.lock /\ w.slice = kk.slice
  BY <1>1, <1>2, <1>3 DEF KernelType
<1> HIDE DEF w
<1>5. Core(w, {}) /\ CurrentOK(w)
  BY <1>4, SameCore
<1>6. \A x \in Thread \ {c} : Stands(kk, w, x)
  BY <1>2, <1>4, StandsIs
<1> QED BY <1>4, <1>5, <1>6 DEF Spares, w

\* A thread's priority changes, and with it perhaps its place in the ready queue.
LEMMA ChangePrioritySpares ==
  ASSUME NEW kk, Core(kk, {}), CurrentOK(kk), NEW t \in Thread, NEW p \in Prio
  PROVE  LET w == ChangePriority(kk, t, p)
         IN  /\ Core(w, {}) /\ CurrentOK(w) /\ w.err = kk.err
             /\ \A x \in Thread : Stands(kk, w, x)
             /\ \A c \in Thread : Spares(kk, w, c)
<1> DEFINE w == ChangePriority(kk, t, p)
<1>1. /\ Core(w, {}) /\ CurrentOK(w) /\ Local(kk, w, t)
      /\ w.stat[t] = kk.stat[t]
  BY ChangePriorityCore
<1>2. kk \in KernelType /\ w \in KernelType
  BY <1>1 DEF Core
<1>3. \A x \in Thread \ {t} : Stands(kk, w, x)
  BY <1>1, StandsIs DEF Local
<1>4. /\ w.err = kk.err /\ w.slice = kk.slice /\ w.timer[t] = kk.timer[t]
      /\ \A h \in Queue \cup {Defunct} : w.list[h] = kk.list[h]
      /\ Unlinked(w, t) <=> Unlinked(kk, t)
  <2>1. CASE kk.stat[t] # "READY"
    <3>1. /\ w.list = kk.list /\ w.err = kk.err /\ w.slice = kk.slice
          /\ w.timer = kk.timer
      BY <1>2, <2>1 DEF ChangePriority, KernelType
    <3> QED BY <3>1 DEF Unlinked
  <2>2. CASE kk.stat[t] = "READY"
    <3> DEFINE r == rt_schedule_remove_thread(kk, t)
               f == [r.prio EXCEPT ![t] = p]
               v == [r EXCEPT !.prio = f]
    <3>1. /\ r \in KernelType /\ Frame(kk, r)
          /\ \A h \in Head_ : t \notin Members(kk.list[h]) => r.list[h] = kk.list[h]
      BY RemoveThreadCore DEF Core
    <3>2. \A h \in Queue \cup {Defunct} : t \notin Members(kk.list[h]) /\ h \in Head_
      BY <2>2 DEF Core, ListsMatchStat, Head_
    <3>3. w = rt_schedule_insert_thread([r EXCEPT !.prio[t] = p], t)
      BY <2>2 DEF ChangePriority
    <3>4. w = rt_schedule_insert_thread(v, t)
      BY <3>3
    <3>5. f \in [Thread -> Prio] /\ f[t] = p
      BY <3>1 DEF KernelType
    <3> HIDE DEF r, f
    <3>6. /\ v \in KernelType /\ v.list = r.list /\ v.err = r.err
          /\ v.slice = r.slice /\ v.timer = r.timer /\ v.current = r.current
          /\ v.prio[t] = p
      BY <3>1, <3>5 DEF KernelType
    <3>7. t # kk.current /\ kk.current = r.current
      BY <2>2, <3>1 DEF CurrentOK, Frame
    <3> HIDE DEF v, w
    <3>8. /\ w.err = v.err /\ w.slice = v.slice /\ w.timer = v.timer
          /\ w.list = [v.list EXCEPT ![p] = Append(v.list[p], t)]
      BY <3>4, <3>6, <3>7, InsertThreadFields
    <3>9. v.list = [h \in Head_ |-> v.list[h]] /\ p \in Head_
      BY <3>6 DEF KernelType, Head_
    <3>10. p \notin Queue \cup {Defunct}
      BY HeadAssumption
    <3>11. \A h \in Queue \cup {Defunct} : w.list[h] = kk.list[h]
      BY <3>1, <3>2, <3>6, <3>8, <3>9, <3>10
    <3>12. ~ Unlinked(w, t) /\ ~ Unlinked(kk, t)
      <4>1. t \in Members(kk.list[kk.prio[t]]) /\ t \in Members(w.list[w.prio[t]])
        BY <1>1, <2>2 DEF Core, StatOK
      <4>2. kk.prio[t] \in Head_ /\ w.prio[t] \in Head_
        BY <1>2 DEF KernelType, Head_
      <4> QED BY <4>1, <4>2 DEF Unlinked
    <3> QED BY <3>1, <3>6, <3>8, <3>11, <3>12 DEF Frame
  <2> QED BY <2>1, <2>2
<1> HIDE DEF w
<1>5. Stands(kk, w, t)
  BY <1>1, <1>4 DEF Stands
<1>6. \A x \in Thread : Stands(kk, w, x)
  BY <1>3, <1>5
<1>7. \A x \in Thread : w.stat[x] = kk.stat[x] /\ w.timer[x] = kk.timer[x]
  BY <1>6 DEF Stands
<1> QED BY <1>1, <1>4, <1>6, <1>7 DEF Spares, Local, w

\* A call that returns at once, having changed no more than that.
LEMMA SparesIpcInv ==
  ASSUME IpcInv, NEW c \in Thread, c = k.current, k.stat[c] = "RUNNING",
         Core(k', {}), CurrentOK(k'), Spares(k, k', c), UNCHANGED <<isr, pc>>
  PROVE  IpcInv'
<1>1. IInv /\ Core(k, {}) /\ WaitersOK(k, pc) /\ isr' \in {"none", "timer"}
  BY DEF IpcInv, IInv, StateOK
<1>2. /\ k'.stat[c] = "RUNNING" /\ k'.current = c /\ k'.lock = 0
      /\ \A x \in Thread : k'.stat[x] = k.stat[x]
  BY DEF Spares, Stands, IpcInv
<1>3. ~ Held(k, c)
  BY DEF Held
<1>4. \A x \in Thread \ {c} : Held(k, x) => Held(k', x) /\ k'.stat[x] = k.stat[x]
  BY <1>2 DEF Held, Spares, Stands
<1>5. IdleSchedulable(k') /\ DefunctOK' /\ SliceOK' /\ DeadOK'
  BY <1>1, <1>2, ThreadAssumption
     DEF IdleSchedulable, DefunctOK, SliceOK, DeadOK, IInv, Spares
<1>6. IInv'
  BY <1>1, <1>3, <1>4, <1>5, TickIInv
<1>7. WaitersOK(k', pc')
  <2>1. Steady(k, k', {c}) /\ k'.stat[c] \in Runnable /\ {c} \in SUBSET Thread
    BY <1>2 DEF Steady, Spares, Stands, Runnable
  <2> QED BY <1>1, <2>1, WaitersKept
<1> QED BY <1>2, <1>6, <1>7 DEF IpcInv, CurrentRuns

\* After such a change, resuming is what it is without it.
LEMMA SparesResumed ==
  ASSUME NEW kk, NEW w, NEW u, NEW c \in Thread, Spares(kk, w, c), Stands(kk, w, c),
         NEW X, Resumed(w, u, X)
  PROVE  Resumed(kk, u, X)
<1>1. \A x \in Thread : Stands(kk, w, x)
  BY DEF Spares
<1>2. \A x \in Thread \ X : Stands(kk, u, x)
  BY <1>1, StandsTrans DEF Resumed
<1> QED BY <1>2 DEF Resumed, Spares

\* So is blocking.
LEMMA SparesBlocks ==
  ASSUME NEW kk, NEW w, NEW u, NEW c \in Thread, Spares(kk, w, c),
         NEW q \in Queue, Blocks(w, u, q, c)
  PROVE  Blocks(kk, u, q, c)
<1>1. \A x \in Thread \ {c} : Stands(kk, u, x)
  BY StandsTrans DEF Blocks, Spares
<1> QED BY <1>1 DEF Blocks, Spares

-----------------------------------------------------------------------------
(***************************************************************************)
(* The initial state: every thread is started.                             *)
(***************************************************************************)
\* SetToSeq lists the elements of a finite set, each once.
LEMMA SetToSeqIs ==
  ASSUME NEW T, NEW S \in SUBSET T, IsFiniteSet(S)
  PROVE  /\ SetToSeq(S) \in Seq(T) /\ Injective(SetToSeq(S))
         /\ Members(SetToSeq(S)) = S
<1> DEFINE n == Cardinality(S)
           f == SetToSeq(S)
<1>1. n \in Nat /\ ExistsBijection(1 .. n, S)
  BY FS_CardinalityType
<1>2. PICK g : g \in Bijection(1 .. n, S)
  BY <1>1, Fun_ExistsBij
<1>3. g \in [1 .. n -> S] /\ IsInjective(g)
  BY <1>2 DEF Bijection, Injection
<1>4. f \in [1 .. n -> S] /\ IsInjective(f)
  BY <1>3 DEF SetToSeq
<1> HIDE DEF f
<1>5. IsFiniteSet(1 .. n) /\ Cardinality(1 .. n) = n
  BY <1>1, FS_Interval
<1>6. f \in Injection(1 .. n, S)
  BY <1>4 DEF Injection
<1>7. f \in Surjection(1 .. n, S)
  BY <1>5, <1>6, FS_Injection
<1>8. \A x \in S : \E i \in 1 .. n : f[i] = x
  BY <1>7 DEF Surjection
<1> HIDE DEF n
<1>9. f \in Seq(T) /\ DOMAIN f = 1 .. n
  BY <1>1, <1>4
<1>10. Injective(f)
  BY <1>4 DEF Injective, IsInjective
<1>11. Members(f) = S
  BY <1>4, <1>8, <1>9 DEF Members
<1> QED BY <1>9, <1>10, <1>11 DEF f

\* The started kernel is consistent.
LEMMA StartedCore ==
  ASSUME IsFiniteSet(Thread), NEW first \in Thread \ {Idle}
  PROVE  LET u == StartedKernel(first)
         IN  /\ Core(u, {}) /\ u.current = first /\ u.lock = 0
             /\ u.slice = InitTick /\ u.stat[first] = "RUNNING"
             /\ \A t \in Thread \ {first} : u.stat[t] = "READY"
             /\ \A h \in Queue \cup {Defunct} : u.list[h] = << >>
<1> DEFINE S(h) == {t \in Thread \ {first} : InitPrio[t] = h}
           st == [t \in Thread |-> IF t = first THEN "RUNNING" ELSE "READY"]
           L == [h \in Head_ |-> IF h \in Prio THEN SetToSeq(S(h)) ELSE << >>]
           G == {InitPrio[t] : t \in Thread \ {first}}
           u == StartedKernel(first)
<1>1. u = [InitKernel(first) EXCEPT !.stat = st, !.list = L, !.group = G]
  BY DEF StartedKernel
<1>2. /\ u.stat = st /\ u.list = L /\ u.group = G /\ u.current = first
      /\ u.prio = InitPrio /\ u.lock = 0 /\ u.slice = InitTick
      /\ u.timer = [t \in Thread |-> Off]
  BY <1>1 DEF InitKernel
<1>3. ASSUME NEW h \in Prio
      PROVE  /\ L[h] \in Seq(Thread) /\ Injective(L[h])
             /\ Members(L[h]) = {t \in Thread \ {first} : InitPrio[t] = h}
  <2>1. L[h] = SetToSeq(S(h))
    BY DEF Head_
  <2>2. S(h) \in SUBSET Thread
    OBVIOUS
  <2>3. IsFiniteSet(S(h))
    <3> HIDE DEF S
    <3> QED BY <2>2, FS_Subset
  <2>4. L[h] \in Seq(Thread) /\ Injective(L[h]) /\ Members(L[h]) = S(h)
    <3> HIDE DEF S, L
    <3> QED BY <2>1, <2>2, <2>3, SetToSeqIs
  <2> QED BY <2>4
<1>4. ASSUME NEW h \in Queue \cup {Defunct}
      PROVE  L[h] = << >> /\ Members(L[h]) = {} /\ Injective(L[h])
  <2>1. h \in Head_ /\ h \notin Prio
    BY HeadAssumption DEF Head_
  <2>2. L[h] = << >>
    BY <2>1
  <2>3. DOMAIN << >> = {}
    OBVIOUS
  <2> HIDE DEF L
  <2> QED BY <2>2, <2>3 DEF Members, Injective
<1>5. \A h \in Head_ : L[h] \in Seq(Thread) /\ Injective(L[h])
  <2>1. << >> \in Seq(Thread)
    OBVIOUS
  <2> HIDE DEF L
  <2> QED BY <1>3, <1>4, <2>1 DEF Head_
<1>6. L \in [Head_ -> Seq(Thread)]
  <2>1. L = [h \in Head_ |-> L[h]]
    OBVIOUS
  <2> HIDE DEF L
  <2> QED BY <1>5, <2>1
<1>7. InitPrio \in [Thread -> Prio] /\ InitTick \in [Thread -> Nat \ {0}] /\ Idle \in Thread
  BY ThreadAssumption
<1>8. u \in KernelType
  <2>1. st \in [Thread -> Stat]
    BY DEF Stat
  <2>2. InitTick \in [Thread -> Nat]
    BY <1>7
  <2>3. [t \in Thread |-> "EOK"] \in [Thread -> Error]
    BY DEF Error
  <2>4. [t \in Thread |-> Off] \in [Thread -> Nat \cup {Off}]
    OBVIOUS
  <2>5. G \in SUBSET Prio /\ 0 \in Nat
    BY <1>7
  <2>6. [t \in Thread |-> FALSE] \in [Thread -> BOOLEAN]
    OBVIOUS
  <2> HIDE DEF L, G, st, u
  <2> QED BY <1>1, <1>6, <1>7, <2>1, <2>2, <2>3, <2>4, <2>5, <2>6
          DEF InitKernel, KernelType
<1>9. st[first] = "RUNNING" /\ \A t \in Thread \ {first} : st[t] = "READY"
  OBVIOUS
<1> HIDE DEF L, st, u, S
<1>10. ListsMatchStat(u)
  <2>1. ASSUME NEW p \in Prio, NEW t \in Members(u.list[p])
        PROVE  u.stat[t] = "READY" /\ u.prio[t] = p
    <3>1. t \in Thread \ {first} /\ InitPrio[t] = p
      BY <1>2, <1>3, <2>1
    <3> QED BY <1>2, <1>9, <3>1
  <2>2. \A q \in Queue \cup {Defunct} : Members(u.list[q]) = {}
    BY <1>2, <1>4
  <2> QED BY <2>1, <2>2 DEF ListsMatchStat
<1>11. QueuesDisjoint(u)
  BY <1>2, <1>4 DEF QueuesDisjoint
<1>12. u.group = {p \in Prio : Members(u.list[p]) # {}}
  <2>1. \A p \in Prio : Members(L[p]) # {} <=> \E t \in Thread \ {first} : InitPrio[t] = p
    BY <1>3
  <2>2. G = {p \in Prio : \E t \in Thread \ {first} : InitPrio[t] = p}
    BY <1>7
  <2> HIDE DEF G
  <2> QED BY <1>2, <2>1, <2>2
<1>13. \A t \in Thread : StatOK(u, t)
  <2>1. \A t \in Thread \ {first} : t \in Members(L[InitPrio[t]])
    BY <1>3, <1>7
  <2> QED BY <1>2, <1>9, <2>1 DEF StatOK
<1>14. Core(u, {})
  BY <1>2, <1>5, <1>8, <1>10, <1>11, <1>12, <1>13 DEF Core
<1> QED BY <1>2, <1>4, <1>9, <1>14 DEF u

\* The started system satisfies the invariant.
LEMMA InitIpcInv ==
  ASSUME IsFiniteSet(Thread), InitStarted
  PROVE  IpcInv /\ \A q \in Queue : k.list[q] = << >>
<1>1. PICK first \in Thread \ {Idle} : k = StartedKernel(first)
  BY DEF InitStarted, Started
<1>2. /\ Core(k, {}) /\ k.current = first /\ k.lock = 0
      /\ k.slice = InitTick /\ k.stat[first] = "RUNNING"
      /\ \A t \in Thread \ {first} : k.stat[t] = "READY"
      /\ \A h \in Queue \cup {Defunct} : k.list[h] = << >>
  BY <1>1, StartedCore
<1>3. CurrentOK(k) /\ IdleSchedulable(k) /\ DeadOK
  BY <1>2, ThreadAssumption DEF CurrentOK, IdleSchedulable, DeadOK
<1>4. pc = [t \in Thread |-> [at |-> "run", arg |-> t]] /\ isr = "none"
  BY DEF InitStarted, Started, Running, At
<1>5. StateOK
  BY <1>2, <1>4 DEF StateOK, Label, Core
<1>6. \A c \in Thread : pc[c].at = "run"
  BY <1>4
<1>7. Labels /\ HeldThreads /\ StartsSuspended
  BY <1>6 DEF Labels, LabelOK, RacyLabels, HeldThreads, Holds, StartsSuspended
<1>8. \A h \in Queue \cup {Defunct} : Members(k.list[h]) = {}
  BY <1>2 DEF Members
<1>9. DefunctOK /\ SliceOK
  <2>1. \A t \in Thread : InitTick[t] \in Nat \ {0}
    BY ThreadAssumption
  <2>2. \A t \in Thread : InitTick[t] > 0
    BY <2>1
  <2> QED BY <1>2, <1>8, <2>2 DEF DefunctOK, SliceOK
<1>10. IInv
  BY <1>2, <1>3, <1>5, <1>7, <1>9 DEF IInv
<1>11. WaitersOK(k, pc)
  <2>1. "run" \in Label
    BY DEF Label
  <2> QED BY <1>6, <1>8, <2>1 DEF WaitersOK, Linked, Away, Clean
<1>12. CurrentRuns(k, pc)
  BY <1>2 DEF CurrentRuns
<1> QED BY <1>2, <1>6, <1>10, <1>11, <1>12 DEF IpcInv

-----------------------------------------------------------------------------
(***************************************************************************)
(* The objects: a call in progress names the object it is about, and no    *)
(* thread waits on an object that is gone.                                 *)
(***************************************************************************)
Attached == \A t \in Thread : pc[t].at \notin Label => pc[t].arg \in Queue

CallInv == IpcInv /\ Attached

ObjInv ==
  /\ IpcInv /\ Attached /\ NobodyLeftBehind
  /\ obj \in [Queue -> {"live", "leaving", "none"}]

\* Every object is live at first, and nobody waits.
LEMMA InitObjInv ==
  ASSUME IsFiniteSet(Thread), InitStarted
  PROVE  ObjInv /\ \A q \in Queue : k.list[q] = << >>
<1>1. IpcInv /\ \A q \in Queue : k.list[q] = << >>
  BY InitIpcInv
<1>2. Attached
  BY DEF Attached, InitStarted, Running, At, Label
<1>3. obj \in [Queue -> {"live", "leaving", "none"}]
  BY DEF InitStarted, Started
<1> QED BY <1>1, <1>2, <1>3 DEF ObjInv, NobodyLeftBehind

\* A suspend list that nobody joins stays empty.
LEMMA StaysEmpty ==
  ASSUME NEW kk, NEW u, Core(kk, {}), Core(u, {}), NEW q \in Queue,
         Members(u.list[q]) \subseteq Members(kk.list[q]), kk.list[q] = << >>
  PROVE  u.list[q] = << >>
<1>1. kk.list[q] \in Seq(Thread) /\ u.list[q] \in Seq(Thread)
  BY DEF Core, KernelType, Head_
<1>2. Members(kk.list[q]) = {}
  BY <1>1, EmptyMembers
<1> QED BY <1>1, <1>2, EmptyMembers

\* A step in which nobody begins to wait.
LEMMA ShrinkObjInv ==
  ASSUME ObjInv, IpcInv', Attached', UNCHANGED obj,
         \A q \in Queue : Members(k'.list[q]) \subseteq Members(k.list[q])
  PROVE  ObjInv'
<1>1. Core(k, {}) /\ Core(k', {})
  BY DEF ObjInv, IpcInv, IInv
<1>2. \A q \in Queue : k.list[q] = << >> => k'.list[q] = << >>
  BY <1>1, StaysEmpty
<1> QED BY <1>2 DEF ObjInv, NobodyLeftBehind

\* A thread that goes to a label of its own keeps the calls attached.
LEMMA CallAttached ==
  ASSUME CallInv, NEW c \in Thread, NEW l, NEW a, l \notin Label => a \in Queue,
         pc' = [pc EXCEPT ![c] = At(l, a)]
  PROVE  Attached'
<1>1. pc = [x \in Thread |-> pc[x]] /\ Attached
  BY DEF CallInv, IpcInv, IInv, StateOK
<1>2. /\ pc'[c].at = l /\ pc'[c].arg = a
      /\ \A x \in Thread \ {c} : pc'[x] = pc[x]
  BY <1>1 DEF At
<1> QED BY <1>1, <1>2 DEF Attached

LEMMA GotoAttached ==
  ASSUME ObjInv, NEW c \in Thread, NEW l, NEW a, l \notin Label => a \in Queue,
         pc' = [pc EXCEPT ![c] = At(l, a)]
  PROVE  Attached'
BY CallAttached DEF ObjInv, CallInv

\* A thread in IPC code that has not just blocked is RUNNING, and not idle.
LEMMA CallExecutes ==
  ASSUME CallInv, NEW c \in Thread, NEW l, Executes(c, l), l \notin Label,
         l # "ipc_sched"
  PROVE  c = k.current /\ k.stat[c] = "RUNNING" /\ c # Idle /\ pc[c].arg \in Queue
<1>1. pc[c].at = l /\ pc[c].at \notin Label
  BY DEF Executes
<1>2. l # "sleep_sched" /\ IpcInv /\ Labels
  BY DEF Label, CallInv, IpcInv, IInv
<1>3. c = k.current /\ k.stat[c] = "RUNNING"
  BY <1>2, ExecutesRuns
<1>4. c # Idle
  BY <1>1, <1>2 DEF Labels, LabelOK, Label
<1>5. pc[c].arg \in Queue
  BY <1>1 DEF CallInv, Attached
<1> QED BY <1>3, <1>4, <1>5

LEMMA IpcExecutes ==
  ASSUME ObjInv, NEW c \in Thread, NEW l, Executes(c, l), l \notin Label,
         l # "ipc_sched"
  PROVE  c = k.current /\ k.stat[c] = "RUNNING" /\ c # Idle /\ pc[c].arg \in Queue
BY CallExecutes DEF ObjInv, CallInv

\* The scheduler, the thread API and the tick interrupt.
LEMMA NextObjInv ==
  ASSUME Polite, ObjInv, Next, UNCHANGED obj
  PROVE  ObjInv'
<1>1. /\ IpcInv' /\ \A x \in Thread : Unmoved(x)
      /\ \E t \in Thread : Quiet(t)
  BY NextIpcInv DEF ObjInv
<1>2. \A q \in Queue : Members(k'.list[q]) \subseteq Members(k.list[q])
  BY <1>1 DEF Quiet, Steady
<1>3. Attached'
  BY <1>1 DEF Attached, Unmoved, ObjInv
<1> QED BY <1>1, <1>2, <1>3, ShrinkObjInv

\* The call of rt_schedule in a blocking call.
LEMMA BlockScheduleObjInv ==
  ASSUME ObjInv, NEW c \in Thread, BlockSchedule(c)
  PROVE  ObjInv' /\ Steady(k, k', {})
<1>1. IpcInv' /\ Steady(k, k', {})
  BY BlockScheduleIpcInv DEF ObjInv
<1>2. /\ pc[c].at = "ipc_sched" /\ UNCHANGED obj
      /\ pc' = [pc EXCEPT ![c] = At("ipc_end", pc[c].arg)]
  BY DEF BlockSchedule, Executes, Goto
<1>3. pc[c].arg \in Queue
  BY <1>2 DEF ObjInv, Attached, Label
<1>4. Attached'
  BY <1>2, <1>3, GotoAttached
<1>5. \A q \in Queue : Members(k'.list[q]) \subseteq Members(k.list[q])
  BY <1>1 DEF Steady
<1> QED BY <1>1, <1>2, <1>4, <1>5, ShrinkObjInv

\* The end of a blocking call.
LEMMA BlockEndObjInv ==
  ASSUME ObjInv, NEW c \in Thread, BlockEnd(c)
  PROVE  ObjInv'
<1>1. /\ Executes(c, "ipc_end") /\ UNCHANGED <<k, isr, obj>>
      /\ pc' = [pc EXCEPT ![c] = At("run", c)]
  BY DEF BlockEnd, Return, Goto
<1>2. c = k.current /\ k.stat[c] = "RUNNING" /\ c # Idle /\ pc[c].arg \in Queue
  BY <1>1, IpcExecutes DEF Label
<1>3. "run" \in Label /\ "run" \notin HoldLabels /\ LabelOK(c, "run", c)
  BY DEF Label, HoldLabels, LabelOK, RacyLabels
<1>4. IpcInv'
  BY <1>1, <1>2, <1>3, SameIpcInv DEF ObjInv
<1>5. Attached'
  BY <1>1, <1>3, GotoAttached
<1> QED BY <1>1, <1>4, <1>5, ShrinkObjInv

\* The test of the list: the object leaves the system when nobody waits.
LEMMA ResumeAllTestObjInv ==
  ASSUME ObjInv, NEW c \in Thread, ResumeAllTest(c)
  PROVE  ObjInv'
<1> DEFINE q == pc[c].arg
<1>1. Executes(c, "ipc_test") /\ UNCHANGED <<k, isr>>
  BY DEF ResumeAllTest
<1>2. c = k.current /\ k.stat[c] = "RUNNING" /\ c # Idle /\ q \in Queue
  BY <1>1, IpcExecutes DEF Label
<1>3. "run" \in Label /\ "run" \notin HoldLabels /\ LabelOK(c, "run", c)
  BY DEF Label, HoldLabels, LabelOK, RacyLabels
<1>4. "ipc_next" \notin Label /\ "ipc_next" \notin HoldLabels
      /\ LabelOK(c, "ipc_next", q)
  BY <1>2 DEF Label, HoldLabels, LabelOK, RacyLabels
<1>5. CASE k.list[q] = << >>
  <2>1. /\ pc' = [pc EXCEPT ![c] = At("run", c)]
        /\ obj' = [obj EXCEPT ![q] = "none"]
    BY <1>5 DEF ResumeAllTest, Return, Goto
  <2>2. IpcInv'
    BY <1>1, <1>2, <1>3, <2>1, SameIpcInv DEF ObjInv
  <2>3. Attached'
    BY <1>3, <2>1, GotoAttached
  <2> QED BY <1>1, <1>5, <2>1, <2>2, <2>3 DEF ObjInv, NobodyLeftBehind
<1>6. CASE k.list[q] # << >>
  <2>1. pc' = [pc EXCEPT ![c] = At("ipc_next", q)] /\ UNCHANGED obj
    BY <1>6 DEF ResumeAllTest, Goto
  <2>2. IpcInv'
    BY <1>1, <1>2, <1>4, <2>1, SameIpcInv DEF ObjInv
  <2>3. Attached'
    BY <1>2, <2>1, GotoAttached
  <2> QED BY <1>1, <2>1, <2>2, <2>3, ShrinkObjInv
<1> QED BY <1>5, <1>6

\* One round of rt_ipc_list_resume_all: the first waiter sees an error.
LEMMA ResumeAllNextObjInv ==
  ASSUME ObjInv, NEW c \in Thread, ResumeAllNext(c)
  PROVE  LET t == Head(k.list[pc[c].arg])
         IN  /\ ObjInv' /\ Resumed(k, k', {t}) /\ k'.err[t] = "ERROR"
             /\ t \in Members(k.list[pc[c].arg]) /\ t \in Thread
             /\ \A q \in Queue : t \notin Members(k'.list[q])
<1> DEFINE q == pc[c].arg
           t == Head(k.list[q])
<1>1. /\ Executes(c, "ipc_next") /\ k.list[q] # << >> /\ UNCHANGED <<isr, obj>>
      /\ k' = ResumeWithError(k, q) /\ pc' = [pc EXCEPT ![c] = At("ipc_test", q)]
  BY DEF ResumeAllNext, Goto
<1>2. c = k.current /\ k.stat[c] = "RUNNING" /\ c # Idle /\ q \in Queue
  BY <1>1, IpcExecutes DEF Label
<1>3. "ipc_test" \notin Label /\ "ipc_test" \notin HoldLabels
      /\ LabelOK(c, "ipc_test", q)
  BY <1>2 DEF Label, HoldLabels, LabelOK, RacyLabels
<1>4. Core(k, {}) /\ CurrentOK(k)
  BY DEF ObjInv, IpcInv, IInv
<1>5. /\ Core(k', {}) /\ CurrentOK(k') /\ Resumed(k, k', {t})
      /\ k'.err[t] = "ERROR"
  BY <1>1, <1>2, <1>4, ResumeErrorCore
<1>6. t \in Members(k.list[q]) /\ t \in Thread
  BY <1>1, <1>2, <1>4, HeadIs
<1> HIDE DEF t, q
<1>7. IpcInv'
  <2>1. {t} \in SUBSET Members(k.list[q])
    BY <1>6
  <2> QED BY <1>1, <1>2, <1>3, <1>5, <2>1, ResumedIpcInv DEF ObjInv
<1>8. Attached'
  BY <1>1, <1>2, GotoAttached
<1>9. \A r \in Queue : Members(k'.list[r]) \subseteq Members(k.list[r])
  BY <1>5 DEF Resumed, Stands
<1>10. ObjInv'
  BY <1>1, <1>7, <1>8, <1>9, ShrinkObjInv
<1>11. \A r \in Queue : t \notin Members(k'.list[r])
  <2>1. k'.stat[t] \in Runnable
    BY <1>5 DEF Resumed, Stands
  <2>2. k'.stat[t] # "SUSPEND"
    BY <2>1 DEF Runnable
  <2> QED BY <1>5, <2>2, NotSuspended
<1> QED BY <1>5, <1>6, <1>10, <1>11 DEF t, q

\* The call that takes an object out of the system begins.
LEMMA DetachObjInv ==
  ASSUME Polite, ObjInv, NEW c \in Thread, NEW q \in Queue, Detach(c, q)
  PROVE  ObjInv'
<1>1. /\ Asks(c, "detach", q) /\ obj' = [obj EXCEPT ![q] = "leaving"]
      /\ UNCHANGED <<k, isr>> /\ pc' = [pc EXCEPT ![c] = At("ipc_test", q)]
  BY DEF Detach, Goto
<1>2. c = k.current /\ k.stat[c] = "RUNNING" /\ c # Idle
  BY <1>1, AsksFacts DEF ObjInv
<1>3. "ipc_test" \notin Label /\ "ipc_test" \notin HoldLabels
      /\ LabelOK(c, "ipc_test", q)
  BY <1>2 DEF Label, HoldLabels, LabelOK, RacyLabels
<1>4. IpcInv'
  BY <1>1, <1>2, <1>3, SameIpcInv DEF ObjInv
<1>5. Attached'
  BY <1>1, GotoAttached
<1> QED BY <1>1, <1>4, <1>5 DEF ObjInv, NobodyLeftBehind

\* An object is initialized again.
LEMMA InitializeObjInv ==
  ASSUME ObjInv, NEW c \in Thread, NEW q \in Queue, Initialize(c, q)
  PROVE  ObjInv'
<1>1. UNCHANGED <<k, isr, pc>> /\ obj' = [obj EXCEPT ![q] = "live"]
  BY DEF Initialize
<1>2. IpcInv'
  BY <1>1, UnchangedIpcInv DEF ObjInv
<1> QED BY <1>1, <1>2 DEF ObjInv, NobodyLeftBehind, Attached

\* A call that returns at once.
LEMMA UnchangedObjInv ==
  ASSUME ObjInv, UNCHANGED ipcVars
  PROVE  ObjInv'
<1>1. UNCHANGED <<k, isr, pc>> /\ obj' = obj
  BY DEF ipcVars
<1>2. IpcInv'
  BY <1>1, UnchangedIpcInv DEF ObjInv
<1> QED BY <1>1, <1>2 DEF ObjInv, NobodyLeftBehind, Attached

\* A RUNNING thread blocks, in a call or again, on an object that is not gone.
LEMMA BlockedObjInv ==
  ASSUME ObjInv, NEW c \in Thread, NEW q \in Queue, obj[q] # "none",
         c = k.current, k.stat[c] = "RUNNING", c # Idle,
         Core(k', {}), CurrentOK(k'), Blocks(k, k', q, c),
         pc' = [pc EXCEPT ![c] = At("ipc_sched", q)], UNCHANGED <<isr, obj>>
  PROVE  ObjInv'
<1>1. Core(k, {}) /\ IpcInv
  BY DEF ObjInv, IpcInv, IInv
<1>2. IpcInv' /\ Blocks(k, k', q, c)
  BY <1>1, BlockIpcInv
<1>3. Attached'
  BY GotoAttached
<1>4. ASSUME NEW r \in Queue, obj'[r] = "none" PROVE k'.list[r] = << >>
  <2>1. r # q /\ k.list[r] = << >> /\ r \in Head_
    BY <1>4 DEF ObjInv, NobodyLeftBehind, Head_
  <2>2. Core(k', {})
    BY <1>2 DEF IpcInv, IInv
  <2>3. Members(k'.list[r]) \subseteq Members(k.list[r])
    <3>1. \A x \in Members(k'.list[r]) : x \in Thread /\ x # c
      BY <1>2, <2>1, <2>2, MembersAre DEF Blocks, Stands
    <3> QED BY <1>2, <2>1, <3>1 DEF Blocks, Stands
  <2> QED BY <1>1, <2>1, <2>2, <2>3, StaysEmpty
<1> QED BY <1>2, <1>3, <1>4 DEF ObjInv, NobodyLeftBehind

\* The first half of a blocking call on a live object.
LEMMA BlockObjInv ==
  ASSUME Polite, ObjInv, NEW c \in Thread, NEW a, NEW q \in Queue, Asks(c, a, q),
         Core(k', {}), CurrentOK(k'), Blocks(k, k', q, c),
         pc' = [pc EXCEPT ![c] = At("ipc_sched", q)], UNCHANGED <<isr, obj>>
  PROVE  ObjInv'
<1>1. c = k.current /\ k.stat[c] = "RUNNING" /\ c # Idle /\ obj[q] # "none"
  BY AsksFacts DEF ObjInv
<1> QED BY <1>1, BlockedObjInv

\* A call that returns at once, and has set the error of its caller or changed
\* priorities.
LEMMA SparesObjInv ==
  ASSUME ObjInv, NEW c \in Thread, c = k.current, k.stat[c] = "RUNNING",
         Core(k', {}), CurrentOK(k'), Spares(k, k', c), UNCHANGED <<isr, pc, obj>>
  PROVE  ObjInv'
<1>1. IpcInv'
  BY SparesIpcInv DEF ObjInv
<1>2. Attached'
  BY DEF ObjInv, Attached
<1>3. \A q \in Queue : Members(k'.list[q]) \subseteq Members(k.list[q])
  BY DEF Spares
<1> QED BY <1>1, <1>2, <1>3, ShrinkObjInv

\* A call that resumes waiters of q and then calls rt_schedule.
LEMMA ResumedObjInv ==
  ASSUME Polite, ObjInv, NEW c \in Thread, NEW b, NEW q \in Queue, Asks(c, b, q),
         NEW X \in SUBSET Members(k.list[q]),
         Core(k', {}), CurrentOK(k'), Resumed(k, k', X),
         pc' = [pc EXCEPT ![c] = At("sched", c)], UNCHANGED <<isr, obj>>
  PROVE  ObjInv'
<1>1. /\ c = k.current /\ k.stat[c] = "RUNNING" /\ c # Idle /\ IpcInv
  BY AsksFacts DEF ObjInv
<1>2. "sched" \in Label /\ "sched" \notin HoldLabels /\ LabelOK(c, "sched", c)
  BY <1>1 DEF Label, HoldLabels, LabelOK, RacyLabels
<1>3. IpcInv'
  BY <1>1, <1>2, ResumedIpcInv
<1>4. \A r \in Queue : Members(k'.list[r]) \subseteq Members(k.list[r])
  BY DEF Resumed
<1>5. Attached'
  BY <1>2, GotoAttached
<1> QED BY <1>3, <1>4, <1>5, ShrinkObjInv

-----------------------------------------------------------------------------
(***************************************************************************)
(* The state of one thread's blocking call on q, as a function of the      *)
(* kernel and the continuations, and how the steps that all objects share  *)
(* change it.                                                              *)
(***************************************************************************)
CallOf(q, kk, p, t) ==
  IF p[t].at \in WaitLabels /\ p[t].arg = q
    THEN IF t \in Members(kk.list[q]) THEN "waiting"
         ELSE IF kk.err[t] = "EOK" THEN "granted" ELSE "failed"
    ELSE "none"

SameCalls(q) == \A x \in Thread : CallOf(q, k', pc', x) = CallOf(q, k, pc, x)

\* The call of one thread, whose outcome was one of from, is now to.
OneCall(q, from, to) ==
  \E t \in Thread : /\ CallOf(q, k, pc, t) \in from /\ CallOf(q, k', pc', t) = to
                    /\ \A x \in Thread \ {t} : CallOf(q, k', pc', x) = CallOf(q, k, pc, x)

\* The sets of callers by outcome.
LEMMA CallsAre ==
  ASSUME NEW q
  PROVE  /\ Waiting(q) = {t \in Thread : CallOf(q, k, pc, t) = "waiting"}
         /\ Granted(q) = {t \in Thread : CallOf(q, k, pc, t) = "granted"}
         /\ Failed(q) = {t \in Thread : CallOf(q, k, pc, t) = "failed"}
BY DEF Waiting, Granted, Failed, Inside, CallOf, WaitLabels

\* A step that does not move the thread in or out of a call, nor changes what
\* resumes it has seen.
LEMMA SameCall ==
  ASSUME NEW q, NEW kk, NEW u, NEW p, NEW r, NEW t,
         \/ r[t] = p[t]
         \/ p[t].at \in WaitLabels /\ r[t].at \in WaitLabels /\ r[t].arg = p[t].arg,
         u.err[t] = kk.err[t],
         t \in Members(u.list[q]) <=> t \in Members(kk.list[q])
  PROVE  CallOf(q, u, r, t) = CallOf(q, kk, p, t)
BY DEF CallOf

\* A thread outside every blocking call, or in one on another object.
LEMMA NoCall ==
  ASSUME NEW q, NEW kk, NEW p, NEW t, p[t].at \notin WaitLabels \/ p[t].arg # q
  PROVE  CallOf(q, kk, p, t) = "none"
BY DEF CallOf

\* The labels of the thread API are outside IPC calls.
LEMMA LabelsApart == \A l \in Label : l \notin WaitLabels
BY DEF Label, WaitLabels

\* The threads in the suspend list are those with a waiting call.
LEMMA WaitersWait ==
  ASSUME NEW kk, NEW p, Core(kk, {}), Linked(kk, p), NEW q \in Queue
  PROVE  /\ \A t \in Members(kk.list[q]) : t \in Thread /\ CallOf(q, kk, p, t) = "waiting"
         /\ \A t \in Thread : CallOf(q, kk, p, t) = "waiting" => t \in Members(kk.list[q])
<1>1. \A t \in Members(kk.list[q]) : t \in Thread
  BY MembersAre
<1> QED BY <1>1 DEF Linked, CallOf

\* Steps that begin no call and grant none.
Eases(q) ==
  \/ SameCalls(q) \/ OneCall(q, {"waiting"}, "failed")
  \/ OneCall(q, {"granted", "failed"}, "none")

\* In such a step nobody joins a list, and nobody is newly granted.
LEMMA EasedCalls ==
  ASSUME ObjInv, ObjInv', NEW q \in Queue, Eases(q)
  PROVE  /\ Members(k'.list[q]) \subseteq Members(k.list[q])
         /\ \A t \in Thread : CallOf(q, k', pc', t) = "granted" =>
                              CallOf(q, k, pc, t) = "granted"
<1>1. Core(k, {}) /\ Linked(k, pc) /\ Core(k', {}) /\ Linked(k', pc')
  BY DEF ObjInv, IpcInv, IInv, WaitersOK
<1>2. /\ \A t \in Members(k'.list[q]) : t \in Thread /\ CallOf(q, k', pc', t) = "waiting"
      /\ \A t \in Thread : CallOf(q, k, pc, t) = "waiting" => t \in Members(k.list[q])
  BY <1>1, WaitersWait
<1>3. \A t \in Thread : \A o \in {"waiting", "granted"} :
        CallOf(q, k', pc', t) = o => CallOf(q, k, pc, t) = o
  BY DEF Eases, SameCalls, OneCall
<1> QED BY <1>2, <1>3

\* The scheduler, the thread API and the tick interrupt: at most one waiting
\* call times out.
LEMMA NextCalls ==
  ASSUME Polite, ObjInv, Next, UNCHANGED obj, NEW q \in Queue
  PROVE  SameCalls(q) \/ OneCall(q, {"waiting"}, "failed")
<1>1. /\ Core(k, {}) /\ WaitersOK(k, pc) /\ IpcInv
  BY DEF ObjInv, IpcInv, IInv
<1>2. ObjInv'
  BY <1>1, NextObjInv
<1>3. \A x \in Thread : Unmoved(x)
  BY <1>1, NextIpcInv
<1>4. PICK t \in Thread : Quiet(t)
  BY <1>1, NextIpcInv
<1>5. Steady(k, k', {t}) /\ Core(k', {})
  BY <1>2, <1>4 DEF Quiet, ObjInv, IpcInv, IInv
<1>6. ASSUME NEW x \in Thread, pc[x].at \in Label
      PROVE  CallOf(q, k', pc', x) = CallOf(q, k, pc, x)
  <2>1. pc'[x].at \in Label
    BY <1>3, <1>6 DEF Unmoved
  <2> QED BY <1>6, <2>1, LabelsApart, NoCall
<1>7. ASSUME NEW x \in Thread \ {t} PROVE CallOf(q, k', pc', x) = CallOf(q, k, pc, x)
  <2>1. CASE pc'[x] = pc[x]
    BY <1>1, <1>5, <2>1, SameCall DEF Steady
  <2>2. CASE pc[x].at \in Label
    BY <1>6, <2>2
  <2> QED BY <1>3, <2>1, <2>2 DEF Unmoved
<1>8. CASE pc[t].at \in Label
  BY <1>6, <1>7, <1>8 DEF SameCalls
<1>9. CASE TimedOut(t)
  <2>1. /\ pc' = pc /\ k'.err[t] = "ETIMEOUT"
        /\ k.stat[t] = "SUSPEND" /\ k'.stat[t] \in Runnable
    BY <1>9 DEF TimedOut
  <2>2. t \notin Members(k'.list[q])
    <3>1. k'.stat[t] # "SUSPEND"
      BY <2>1 DEF Runnable
    <3> QED BY <1>1, <1>5, <3>1, NotSuspended
  <2>3. CASE CallOf(q, k, pc, t) = "none"
    <3>1. CallOf(q, k', pc', t) = "none"
      BY <2>1, <2>3 DEF CallOf
    <3> QED BY <1>7, <2>3, <3>1 DEF SameCalls
  <2>4. CASE CallOf(q, k, pc, t) # "none"
    <3>1. pc[t].at \in WaitLabels /\ pc[t].arg = q
      BY <2>4 DEF CallOf
    <3>2. pc[t].at \notin Label /\ k.stat[t] \notin Runnable
      BY <2>1, <3>1, LabelsApart DEF Runnable
    <3>3. t \in Members(k.list[q])
      BY <1>1, <3>1, <3>2 DEF WaitersOK, Away, Linked
    <3>4. CallOf(q, k, pc, t) = "waiting" /\ CallOf(q, k', pc', t) = "failed"
      BY <2>1, <2>2, <3>1, <3>3 DEF CallOf
    <3> QED BY <1>7, <3>4 DEF OneCall
  <2> QED BY <2>3, <2>4
<1> QED BY <1>4, <1>8, <1>9 DEF Quiet

\* The call of rt_schedule in a blocking call.
LEMMA BlockScheduleCalls ==
  ASSUME ObjInv, NEW c \in Thread, BlockSchedule(c), NEW q \in Queue
  PROVE  SameCalls(q)
<1>1. Steady(k, k', {})
  BY BlockScheduleObjInv
<1>2. pc = [x \in Thread |-> pc[x]]
  BY DEF ObjInv, IpcInv, IInv, StateOK
<1>3. pc[c].at = "ipc_sched" /\ pc' = [pc EXCEPT ![c] = At("ipc_end", pc[c].arg)]
  BY DEF BlockSchedule, Executes, Goto
<1>4. ASSUME NEW x \in Thread PROVE CallOf(q, k', pc', x) = CallOf(q, k, pc, x)
  <2>1. \/ pc'[x] = pc[x]
        \/ pc[x].at \in WaitLabels /\ pc'[x].at \in WaitLabels /\ pc'[x].arg = pc[x].arg
    BY <1>2, <1>3 DEF WaitLabels, At
  <2> QED BY <1>1, <2>1, SameCall DEF Steady
<1> QED BY <1>4 DEF SameCalls

\* A step of c that leaves the kernel alone and takes c out of its call, if it
\* was in one, or to a label outside calls.
LEMMA MovedCalls ==
  ASSUME ObjInv, NEW c \in Thread, k' = k, NEW l, NEW a, l \notin WaitLabels,
         pc' = [pc EXCEPT ![c] = At(l, a)], NEW q
  PROVE  /\ CallOf(q, k', pc', c) = "none"
         /\ \A x \in Thread \ {c} : CallOf(q, k', pc', x) = CallOf(q, k, pc, x)
<1>1. pc = [x \in Thread |-> pc[x]]
  BY DEF ObjInv, IpcInv, IInv, StateOK
<1>2. pc'[c].at = l /\ \A x \in Thread \ {c} : pc'[x] = pc[x]
  BY <1>1 DEF At
<1>3. CallOf(q, k', pc', c) = "none"
  BY <1>2, NoCall
<1>4. ASSUME NEW x \in Thread \ {c} PROVE CallOf(q, k', pc', x) = CallOf(q, k, pc, x)
  <2>1. pc'[x] = pc[x] /\ k'.err[x] = k.err[x] /\ k'.list[q] = k.list[q]
    BY <1>2
  <2> QED BY <2>1 DEF CallOf
<1> QED BY <1>3, <1>4

\* The return of a blocking call, whose outcome has been decided.
LEMMA BlockEndCalls ==
  ASSUME ObjInv, NEW c \in Thread, BlockEnd(c), NEW q \in Queue
  PROVE  SameCalls(q) \/ OneCall(q, {"granted", "failed"}, "none")
<1>1. Core(k, {})
  BY DEF ObjInv, IpcInv, IInv
<1>2. /\ Executes(c, "ipc_end") /\ k' = k
      /\ pc' = [pc EXCEPT ![c] = At("run", c)]
  BY DEF BlockEnd, Return, Goto
<1>3. "run" \notin WaitLabels
  BY DEF WaitLabels
<1>4. /\ CallOf(q, k', pc', c) = "none"
      /\ \A x \in Thread \ {c} : CallOf(q, k', pc', x) = CallOf(q, k, pc, x)
  BY <1>2, <1>3, MovedCalls
<1>5. CallOf(q, k, pc, c) \in {"none", "granted", "failed"}
  <2>1. k.stat[c] = "RUNNING"
    BY <1>1, <1>2, IpcExecutes DEF Label
  <2>2. c \notin Members(k.list[q])
    BY <1>1, <2>1, NotSuspended
  <2> QED BY <2>2 DEF CallOf
<1>6. CASE CallOf(q, k, pc, c) = "none"
  BY <1>4, <1>6 DEF SameCalls
<1>7. CASE CallOf(q, k, pc, c) \in {"granted", "failed"}
  BY <1>4, <1>7 DEF OneCall
<1> QED BY <1>5, <1>6, <1>7

\* The test of the list in rt_ipc_list_resume_all.
LEMMA ResumeAllTestCalls ==
  ASSUME ObjInv, NEW c \in Thread, ResumeAllTest(c), NEW q \in Queue
  PROVE  SameCalls(q)
<1>1. pc[c].at = "ipc_test" /\ k' = k
  BY DEF ResumeAllTest, Executes
<1>2. PICK l \in {"run", "ipc_next"} : \E a : pc' = [pc EXCEPT ![c] = At(l, a)]
  BY DEF ResumeAllTest, Return, Goto
<1>3. PICK a : pc' = [pc EXCEPT ![c] = At(l, a)]
  BY <1>2
<1>4. l \notin WaitLabels /\ pc[c].at \notin WaitLabels
  BY <1>1, <1>2 DEF WaitLabels
<1>5. /\ CallOf(q, k', pc', c) = "none"
      /\ \A x \in Thread \ {c} : CallOf(q, k', pc', x) = CallOf(q, k, pc, x)
  BY <1>1, <1>3, <1>4, MovedCalls
<1>6. CallOf(q, k, pc, c) = "none"
  BY <1>4, NoCall
<1> QED BY <1>5, <1>6 DEF SameCalls

\* One waiter is resumed because its object is detached.
LEMMA ResumeAllNextCalls ==
  ASSUME ObjInv, NEW c \in Thread, ResumeAllNext(c), NEW q \in Queue
  PROVE  SameCalls(q) \/ OneCall(q, {"waiting"}, "failed")
<1> DEFINE r == pc[c].arg
           t == Head(k.list[r])
<1>1. /\ Resumed(k, k', {t}) /\ k'.err[t] = "ERROR"
      /\ t \in Members(k.list[r]) /\ t \in Thread
      /\ \A h \in Queue : t \notin Members(k'.list[h])
  BY ResumeAllNextObjInv
<1>2. Linked(k, pc) /\ pc = [x \in Thread |-> pc[x]]
  BY DEF ObjInv, IpcInv, IInv, StateOK, WaitersOK
<1>3. Executes(c, "ipc_next") /\ pc' = [pc EXCEPT ![c] = At("ipc_test", r)]
  BY DEF ResumeAllNext, Goto
<1>4. r \in Queue
  BY <1>2, <1>3, IpcExecutes DEF Label
<1> HIDE DEF t, r
<1>5. pc'[c].at = "ipc_test" /\ \A x \in Thread \ {c} : pc'[x] = pc[x]
  BY <1>2, <1>3 DEF At
<1>6. pc[c].at \notin WaitLabels /\ pc'[c].at \notin WaitLabels
  BY <1>3, <1>5 DEF Executes, WaitLabels
<1>7. pc[t].at \in WaitLabels /\ pc[t].arg = r /\ t # c
  BY <1>1, <1>2, <1>4, <1>6 DEF Linked
<1>8. ASSUME NEW x \in Thread \ {t} PROVE CallOf(q, k', pc', x) = CallOf(q, k, pc, x)
  <2>1. CASE x = c
    BY <1>6, <2>1, NoCall
  <2>2. CASE x # c
    <3>1. k'.err[x] = k.err[x] /\ (x \in Members(k'.list[q]) <=> x \in Members(k.list[q]))
      BY <1>1, <1>2 DEF Resumed, Stands
    <3> QED BY <1>5, <2>2, <3>1, SameCall
  <2> QED BY <2>1, <2>2
<1>9. CASE q = r
  <2>1. CallOf(q, k, pc, t) = "waiting" /\ CallOf(q, k', pc', t) = "failed"
    BY <1>1, <1>2, <1>5, <1>7, <1>9 DEF CallOf
  <2> QED BY <1>1, <1>8, <2>1 DEF OneCall
<1>10. CASE q # r
  <2>1. CallOf(q, k, pc, t) = "none" /\ CallOf(q, k', pc', t) = "none"
    BY <1>1, <1>5, <1>7, <1>10, NoCall
  <2> QED BY <1>8, <2>1 DEF SameCalls
<1> QED BY <1>9, <1>10

\* Detaching begins.
LEMMA DetachCalls ==
  ASSUME Polite, ObjInv, NEW c \in Thread, NEW r \in Queue, Detach(c, r), NEW q \in Queue
  PROVE  SameCalls(q)
<1>1. /\ Asks(c, "detach", r) /\ k' = k /\ IpcInv
      /\ pc' = [pc EXCEPT ![c] = At("ipc_test", r)]
  BY DEF Detach, Goto, ObjInv
<1>2. pc[c].at \in Label
  BY <1>1, AsksFacts
<1>3. "ipc_test" \notin WaitLabels /\ pc[c].at \notin WaitLabels
  BY <1>2, LabelsApart DEF WaitLabels
<1>4. CallOf(q, k, pc, c) = "none"
  BY <1>3, NoCall
<1>5. /\ CallOf(q, k', pc', c) = "none"
      /\ \A x \in Thread \ {c} : CallOf(q, k', pc', x) = CallOf(q, k, pc, x)
  BY <1>1, <1>3, MovedCalls
<1> QED BY <1>4, <1>5 DEF SameCalls

\* A call c makes from application code moves no thread out of its own call.
LEMMA CallerMoves ==
  ASSUME ObjInv, NEW c \in Thread, pc[c].at \in Label, NEW l \in Label, NEW a,
         \/ UNCHANGED pc
         \/ pc' = [pc EXCEPT ![c] = At(l, a)]
  PROVE  /\ \A x \in Thread \ {c} : pc'[x] = pc[x]
         /\ \A q : CallOf(q, k, pc, c) = "none" /\ CallOf(q, k', pc', c) = "none"
<1>1. pc = [x \in Thread |-> pc[x]]
  BY DEF ObjInv, IpcInv, IInv, StateOK
<1>2. pc'[c].at \in Label /\ \A x \in Thread \ {c} : pc'[x] = pc[x]
  BY <1>1 DEF At
<1> QED BY <1>2, LabelsApart, NoCall

\* A call that returns at once ends no other.
LEMMA SparesCalls ==
  ASSUME ObjInv, NEW c \in Thread, pc[c].at \in Label, Spares(k, k', c), UNCHANGED pc,
         NEW q \in Queue
  PROVE  SameCalls(q)
<1>1. "run" \in Label
  BY DEF Label
<1>2. CallOf(q, k, pc, c) = "none" /\ CallOf(q, k', pc', c) = "none"
  BY <1>1, CallerMoves
<1>3. ASSUME NEW x \in Thread \ {c} PROVE CallOf(q, k', pc', x) = CallOf(q, k, pc, x)
  <2>1. pc'[x] = pc[x] /\ k'.err[x] = k.err[x] /\ k'.list[q] = k.list[q]
    BY DEF Spares, Stands
  <2> QED BY <2>1, SameCall
<1> QED BY <1>2, <1>3 DEF SameCalls

\* The first half of a blocking call on r: the caller waits.
LEMMA BlockCalls ==
  ASSUME ObjInv, NEW c \in Thread, pc[c].at \in Label, NEW r \in Queue,
         Blocks(k, k', r, c), pc' = [pc EXCEPT ![c] = At("ipc_sched", r)],
         NEW q \in Queue
  PROVE  IF q = r THEN OneCall(q, {"none"}, "waiting") ELSE SameCalls(q)
<1>1. pc = [x \in Thread |-> pc[x]]
  BY DEF ObjInv, IpcInv, IInv, StateOK
<1>2. /\ pc'[c].at \in WaitLabels /\ pc'[c].arg = r
      /\ \A x \in Thread \ {c} : pc'[x] = pc[x]
  BY <1>1 DEF At, WaitLabels
<1>3. CallOf(q, k, pc, c) = "none"
  BY LabelsApart, NoCall
<1>4. ASSUME NEW x \in Thread \ {c} PROVE CallOf(q, k', pc', x) = CallOf(q, k, pc, x)
  <2>1. k'.err[x] = k.err[x] /\ (x \in Members(k'.list[q]) <=> x \in Members(k.list[q]))
    BY DEF Blocks, Stands
  <2> QED BY <1>2, <2>1 DEF CallOf
<1>5. CASE q = r
  <2>1. CallOf(q, k', pc', c) = "waiting"
    BY <1>2, <1>5 DEF CallOf, Blocks
  <2> QED BY <1>3, <1>4, <1>5, <2>1 DEF OneCall
<1>6. CASE q # r
  <2>1. CallOf(q, k', pc', c) = "none"
    BY <1>2, <1>6 DEF CallOf
  <2> QED BY <1>3, <1>4, <1>6, <2>1 DEF SameCalls
<1> QED BY <1>5, <1>6

\* Waiters of r are resumed, by a step that moves no thread out of its call.
LEMMA ResumedCalls ==
  ASSUME ObjInv, NEW r \in Queue, NEW X \in SUBSET Members(k.list[r]),
         NEW u, Core(u, {}), Resumed(k, u, X), NEW p, \A x \in X : p[x] = pc[x],
         NEW q \in Queue
  PROVE  \A x \in X :
           /\ x \in Thread
           /\ q = r => /\ CallOf(q, k, pc, x) = "waiting"
                       /\ CallOf(q, u, p, x) = IF u.err[x] = "EOK" THEN "granted" ELSE "failed"
           /\ q # r => /\ CallOf(q, k, pc, x) = "none" /\ CallOf(q, u, p, x) = "none"
<1>1. Core(k, {}) /\ Linked(k, pc)
  BY DEF ObjInv, IpcInv, IInv, WaitersOK
<1>2. ASSUME NEW x \in X
      PROVE  /\ x \in Thread /\ pc[x].at \in WaitLabels /\ pc[x].arg = r
             /\ x \in Members(k.list[r]) /\ x \notin Members(u.list[q])
  <2>1. x \in Members(k.list[r]) /\ x \in Thread
    BY <1>1, MembersAre
  <2>2. u.stat[x] # "SUSPEND"
    BY DEF Resumed, Runnable
  <2> QED BY <1>1, <2>1, <2>2, NotSuspended DEF Linked
<1> QED BY <1>2 DEF CallOf

\* What the steps that all objects share have in common.
LEMMA ContinueEases ==
  ASSUME ObjInv, NEW c \in Thread, IpcContinue(c)
  PROVE  ObjInv' /\ \A q \in Queue : Eases(q)
<1>1. CASE BlockSchedule(c)
  BY <1>1, BlockScheduleObjInv, BlockScheduleCalls DEF Eases
<1>2. CASE BlockEnd(c)
  BY <1>2, BlockEndObjInv, BlockEndCalls DEF Eases
<1>3. CASE ResumeAllTest(c)
  BY <1>3, ResumeAllTestObjInv, ResumeAllTestCalls DEF Eases
<1>4. CASE ResumeAllNext(c)
  BY <1>4, ResumeAllNextObjInv, ResumeAllNextCalls DEF Eases
<1> QED BY <1>1, <1>2, <1>3, <1>4 DEF IpcContinue

-----------------------------------------------------------------------------
(***************************************************************************)
(* The steps of callers that look again when they have been resumed, which *)
(* need not begin in application code.                                     *)
(***************************************************************************)
\* Thread c may go to label l with argument a: not to one of the thread API that
\* says something about another thread.
Goes(c, l, a) ==
  /\ LabelOK(c, l, a) /\ l \notin HoldLabels /\ l # "suspend_body"
  /\ l \in Label => a \in Thread
  /\ l \notin Label => a \in Queue

\* The thread that has the CPU and may use it.
Runs(c) == c = k.current /\ k.stat[c] = "RUNNING" /\ c # Idle

\* It resumes some waiters, or none.
LEMMA RunsObjInv ==
  ASSUME ObjInv, NEW c \in Thread, Runs(c), NEW l, NEW a, Goes(c, l, a),
         NEW X \in SUBSET Waiters(k), Core(k', {}), CurrentOK(k'), Resumed(k, k', X),
         pc' = [pc EXCEPT ![c] = At(l, a)], UNCHANGED <<isr, obj>>
  PROVE  ObjInv'
<1>1. IpcInv'
  BY WaitersResumedIpcInv DEF ObjInv, Runs, Goes
<1>2. \A r \in Queue : Members(k'.list[r]) \subseteq Members(k.list[r])
  BY DEF Resumed
<1>3. Attached'
  BY GotoAttached DEF Goes
<1> QED BY <1>1, <1>2, <1>3, ShrinkObjInv

\* It leaves the kernel alone.
LEMMA SameObjInv ==
  ASSUME ObjInv, NEW c \in Thread, Runs(c), NEW l, NEW a, Goes(c, l, a), NEW q \in Queue,
         k' = k, pc' = [pc EXCEPT ![c] = At(l, a)], UNCHANGED isr
  PROVE  IpcInv' /\ Attached' /\ (UNCHANGED obj => ObjInv')
<1>1. IpcInv'
  BY SameIpcInv DEF ObjInv, Runs, Goes
<1>2. Attached'
  BY GotoAttached DEF Goes
<1> QED BY <1>1, <1>2, ShrinkObjInv

\* It sets its own error.
LEMMA ErrorCallInv ==
  ASSUME CallInv, NEW c \in Thread, Runs(c), NEW l, NEW a, Goes(c, l, a),
         NEW e \in Error, k' = [k EXCEPT !.err[c] = e],
         pc' = [pc EXCEPT ![c] = At(l, a)], UNCHANGED isr
  PROVE  CallInv' /\ Spares(k, k', c)
<1>1. /\ IInv /\ Core(k, {}) /\ CurrentOK(k) /\ WaitersOK(k, pc) /\ IpcInv
      /\ isr' \in {"none", "timer"} /\ pc = [x \in Thread |-> pc[x]]
  BY DEF CallInv, IpcInv, IInv, StateOK
<1>2. Core(k', {}) /\ CurrentOK(k') /\ Spares(k, k', c)
  BY <1>1, SetErrorSpares
<1>3. /\ k'.stat[c] = "RUNNING" /\ k'.current = c /\ k'.lock = 0
      /\ \A x \in Thread : k'.stat[x] = k.stat[x]
  BY <1>1, <1>2 DEF Spares, Stands, IpcInv, Runs
<1>4. ~ Held(k, c)
  BY DEF Held, Runs
<1>5. \A x \in Thread \ {c} : Held(k, x) => Held(k', x) /\ k'.stat[x] = k.stat[x]
  BY <1>2, <1>3 DEF Held, Spares, Stands
<1>6. IdleSchedulable(k') /\ DefunctOK' /\ SliceOK' /\ DeadOK'
  BY <1>1, <1>2, <1>3, ThreadAssumption
     DEF IdleSchedulable, DefunctOK, SliceOK, DeadOK, IInv, Spares
<1>7. \A d \in Thread \ {c} : Holds(d) => pc[d].arg # c
  BY <1>1, <1>4 DEF IInv, HeldThreads
<1>8. IInv'
  BY <1>1, <1>2, <1>5, <1>6, <1>7, StepIInv DEF Goes
<1>9. /\ pc'[c].at = l /\ pc'[c].arg = a
      /\ \A x \in Thread \ {c} : pc'[x] = pc[x]
  BY <1>1 DEF At
<1>10. WaitersOK(k', pc')
  <2> DEFINE X == {c}
  <2>1. Steady(k, k', X) /\ (\A x \in X : k'.stat[x] \in Runnable) /\ X \in SUBSET Thread
    BY <1>2, <1>3 DEF Steady, Spares, Stands, Runnable
  <2>2. \A x \in Thread : pc'[x] = pc[x] \/ k'.stat[x] \in Runnable
    BY <1>9, <2>1
  <2> HIDE DEF X
  <2>3. Core(k', {})
    BY <1>2
  <2> QED BY ONLY <1>1, <2>1, <2>2, <2>3, WaitersKept
<1>11. \A x \in Thread : pc'[x].at # "suspend_body"
  BY <1>1, <1>9 DEF IpcInv, Goes
<1>12. IpcInv'
  BY <1>3, <1>8, <1>10, <1>11 DEF IpcInv, CurrentRuns
<1>13. Attached'
  BY CallAttached DEF Goes
<1> QED BY <1>2, <1>12, <1>13 DEF CallInv

LEMMA ErrorObjInv ==
  ASSUME ObjInv, NEW c \in Thread, Runs(c), NEW l, NEW a, Goes(c, l, a),
         NEW e \in Error, k' = [k EXCEPT !.err[c] = e],
         pc' = [pc EXCEPT ![c] = At(l, a)], UNCHANGED <<isr, obj>>
  PROVE  ObjInv' /\ Spares(k, k', c)
<1>1. IpcInv' /\ Attached' /\ Spares(k, k', c)
  BY ErrorCallInv DEF ObjInv, CallInv
<1>2. \A r \in Queue : Members(k'.list[r]) \subseteq Members(k.list[r])
  BY <1>1 DEF Spares
<1> QED BY <1>1, <1>2, ShrinkObjInv

\* It calls rt_schedule.
LEMMA ScheduleCallInv ==
  ASSUME CallInv, NEW c \in Thread, Runs(c), NEW l, NEW a, Goes(c, l, a),
         k' = rt_schedule(k), pc' = [pc EXCEPT ![c] = At(l, a)], UNCHANGED isr
  PROVE  CallInv' /\ Moves(k, k') /\ Steady(k, k', {})
<1>1. /\ IInv /\ Core(k, {}) /\ CurrentOK(k) /\ IdleSchedulable(k) /\ IpcInv
      /\ WaitersOK(k, pc) /\ k.lock = 0 /\ pc = [x \in Thread |-> pc[x]]
  BY DEF CallInv, IpcInv, IInv, StateOK
<1>2. IInv'
  BY <1>1, ScheduleStep DEF Runs, Goes
<1>3. Moves(k, k') /\ k'.stat[k'.current] = "RUNNING"
  BY <1>1, ScheduleCore, ScheduleRuns
<1>4. Steady(k, k', {}) /\ k'.lock = 0
  BY <1>1, <1>3, MovesSteady DEF Moves
<1>5. /\ pc'[c].at = l /\ pc'[c].arg = a
      /\ \A x \in Thread \ {c} : pc'[x] = pc[x]
  BY <1>1 DEF At
<1>6. k'.stat[c] \in Runnable
  BY <1>3 DEF Moves, Runs, Runnable
<1>7. WaitersOK(k', pc')
  <2>1. \A x \in Thread : pc'[x] = pc[x] \/ k'.stat[x] \in Runnable
    BY <1>5, <1>6
  <2>2. {} \in SUBSET Thread /\ Core(k', {})
    BY <1>2 DEF IInv
  <2> QED BY <1>1, <1>4, <2>1, <2>2, WaitersKept
<1>8. \A x \in Thread : pc'[x].at # "suspend_body"
  BY <1>1, <1>5 DEF IpcInv, Goes
<1>9. IpcInv'
  BY <1>2, <1>3, <1>4, <1>7, <1>8 DEF IpcInv, CurrentRuns
<1>10. Attached'
  BY CallAttached DEF Goes
<1> QED BY <1>3, <1>4, <1>9, <1>10 DEF CallInv

LEMMA ScheduleObjInv ==
  ASSUME ObjInv, NEW c \in Thread, Runs(c), NEW l, NEW a, Goes(c, l, a),
         k' = rt_schedule(k), pc' = [pc EXCEPT ![c] = At(l, a)], UNCHANGED <<isr, obj>>
  PROVE  ObjInv' /\ Steady(k, k', {})
<1>1. IpcInv' /\ Attached' /\ Steady(k, k', {})
  BY ScheduleCallInv DEF ObjInv, CallInv
<1>2. \A r \in Queue : Members(k'.list[r]) \subseteq Members(k.list[r])
  BY <1>1 DEF Steady
<1> QED BY <1>1, <1>2, ShrinkObjInv

\* It goes to a label outside calls, or to one on another object, and what it
\* does to the kernel concerns nobody else's call.
LEMMA GoesCalls ==
  ASSUME ObjInv, NEW c \in Thread, NEW l, NEW a, NEW q \in Queue,
         l \notin WaitLabels \/ a # q, pc' = [pc EXCEPT ![c] = At(l, a)],
         \A x \in Thread \ {c} :
           /\ k'.err[x] = k.err[x]
           /\ x \in Members(k'.list[q]) <=> x \in Members(k.list[q])
  PROVE  /\ CallOf(q, k', pc', c) = "none"
         /\ \A x \in Thread \ {c} : CallOf(q, k', pc', x) = CallOf(q, k, pc, x)
<1>1. pc = [x \in Thread |-> pc[x]]
  BY DEF ObjInv, IpcInv, IInv, StateOK
<1>2. /\ pc'[c].at = l /\ pc'[c].arg = a
      /\ \A x \in Thread \ {c} : pc'[x] = pc[x]
  BY <1>1 DEF At
<1>3. CallOf(q, k', pc', c) = "none"
  BY <1>2 DEF CallOf
<1>4. ASSUME NEW x \in Thread \ {c} PROVE CallOf(q, k', pc', x) = CallOf(q, k, pc, x)
  BY <1>2 DEF CallOf
<1> QED BY <1>3, <1>4

\* The first waiter t of r has been resumed without an error, which grants its
\* call; c is the thread that has done it, or any that does not wait.
LEMMA GrantedCalls ==
  ASSUME ObjInv, NEW r \in Queue, NEW t \in Members(k.list[r]), NEW u, Core(u, {}),
         Resumed(k, u, {t}), u.err[t] = "EOK", Steady(u, k', {}),
         NEW c \in Thread, k.stat[c] # "SUSPEND",
         \A x \in Thread \ {c} : pc'[x] = pc[x],
         NEW q \in Queue
  PROVE  /\ t \in Thread /\ t # c
         /\ q = r => /\ CallOf(q, k, pc, t) = "waiting"
                     /\ CallOf(q, k', pc', t) = "granted"
         /\ q # r => CallOf(q, k', pc', t) = CallOf(q, k, pc, t)
         /\ \A x \in Thread \ {t, c} : CallOf(q, k', pc', x) = CallOf(q, k, pc, x)
<1>1. Core(k, {})
  BY DEF ObjInv, IpcInv, IInv
<1>2. t \in Thread /\ t # c
  BY <1>1, MembersAre
<1>3. \A x \in {t} : pc'[x] = pc[x]
  BY <1>2
<1>4. \A x \in Thread :
        k'.err[x] = u.err[x] /\ (x \in Members(k'.list[q]) <=> x \in Members(u.list[q]))
  BY DEF Steady
<1>5. ASSUME NEW x \in Thread \ {t, c}
      PROVE  CallOf(q, k', pc', x) = CallOf(q, k, pc, x)
  <2>1. k'.err[x] = k.err[x] /\ (x \in Members(k'.list[q]) <=> x \in Members(k.list[q]))
    BY <1>4 DEF Resumed, Stands
  <2> QED BY <2>1, SameCall
<1>6. /\ q = r => CallOf(q, k, pc, t) = "waiting" /\ CallOf(q, u, pc', t) = "granted"
      /\ q # r => CallOf(q, k, pc, t) = "none" /\ CallOf(q, u, pc', t) = "none"
  <2> DEFINE X == {t}
  <2>1. X \in SUBSET Members(k.list[r]) /\ Resumed(k, u, X) /\ t \in X
        /\ \A x \in X : pc'[x] = pc[x]
    BY <1>3
  <2> HIDE DEF X
  <2> QED BY <2>1, ResumedCalls
<1>7. CallOf(q, k', pc', t) = CallOf(q, u, pc', t)
  BY <1>2, <1>4 DEF CallOf
<1> QED BY <1>2, <1>5, <1>6, <1>7
=============================================================================
