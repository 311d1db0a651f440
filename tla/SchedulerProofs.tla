-------------------------- MODULE SchedulerProofs --------------------------
(***************************************************************************)
(* The consistency of the scheduler's data, for any number of threads,     *)
(* priorities and time slices, in programs that do not use the calls whose *)
(* critical sections leave a race open (rt_thread_resume, rt_thread_delete *)
(* and rt_thread_detach of another thread).  Without rt_thread_suspend, it *)
(* also holds that a closed thread stays closed until it is released.      *)
(***************************************************************************)
EXTENDS Scheduler, KernelProofs

RacyCalls == {"resume", "delete", "detach"}

RaceFree == \A m \in May : m[2] \notin RacyCalls

-----------------------------------------------------------------------------
(***************************************************************************)
(* The inductive invariant.  Besides the kernel's own consistency it says  *)
(* where threads can be in their calls, that a thread being started or     *)
(* freed is left alone, that a closed current thread does nothing more,    *)
(* and that a static thread without cleanup is never defunct.              *)
(***************************************************************************)
RacyLabels == {"resume_unlink", "resume_insert", "delete_timer", "delete_close"}

LabelOK(c, l, x) ==
  /\ l \notin RacyLabels
  /\ c = Idle => l \in {"run", "idle_free"}
  /\ l = "idle_free" => c = Idle /\ x \notin Static
  /\ l = "suspend_body" => x # Idle

Labels == \A c \in Thread : LabelOK(c, pc[c].at, pc[c].arg)

StartsSuspended ==
  \A c \in Thread : pc[c].at \in {"startup_unlink", "startup_insert"} =>
    k.stat[pc[c].arg] = "SUSPEND"

DeadOK == k.stat[k.current] = "CLOSE" => pc[k.current].at = "dead"

DefunctOK == \A t \in Members(k.list[Defunct]) : t \notin Static \ Cleanup

SliceOK == \A t \in Thread : k.slice[t] > 0

\* The variables, as far as the scheduler looks at them: a thread that is at
\* one of its labels has a thread as the argument of its call.  (A thread in
\* the code of an IPC object is at another label.)
StateOK ==
  /\ k \in KernelType
  /\ isr \in {"none", "timer"}
  /\ pc = [t \in Thread |-> pc[t]]
  /\ \A t \in Thread : pc[t].at \in Label => pc[t].arg \in Thread

IInv ==
  /\ StateOK /\ Core(k, {}) /\ CurrentOK(k) /\ IdleSchedulable(k)
  /\ Labels /\ HeldThreads /\ StartsSuspended
  /\ DeadOK /\ DefunctOK /\ SliceOK

HoldLabels == {"startup_unlink", "startup_insert", "idle_free"}

-----------------------------------------------------------------------------
\* What a step of thread c, which concerns thread t, has to establish.
LEMMA StepIInv ==
  ASSUME IInv,
         NEW c \in Thread, NEW l, NEW a, NEW t \in Thread,
         l \in Label => a \in Thread,
         pc' = [pc EXCEPT ![c] = At(l, a)],
         isr' \in {"none", "timer"},
         Core(k', {}), CurrentOK(k'), IdleSchedulable(k'),
         DefunctOK', SliceOK', DeadOK',
         \A x \in Thread \ {t} :
           Held(k, x) => Held(k', x) /\ k'.stat[x] = k.stat[x],
         \/ Held(k, t) => Held(k', t) /\ k'.stat[t] = "SUSPEND"
         \/ \A d \in Thread \ {c} : Holds(d) => pc[d].arg # t,
         LabelOK(c, l, a),
         l \in HoldLabels =>
           /\ Held(k', a)
           /\ l # "idle_free" => k'.stat[a] = "SUSPEND"
           /\ \A d \in Thread \ {c} : Holds(d) => pc[d].arg # a
  PROVE  IInv'
<1>1. /\ pc = [d \in Thread |-> pc[d]]
      /\ \A d \in Thread : pc[d].at \in Label => pc[d].arg \in Thread
  BY DEF IInv, StateOK
<1>2. /\ pc' = [d \in Thread |-> pc'[d]]
      /\ pc'[c].at = l /\ pc'[c].arg = a
      /\ \A d \in Thread \ {c} : pc'[d] = pc[d]
  BY <1>1 DEF At
<1>3. StateOK'
  <2>1. \A d \in Thread : pc'[d].at \in Label => pc'[d].arg \in Thread
    BY <1>1, <1>2
  <2> QED BY <1>2, <2>1 DEF StateOK, Core
<1>4. Labels'
  <2>1. \A d \in Thread : LabelOK(d, pc'[d].at, pc'[d].arg)
    BY <1>2 DEF IInv, Labels
  <2> QED BY <2>1 DEF Labels, LabelOK
<1>5. \A d \in Thread : Holds(d) => Held(k, pc[d].arg)
  BY DEF IInv, HeldThreads
<1>6. ASSUME NEW d \in Thread \ {c}, Holds(d)
      PROVE  /\ Held(k', pc[d].arg)
             /\ pc[d].at # "idle_free" => k'.stat[pc[d].arg] = "SUSPEND"
  <2>1. pc[d].arg \in Thread /\ Held(k, pc[d].arg)
    BY <1>1, <1>5, <1>6 DEF Holds, Label
  <2>2. pc[d].at # "idle_free" => k.stat[pc[d].arg] = "SUSPEND"
    BY <1>6 DEF IInv, StartsSuspended, Holds
  <2>3. CASE pc[d].arg = t
    BY <1>6, <2>1, <2>3
  <2>4. CASE pc[d].arg # t
    BY <1>6, <2>1, <2>2, <2>4
  <2> QED BY <2>3, <2>4
<1>7. HeldThreads'
  <2>1. \A d \in Thread \ {c} : Holds(d)' <=> Holds(d)
    BY <1>2 DEF Holds
  <2>2. Holds(c)' <=> l \in HoldLabels
    BY <1>2 DEF Holds, HoldLabels
  <2>3. ASSUME NEW d \in Thread, Holds(d)' PROVE Held(k', pc'[d].arg)
    BY <1>2, <1>6, <2>1, <2>2, <2>3
  <2>4. ASSUME NEW d \in Thread, NEW e \in Thread, Holds(d)', Holds(e)',
               pc'[d].arg = pc'[e].arg
        PROVE  d = e
    BY <1>2, <2>1, <2>2, <2>4 DEF IInv, HeldThreads
  <2>5. \A d \in Thread : Holds(d)' => Held(k', pc'[d].arg)
    BY <2>3
  <2>6. \A d, e \in Thread :
          Holds(d)' /\ Holds(e)' /\ pc'[d].arg = pc'[e].arg => d = e
    BY <2>4
  <2> QED BY <2>5, <2>6 DEF HeldThreads, Held, Unlinked
<1>8. StartsSuspended'
  <2>1. ASSUME NEW d \in Thread, pc'[d].at \in {"startup_unlink", "startup_insert"}
        PROVE  k'.stat[pc'[d].arg] = "SUSPEND"
    <3>1. CASE d = c
      BY <1>2, <2>1, <3>1 DEF HoldLabels
    <3>2. CASE d # c
      BY <1>2, <1>6, <2>1, <3>2 DEF Holds
    <3> QED BY <3>1, <3>2
  <2> QED BY <2>1 DEF StartsSuspended
<1> QED BY <1>3, <1>4, <1>7, <1>8 DEF IInv, Core, CurrentOK, IdleSchedulable

\* The same for a step that leaves every continuation where it is.
LEMMA TickIInv ==
  ASSUME IInv, NEW t \in Thread, UNCHANGED pc,
         isr' \in {"none", "timer"},
         Core(k', {}), CurrentOK(k'), IdleSchedulable(k'),
         DefunctOK', SliceOK', DeadOK',
         \A x \in Thread \ {t} :
           Held(k, x) => Held(k', x) /\ k'.stat[x] = k.stat[x],
         ~ Held(k, t) \/ (Held(k', t) /\ k'.stat[t] = k.stat[t])
  PROVE  IInv'
<1>1. /\ pc = [d \in Thread |-> pc[d]]
      /\ \A d \in Thread : pc[d].at \in Label => pc[d].arg \in Thread
  BY DEF IInv, StateOK
<1>2. \A d \in Thread : Holds(d) =>
        Held(k', pc[d].arg) /\ k'.stat[pc[d].arg] = k.stat[pc[d].arg]
  <2>1. \A d \in Thread : Holds(d) => Held(k, pc[d].arg) /\ pc[d].arg \in Thread
    BY <1>1 DEF IInv, HeldThreads, Holds, Label
  <2> QED BY <2>1
<1>3. StateOK' /\ Labels'
  BY <1>1 DEF StateOK, Core, IInv, Labels, LabelOK
<1>4. HeldThreads'
  <2>1. \A d \in Thread : Holds(d)' <=> Holds(d)
    BY DEF Holds
  <2>2. \A d \in Thread : Holds(d)' => Held(k', pc'[d].arg)
    BY <1>2, <2>1
  <2>3. \A d, e \in Thread :
          Holds(d)' /\ Holds(e)' /\ pc'[d].arg = pc'[e].arg => d = e
    BY <2>1 DEF IInv, HeldThreads
  <2> QED BY <2>2, <2>3 DEF HeldThreads, Held, Unlinked
<1>5. StartsSuspended'
  BY <1>2 DEF IInv, StartsSuspended, Holds
<1> QED BY <1>3, <1>4, <1>5 DEF IInv, Core, CurrentOK, IdleSchedulable

\* A local change of a thread other than the idle thread, in the terms of
\* StepIInv.
LEMMA LocalFacts ==
  ASSUME IInv, NEW u, NEW t \in Thread, t # Idle, Core(u, {}), Local(k, u, t)
  PROVE  /\ IdleSchedulable(u)
         /\ \A x \in Members(u.list[Defunct]) : x \notin Static \ Cleanup
         /\ \A x \in Thread \ {t} :
              Held(k, x) => Held(u, x) /\ u.stat[x] = k.stat[x]
<1>1. IdleSchedulable(u)
  BY ThreadAssumption DEF IInv, IdleSchedulable, Local
<1>2. \A x \in Members(u.list[Defunct]) : x \notin Static \ Cleanup
  BY DEF IInv, DefunctOK, Local
<1>3. \A x \in Thread \ {t} : Held(k, x) => Held(u, x) /\ u.stat[x] = k.stat[x]
  BY HeldLocal DEF Local
<1> QED BY <1>1, <1>2, <1>3

\* The effect of rt_schedule in the same terms.
LEMMA MovesFacts ==
  ASSUME NEW u, NEW v, Core(v, {}), Moves(u, v), IdleSchedulable(u)
  PROVE  /\ IdleSchedulable(v) /\ v.list[Defunct] = u.list[Defunct]
         /\ v.slice = u.slice
         /\ \A x \in Thread : Held(u, x) => Held(v, x) /\ v.stat[x] = u.stat[x]
<1>1. IdleSchedulable(v)
  BY ThreadAssumption DEF IdleSchedulable, Moves
<1>2. \A x \in Thread : Held(u, x) => Held(v, x)
  BY HeldMoves
<1>3. \A x \in Thread : Held(u, x) => v.stat[x] = u.stat[x]
  BY DEF Held, Moves
<1> QED BY <1>1, <1>2, <1>3 DEF Moves

-----------------------------------------------------------------------------
\* The invariant holds when the scheduler has been started.
LEMMA InitIInv == Init => IInv
<1> SUFFICES ASSUME Init PROVE IInv
  OBVIOUS
<1>1. PICK first \in Thread \ {Idle} : k = InitKernel(first)
  BY DEF Init
<1> DEFINE p == InitPrio[Idle]
           L == [h \in Head_ |-> IF h = p THEN <<Idle>> ELSE << >>]
<1>2. p \in Prio /\ p \in Head_ /\ Idle \in Thread
  BY ThreadAssumption DEF Head_
<1>3. /\ k.stat = [t \in Thread |-> CASE t = first -> "RUNNING"
                                      [] t = Idle  -> "READY"
                                      [] OTHER     -> "NONE"]
      /\ k.list = L /\ k.group = {p} /\ k.current = first /\ k.prio = InitPrio
      /\ k.timer = [t \in Thread |-> Off] /\ k.slice = InitTick
  BY <1>1 DEF InitKernel
<1>4. <<Idle>> \in Seq(Thread) /\ << >> \in Seq(Thread)
  BY <1>2
<1>5. k \in KernelType
  <2>1. L \in [Head_ -> Seq(Thread)]
    BY <1>4
  <2>2. k.stat \in [Thread -> Stat]
    BY <1>3 DEF Stat
  <2>3. InitTick \in [Thread -> Nat]
    BY ThreadAssumption
  <2>4. [t \in Thread |-> "EOK"] \in [Thread -> Error]
    BY DEF Error
  <2>5. [t \in Thread |-> Off] \in [Thread -> Nat \cup {Off}]
    OBVIOUS
  <2>6. InitPrio \in [Thread -> Prio] /\ {p} \in SUBSET Prio /\ 0 \in Nat
    BY <1>2, ThreadAssumption
  <2>7. [t \in Thread |-> FALSE] \in [Thread -> BOOLEAN]
    OBVIOUS
  <2>8. [t \in Thread |-> CASE t = first -> "RUNNING"
                            [] t = Idle  -> "READY"
                            [] OTHER     -> "NONE"] \in [Thread -> Stat]
    BY <1>3, <2>2
  <2> HIDE DEF L, p
  <2> QED BY <1>1, <1>3, <2>1, <2>3, <2>4, <2>5, <2>6, <2>7, <2>8
          DEF InitKernel, KernelType, L, p
<1>6. /\ Members(k.list[p]) = {Idle} /\ Injective(k.list[p])
      /\ \A h \in Head_ \ {p} : Members(k.list[h]) = {} /\ Injective(k.list[h])
  BY <1>2, <1>3 DEF Members, Injective
<1>7. /\ k.stat[first] = "RUNNING" /\ k.stat[Idle] = "READY"
      /\ \A t \in Thread \ {first, Idle} : k.stat[t] = "NONE"
  BY <1>2, <1>3
<1>8. Core(k, {})
  <2>1. \A h \in Head_ : Injective(k.list[h])
    BY <1>6
  <2>2. ListsMatchStat(k)
    <3>1. Defunct \in Head_ \ {p} /\ \A q \in Queue : q \in Head_ \ {p}
      BY <1>2, HeadAssumption DEF Head_
    <3>2. \A q \in Prio \ {p} : q \in Head_ \ {p}
      BY DEF Head_
    <3> QED BY ZenonT(60), <1>3, <1>6, <1>7, <3>1, <3>2 DEF ListsMatchStat
  <2>3. QueuesDisjoint(k)
    <3>1. \A q \in Queue : q \in Head_ \ {p}
      BY <1>2, HeadAssumption DEF Head_
    <3> QED BY <1>6, <3>1 DEF QueuesDisjoint
  <2>4. k.group = {q \in Prio : Members(k.list[q]) # {}}
    <3>1. \A q \in Prio \ {p} : Members(k.list[q]) = {}
      BY <1>6 DEF Head_
    <3> QED BY <1>2, <1>3, <1>6, <3>1
  <2>5. \A t \in Thread : StatOK(k, t)
    BY <1>3, <1>6, <1>7 DEF StatOK
  <2> QED BY <1>5, <2>1, <2>2, <2>3, <2>4, <2>5 DEF Core
<1>9. CurrentOK(k) /\ IdleSchedulable(k) /\ DeadOK
  BY <1>3, <1>7 DEF CurrentOK, IdleSchedulable, DeadOK
<1>10. pc = [t \in Thread |-> [at |-> "run", arg |-> t]] /\ isr = "none"
  BY DEF Init, Running, At
<1>11. StateOK
  BY <1>5, <1>10 DEF StateOK, Label
<1>12. \A c \in Thread : pc[c].at = "run"
  BY <1>10
<1>13. Labels /\ HeldThreads /\ StartsSuspended
  BY <1>12 DEF Labels, LabelOK, RacyLabels, HeldThreads, Holds, StartsSuspended
<1>14. DefunctOK
  <2>1. Defunct \in Head_ \ {p}
    BY <1>2, HeadAssumption DEF Head_
  <2> QED BY <1>6, <2>1 DEF DefunctOK
<1>15. SliceOK
  BY <1>3, ThreadAssumption DEF SliceOK
<1> QED BY <1>8, <1>9, <1>11, <1>13, <1>14, <1>15 DEF IInv

-----------------------------------------------------------------------------
\* The thread that executes is the current one, and has not exited.
LEMMA ExecutesFacts ==
  ASSUME IInv, NEW c \in Thread, NEW l \in Label, Executes(c, l)
  PROVE  /\ c = k.current /\ isr = "none" /\ pc[c].at = l
         /\ pc[c].arg \in Thread
         /\ l # "dead" => k.stat[c] # "CLOSE"
         /\ ~ Held(k, c)
         /\ \A d \in Thread : Holds(d) => pc[d].arg # c
BY DEF IInv, StateOK, Executes, DeadOK, Held, HeldThreads

\* An application call is made by a thread that is not the idle thread.
LEMMA CallsFacts ==
  ASSUME IInv, NEW c \in Thread, NEW a, Calls(c, a)
  PROVE  Executes(c, "run") /\ c # Idle /\ <<c, a>> \in May
BY SchedulerAssumption DEF Calls

\* A step that changes the kernel locally, for thread t.
LEMMA LocalStep ==
  ASSUME IInv,
         NEW c \in Thread, NEW l, NEW a, NEW t \in Thread,
         l \in Label => a \in Thread,
         pc' = [pc EXCEPT ![c] = At(l, a)], UNCHANGED isr,
         t # Idle, Core(k', {}), CurrentOK(k'), Local(k, k', t), SliceOK',
         k'.stat[k.current] # "CLOSE",
         \/ Held(k, t) => Held(k', t) /\ k'.stat[t] = "SUSPEND"
         \/ \A d \in Thread \ {c} : Holds(d) => pc[d].arg # t,
         LabelOK(c, l, a),
         l \in HoldLabels =>
           /\ Held(k', a)
           /\ l # "idle_free" => k'.stat[a] = "SUSPEND"
           /\ \A d \in Thread \ {c} : Holds(d) => pc[d].arg # a
  PROVE  IInv'
<1>1. /\ IdleSchedulable(k')
      /\ \A x \in Members(k'.list[Defunct]) : x \notin Static \ Cleanup
      /\ \A x \in Thread \ {t} :
           Held(k, x) => Held(k', x) /\ k'.stat[x] = k.stat[x]
  BY LocalFacts
<1>2. DefunctOK'
  BY <1>1 DEF DefunctOK
<1>3. DeadOK'
  BY DEF DeadOK, Local
<1>4. isr' \in {"none", "timer"}
  BY DEF IInv, StateOK
<1> QED BY <1>1, <1>2, <1>3, <1>4, StepIInv

\* A step that ends with rt_schedule, from the intermediate kernel u.
LEMMA ScheduleFacts ==
  ASSUME IInv, NEW u, NEW t \in Thread, k' = rt_schedule(u),
         Core(u, {}), CurrentOK(u), IdleSchedulable(u), u.slice = k.slice,
         \A x \in Members(u.list[Defunct]) : x \notin Static \ Cleanup,
         \A x \in Thread \ {t} :
           Held(k, x) => Held(u, x) /\ u.stat[x] = k.stat[x]
  PROVE  /\ Core(k', {}) /\ CurrentOK(k') /\ IdleSchedulable(k')
         /\ DefunctOK' /\ SliceOK'
         /\ k'.current = u.current \/ k'.stat[k'.current] # "CLOSE"
         /\ k'.stat[k'.current] = "CLOSE" => u.stat[u.current] = "CLOSE"
         /\ \A x \in Thread \ {t} :
              Held(k, x) => Held(k', x) /\ k'.stat[x] = k.stat[x]
         /\ \A x \in Thread :
              Held(u, x) => Held(k', x) /\ k'.stat[x] = u.stat[x]
<1>1. Core(k', {}) /\ CurrentOK(k') /\ Moves(u, k')
  BY ScheduleCore
<1>2. /\ IdleSchedulable(k') /\ k'.list[Defunct] = u.list[Defunct]
      /\ k'.slice = u.slice
      /\ \A x \in Thread : Held(u, x) => Held(k', x) /\ k'.stat[x] = u.stat[x]
  BY <1>1, MovesFacts
<1>3. k'.current \in Thread /\ u.current \in Thread
  BY <1>1 DEF Core, KernelType
<1>4. /\ k'.current = u.current \/ k'.stat[k'.current] # "CLOSE"
      /\ k'.stat[k'.current] = "CLOSE" => u.stat[u.current] = "CLOSE"
  BY <1>1, <1>3 DEF Moves
<1>5. DefunctOK' /\ SliceOK'
  BY <1>2 DEF DefunctOK, SliceOK, IInv
<1> QED BY <1>1, <1>2, <1>4, <1>5

\* rt_schedule by the thread c that has the CPU.
LEMMA ScheduleStep ==
  ASSUME IInv, NEW c \in Thread, c = k.current, k.stat[c] # "CLOSE",
         NEW l, NEW a, l \in Label => a \in Thread,
         k' = rt_schedule(k), UNCHANGED isr,
         pc' = [pc EXCEPT ![c] = At(l, a)],
         LabelOK(c, l, a), l \notin HoldLabels
  PROVE  IInv'
<1>1. Core(k, {}) /\ CurrentOK(k) /\ IdleSchedulable(k) /\ DefunctOK
  BY DEF IInv
<1>2. \A x \in Members(k.list[Defunct]) : x \notin Static \ Cleanup
  BY <1>1 DEF DefunctOK
<1>3. /\ Core(k', {}) /\ CurrentOK(k') /\ IdleSchedulable(k')
      /\ DefunctOK' /\ SliceOK'
      /\ k'.stat[k'.current] = "CLOSE" => k.stat[k.current] = "CLOSE"
      /\ \A x \in Thread \ {c} :
           Held(k, x) => Held(k', x) /\ k'.stat[x] = k.stat[x]
  BY <1>1, <1>2, ScheduleFacts
<1>4. DeadOK'
  BY <1>3 DEF DeadOK
<1>5. \A d \in Thread : Holds(d) => pc[d].arg # c
  BY DEF IInv, HeldThreads, Held
<1>6. isr' \in {"none", "timer"}
  BY DEF IInv, StateOK
<1> QED BY ZenonT(60), <1>3, <1>4, <1>5, <1>6, StepIInv

-----------------------------------------------------------------------------
(***************************************************************************)
(* One lemma per action: it preserves the inductive invariant.             *)
(***************************************************************************)
\* Setting the fields of a thread that is in no list and not current.
LEMMA SetUnlinked ==
  ASSUME IInv, NEW t \in Thread, Unlinked(k, t), t # k.current,
         k' \in KernelType,
         k'.list = k.list, k'.group = k.group, k'.current = k.current,
         k'.lock = k.lock,
         \A x \in Thread \ {t} :
           /\ k'.stat[x] = k.stat[x] /\ k'.prio[x] = k.prio[x]
           /\ k'.timer[x] = k.timer[x] /\ k'.err[x] = k.err[x],
         k'.stat[t] \notin {"READY", "RUNNING"}, k'.timer[t] = Off
  PROVE  Core(k', {}) /\ CurrentOK(k') /\ Local(k, k', t)
<1>1. Core(k, {t})
  BY ExemptCore DEF IInv
<1>2. Core(k', {t}) /\ Local(k, k', t)
  BY <1>1, SetFieldsLocal
<1>3. StatOK(k', t)
  BY DEF StatOK
<1>4. Core(k', {})
  BY <1>2, <1>3, AdmitCore
<1>5. k.current \in Thread
  BY DEF IInv, Core, KernelType
<1>6. CurrentOK(k')
  BY <1>5 DEF CurrentOK, IInv
<1> QED BY <1>2, <1>4, <1>6

\* rt_thread_create, rt_thread_init.
LEMMA CreateIInv ==
  ASSUME IInv, NEW c \in Thread, NEW t \in Thread, rt_thread_create(c, t)
  PROVE  IInv'
<1>1. Calls(c, "create") /\ t # c /\ Reusable(t) /\ UNCHANGED isr
  BY DEF rt_thread_create
<1>2. Executes(c, "run") /\ "run" \in Label
  BY <1>1 DEF Calls, Label
<1>3. c = k.current /\ k.stat[c] # "CLOSE"
  BY <1>2, ExecutesFacts
<1>4. k \in KernelType /\ Core(k, {})
  BY DEF IInv, StateOK
<1>5. k' = [k EXCEPT !.stat = [k.stat EXCEPT ![t] = "INIT"],
                     !.yld = [k.yld EXCEPT ![t] = FALSE],
                     !.prio = [k.prio EXCEPT ![t] = InitPrio[t]],
                     !.slice = [k.slice EXCEPT ![t] = InitTick[t]],
                     !.timer = [k.timer EXCEPT ![t] = Off],
                     !.err = [k.err EXCEPT ![t] = "EOK"]]
  BY <1>4 DEF rt_thread_create, SetStat, KernelType
<1>6. InitPrio[t] \in Prio /\ InitTick[t] \in Nat /\ InitTick[t] > 0
  BY ThreadAssumption
<1>7. k' \in KernelType
  <2>1. /\ [k.stat EXCEPT ![t] = "INIT"] \in [Thread -> Stat]
        /\ [k.prio EXCEPT ![t] = InitPrio[t]] \in [Thread -> Prio]
        /\ [k.timer EXCEPT ![t] = Off] \in [Thread -> Nat \cup {Off}]
        /\ [k.err EXCEPT ![t] = "EOK"] \in [Thread -> Error]
    BY <1>4, <1>6 DEF KernelType, Stat, Error
  <2>2. [k.yld EXCEPT ![t] = FALSE] \in [Thread -> BOOLEAN]
    BY <1>4 DEF KernelType
  <2>3. [k.slice EXCEPT ![t] = InitTick[t]] \in [Thread -> Nat]
    BY <1>4, <1>6 DEF KernelType
  <2> QED BY <1>4, <1>5, <2>1, <2>2, <2>3 DEF KernelType
<1>8. /\ k'.list = k.list /\ k'.group = k.group /\ k'.current = k.current
      /\ k'.lock = k.lock /\ k'.stat[t] = "INIT" /\ k'.timer[t] = Off
      /\ \A x \in Thread \ {t} :
           /\ k'.stat[x] = k.stat[x] /\ k'.prio[x] = k.prio[x]
           /\ k'.timer[x] = k.timer[x] /\ k'.err[x] = k.err[x]
      /\ k'.slice = [k.slice EXCEPT ![t] = InitTick[t]]
  BY <1>4, <1>5 DEF KernelType
<1>9. Unlinked(k, t)
  <2>1. CASE k.stat[t] = "NONE"
    BY <1>4, <2>1, UnlinkedByStat
  <2>2. CASE k.stat[t] = "CLOSE" /\ t \in Static \ Cleanup
    BY <1>4, <2>2 DEF IInv, DefunctOK, Core, ListsMatchStat, Unlinked, Head_
  <2> QED BY <1>1, <2>1, <2>2 DEF Reusable
<1>10. Core(k', {}) /\ CurrentOK(k') /\ Local(k, k', t)
  BY <1>3, <1>1, <1>7, <1>8, <1>9, SetUnlinked
<1>11. SliceOK'
  BY <1>4, <1>6, <1>8 DEF SliceOK, IInv, KernelType
<1>12. t # Idle
  BY <1>1 DEF IInv, IdleSchedulable, Reusable
<1>13. \A d \in Thread : Holds(d) => pc[d].arg # t
  <2> SUFFICES ASSUME NEW d \in Thread, Holds(d), pc[d].arg = t PROVE FALSE
    OBVIOUS
  <2>1. k.stat[t] \in {"SUSPEND", "CLOSE"}
    BY DEF IInv, HeldThreads, Held
  <2>2. k.stat[t] = "CLOSE" /\ t \in Static
    BY <1>1, <2>1 DEF Reusable
  <2>3. pc[d].at = "idle_free"
    BY <2>2 DEF Holds, IInv, StartsSuspended
  <2> QED BY <2>2, <2>3 DEF IInv, Labels, LabelOK
<1>14. pc' = [pc EXCEPT ![t] = At("run", t)]
  BY DEF rt_thread_create, Running
<1>15. LabelOK(t, "run", t)
  BY DEF LabelOK, RacyLabels
<1>16. k'.stat[k.current] # "CLOSE"
  BY <1>1, <1>3, <1>8
<1>17. "run" \notin HoldLabels
  BY DEF HoldLabels
<1> QED BY <1>1, <1>2, <1>10, <1>11, <1>12, <1>13, <1>14, <1>15, <1>16, <1>17,
           LocalStep

\* rt_thread_startup up to the test in rt_thread_resume.
LEMMA StartupIInv ==
  ASSUME IInv, NEW c \in Thread, NEW t \in Thread, rt_thread_startup(c, t)
  PROVE  IInv'
<1>1. Calls(c, "startup") /\ k.stat[t] = "INIT" /\ UNCHANGED isr
  BY DEF rt_thread_startup
<1>2. Executes(c, "run") /\ "run" \in Label /\ c # Idle
  BY <1>1, CallsFacts DEF Label
<1>3. c = k.current /\ k.stat[c] # "CLOSE"
  BY <1>2, ExecutesFacts
<1>4. k \in KernelType /\ Core(k, {})
  BY DEF IInv, StateOK
<1>5. k' = [k EXCEPT !.stat = [k.stat EXCEPT ![t] = "SUSPEND"],
                     !.yld = [k.yld EXCEPT ![t] = FALSE],
                     !.prio = [k.prio EXCEPT ![t] = InitPrio[t]]]
  BY <1>4 DEF rt_thread_startup, SetStat, KernelType
<1>6. InitPrio[t] \in Prio
  BY ThreadAssumption
<1>7. k' \in KernelType
  <2>1. /\ [k.stat EXCEPT ![t] = "SUSPEND"] \in [Thread -> Stat]
        /\ [k.prio EXCEPT ![t] = InitPrio[t]] \in [Thread -> Prio]
    BY <1>4, <1>6 DEF KernelType, Stat
  <2>2. [k.yld EXCEPT ![t] = FALSE] \in [Thread -> BOOLEAN]
    BY <1>4 DEF KernelType
  <2> QED BY <1>4, <1>5, <2>1, <2>2 DEF KernelType
<1>8. /\ k'.list = k.list /\ k'.group = k.group /\ k'.current = k.current
      /\ k'.lock = k.lock /\ k'.stat[t] = "SUSPEND" /\ k'.timer = k.timer
      /\ \A x \in Thread \ {t} :
           /\ k'.stat[x] = k.stat[x] /\ k'.prio[x] = k.prio[x]
           /\ k'.timer[x] = k.timer[x] /\ k'.err[x] = k.err[x]
      /\ k'.slice = k.slice
  BY <1>4, <1>5 DEF KernelType
<1>9. Unlinked(k, t) /\ k.timer[t] = Off /\ t # k.current
  BY <1>1, <1>4, UnlinkedByStat DEF Core, StatOK, IInv, CurrentOK
<1>10. Core(k', {}) /\ CurrentOK(k') /\ Local(k, k', t)
  BY <1>7, <1>8, <1>9, SetUnlinked
<1>11. Held(k', t)
  BY <1>8, <1>9 DEF Held, Unlinked
<1>12. SliceOK' /\ t # Idle /\ k'.stat[k.current] # "CLOSE"
  BY <1>1, <1>3, <1>8 DEF SliceOK, IInv, IdleSchedulable
<1>13. \A d \in Thread : Holds(d) => pc[d].arg # t
  BY <1>1 DEF IInv, HeldThreads, Held
<1>14. pc' = [pc EXCEPT ![c] = At("startup_unlink", t)] /\ "startup_unlink" \in Label
  BY DEF rt_thread_startup, Goto, Label
<1>15. LabelOK(c, "startup_unlink", t)
  BY <1>2 DEF LabelOK, RacyLabels
<1> QED BY <1>1, <1>8, <1>10, <1>11, <1>12, <1>13, <1>14, <1>15, LocalStep

\* rt_thread_startup: the critical section of rt_thread_resume.
LEMMA StartupUnlinkIInv ==
  ASSUME IInv, NEW c \in Thread, StartupUnlink(c)
  PROVE  IInv'
<1> DEFINE t == pc[c].arg
<1>1. Executes(c, "startup_unlink") /\ "startup_unlink" \in Label
  BY DEF StartupUnlink, Label
<1>2. c = k.current /\ k.stat[c] # "CLOSE" /\ t \in Thread /\ pc[c].at = "startup_unlink"
  BY <1>1, ExecutesFacts
<1>3. Held(k, t) /\ k.stat[t] = "SUSPEND" /\ Core(k, {}) /\ k \in KernelType
  BY <1>2 DEF IInv, HeldThreads, Holds, StartsSuspended, StateOK
<1>4. k' = ResumeUnlink(k, t) /\ UNCHANGED isr
  BY DEF StartupUnlink
<1>5. /\ Core(k', {}) /\ Local(k, k', t) /\ Held(k', t) /\ k'.stat = k.stat
  BY <1>2, <1>3, <1>4, ResumeUnlinkCore
<1>6. k'.slice = k.slice
  BY <1>3, <1>4 DEF ResumeUnlink, rt_timer_stop, rt_list_remove, KernelType
<1>7. CurrentOK(k') /\ SliceOK' /\ t # Idle /\ k'.stat[k.current] # "CLOSE"
  BY <1>2, <1>3, <1>5, <1>6
     DEF Local, CurrentOK, SliceOK, IInv, IdleSchedulable
<1>8. pc' = [pc EXCEPT ![c] = At("startup_insert", t)] /\ "startup_insert" \in Label
  BY DEF StartupUnlink, Goto, Label
<1>9. LabelOK(c, "startup_insert", t)
  BY <1>2 DEF LabelOK, RacyLabels, IInv, Labels
<1>10. \A d \in Thread \ {c} : Holds(d) => pc[d].arg # t
  BY <1>2 DEF IInv, HeldThreads, Holds
<1> HIDE DEF t
<1> QED BY <1>2, <1>3, <1>4, <1>5, <1>7, <1>8, <1>9, <1>10, LocalStep

\* rt_thread_startup: the thread becomes ready.
LEMMA StartupInsertIInv ==
  ASSUME IInv, NEW c \in Thread, StartupInsert(c)
  PROVE  IInv'
<1> DEFINE t == pc[c].arg
<1>1. Executes(c, "startup_insert") /\ "startup_insert" \in Label
  BY DEF StartupInsert, Label
<1>2. c = k.current /\ k.stat[c] # "CLOSE" /\ t \in Thread /\ pc[c].at = "startup_insert"
  BY <1>1, ExecutesFacts
<1>3. Held(k, t) /\ k.stat[t] = "SUSPEND" /\ Core(k, {}) /\ CurrentOK(k)
      /\ k \in KernelType
  BY <1>2 DEF IInv, HeldThreads, Holds, StartsSuspended, StateOK
<1>4. k' = rt_schedule_insert_thread(k, t) /\ UNCHANGED isr
  BY DEF StartupInsert
<1>5. Core(k', {}) /\ CurrentOK(k') /\ Local(k, k', t)
  BY <1>2, <1>3, <1>4, InsertHeldCore
<1>6. t # k.current /\ t # Idle
  BY <1>3 DEF Held, IInv, IdleSchedulable
<1>7. k'.slice = k.slice
  BY <1>2, <1>3, <1>4, <1>6, InsertThreadFields
<1>8. SliceOK' /\ k'.stat[k.current] # "CLOSE"
  BY <1>2, <1>5, <1>6, <1>7 DEF Local, SliceOK, IInv
<1>9. pc' = [pc EXCEPT ![c] = At("sched", c)] /\ "sched" \in Label
  BY DEF StartupInsert, Goto, Label
<1>10. LabelOK(c, "sched", c) /\ "sched" \notin HoldLabels
  BY <1>2 DEF LabelOK, RacyLabels, IInv, Labels, HoldLabels
<1>11. \A d \in Thread \ {c} : Holds(d) => pc[d].arg # t
  BY <1>2 DEF IInv, HeldThreads, Holds
<1> HIDE DEF t
<1> QED BY <1>2, <1>4, <1>5, <1>6, <1>8, <1>9, <1>10, <1>11, LocalStep

\* rt_thread_suspend: the test of the state.
LEMMA SuspendTestIInv ==
  ASSUME IInv, NEW c \in Thread, NEW t \in Thread, rt_thread_suspend_(c, t)
  PROVE  IInv'
<1>1. Calls(c, "suspend") /\ t # Idle /\ UNCHANGED <<k, isr>>
  BY DEF rt_thread_suspend_
<1>2. Executes(c, "run") /\ "run" \in Label /\ c # Idle
  BY <1>1, CallsFacts DEF Label
<1>3. c = k.current /\ k.stat[c] # "CLOSE"
      /\ \A d \in Thread : Holds(d) => pc[d].arg # c
  BY <1>2, ExecutesFacts
<1>4. Core(k', {}) /\ CurrentOK(k') /\ SliceOK' /\ Local(k, k', c)
  BY <1>1 DEF IInv, SliceOK, Local
<1>5. pc' = [pc EXCEPT ![c] = At("suspend_body", t)] /\ "suspend_body" \in Label
  BY DEF rt_thread_suspend_, Goto, Label
<1>6. LabelOK(c, "suspend_body", t) /\ "suspend_body" \notin HoldLabels
  BY <1>1, <1>2 DEF LabelOK, RacyLabels, HoldLabels
<1> QED BY <1>1, <1>2, <1>3, <1>4, <1>5, <1>6, LocalStep

\* rt_thread_suspend: the critical section, whatever became of the thread.
LEMMA SuspendStepIInv ==
  ASSUME IInv, NEW c \in Thread, SuspendStep(c)
  PROVE  IInv'
<1> DEFINE t == pc[c].arg
           l == IF t = c THEN "sched" ELSE "run"
<1>1. Executes(c, "suspend_body") /\ "suspend_body" \in Label
  BY DEF SuspendStep, Label
<1>2. c = k.current /\ k.stat[c] # "CLOSE" /\ t \in Thread
      /\ pc[c].at = "suspend_body"
  BY <1>1, ExecutesFacts
<1>3. Core(k, {}) /\ CurrentOK(k) /\ k \in KernelType /\ t # Idle /\ c # Idle
  BY <1>2 DEF IInv, StateOK, Labels, LabelOK
<1>4. k' = SuspendBody(k, t) /\ UNCHANGED isr
  BY DEF SuspendStep
<1>5. /\ Core(k', {}) /\ CurrentOK(k') /\ Local(k, k', t)
      /\ k'.stat[t] = "SUSPEND" /\ k'.timer[t] = Off /\ Unlinked(k', t)
  BY <1>2, <1>3, <1>4, SuspendBodyCore
<1>6. k'.slice = k.slice
  <2>1. LET r == rt_schedule_remove_thread(k, t)
        IN  r \in KernelType /\ r.slice = k.slice
    BY <1>2, <1>3, RemoveThreadCore DEF Frame, Core
  <2> QED BY <1>4, <2>1 DEF SuspendBody, rt_timer_stop, SetStat, KernelType
<1>7. SliceOK' /\ k'.stat[k.current] # "CLOSE"
  BY <1>2, <1>5, <1>6 DEF Local, SliceOK, IInv
<1>8. Held(k, t) => Held(k', t) /\ k'.stat[t] = "SUSPEND"
  BY <1>5 DEF Held, Local
<1>9. pc' = [pc EXCEPT ![c] = At(l, c)] /\ l \in Label
  BY DEF SuspendStep, Goto, Return, Label
<1>10. LabelOK(c, l, c) /\ l \notin HoldLabels
  BY <1>3 DEF LabelOK, RacyLabels, HoldLabels
<1> HIDE DEF t, l
<1> QED BY <1>2, <1>3, <1>4, <1>5, <1>7, <1>8, <1>9, <1>10, LocalStep

\* The call of rt_schedule that ends several functions.
LEMMA ScheduleIInv ==
  ASSUME IInv, NEW c \in Thread, Schedule(c)
  PROVE  IInv'
<1>1. Executes(c, "sched") /\ "sched" \in Label /\ "run" \in Label
  BY DEF Schedule, Label
<1>2. c = k.current /\ k.stat[c] # "CLOSE"
  BY <1>1, ExecutesFacts
<1>3. k' = rt_schedule(k) /\ UNCHANGED isr /\ pc' = [pc EXCEPT ![c] = At("run", c)]
  BY DEF Schedule, Return, Goto
<1>4. LabelOK(c, "run", c) /\ "run" \notin HoldLabels
  BY DEF LabelOK, RacyLabels, HoldLabels
<1> QED BY <1>1, <1>2, <1>3, <1>4, ScheduleStep

\* rt_thread_sleep: the call of rt_schedule.
LEMMA SleepScheduleIInv ==
  ASSUME IInv, NEW c \in Thread, SleepSchedule(c)
  PROVE  IInv'
<1>1. Executes(c, "sleep_sched") /\ "sleep_sched" \in Label /\ "sleep_end" \in Label
  BY DEF SleepSchedule, Label
<1>2. c = k.current /\ k.stat[c] # "CLOSE" /\ pc[c].at = "sleep_sched"
  BY <1>1, ExecutesFacts
<1>3. k' = rt_schedule(k) /\ UNCHANGED isr
      /\ pc' = [pc EXCEPT ![c] = At("sleep_end", c)]
  BY DEF SleepSchedule, Goto
<1>4. LabelOK(c, "sleep_end", c) /\ "sleep_end" \notin HoldLabels
  BY <1>2 DEF LabelOK, RacyLabels, HoldLabels, IInv, Labels
<1> QED BY <1>1, <1>2, <1>3, <1>4, ScheduleStep

\* rt_thread_yield: its call of rt_schedule.
LEMMA YieldScheduleIInv ==
  ASSUME IInv, NEW c \in Thread, YieldSchedule(c)
  PROVE  IInv'
<1>1. Executes(c, "yield") /\ "yield" \in Label /\ "run" \in Label
  BY DEF YieldSchedule, Label
<1>2. c = k.current /\ k.stat[c] # "CLOSE"
  BY <1>1, ExecutesFacts
<1>3. k' = rt_schedule(k) /\ UNCHANGED isr /\ pc' = [pc EXCEPT ![c] = At("run", c)]
  BY DEF YieldSchedule, Return, Goto
<1>4. LabelOK(c, "run", c) /\ "run" \notin HoldLabels
  BY DEF LabelOK, RacyLabels, HoldLabels
<1> QED BY <1>1, <1>2, <1>3, <1>4, ScheduleStep

\* rt_thread_sleep: the thread suspends itself and starts its timer.
LEMMA SleepIInv ==
  ASSUME IInv, NEW c \in Thread, NEW d \in Timeout, rt_thread_sleep(c, d)
  PROVE  IInv'
<1> DEFINE s == rt_thread_suspend(k, c)
<1>1. Calls(c, "sleep") /\ UNCHANGED isr
  BY DEF rt_thread_sleep
<1>2. Executes(c, "run") /\ "run" \in Label /\ c # Idle
  BY <1>1, CallsFacts DEF Label
<1>3. c = k.current /\ k.stat[c] # "CLOSE"
      /\ \A e \in Thread : Holds(e) => pc[e].arg # c
  BY <1>2, ExecutesFacts
<1>4. Core(k, {}) /\ CurrentOK(k) /\ k \in KernelType /\ d \in Nat
  BY SchedulerAssumption DEF IInv, StateOK
<1>5. /\ Core(s, {}) /\ CurrentOK(s) /\ Local(k, s, c)
      /\ s.stat[c] = "SUSPEND" /\ s.slice = k.slice
  <2>1. CASE CanSuspend(k, c)
    <3>1. s = SuspendBody(k, c)
      BY <2>1 DEF rt_thread_suspend
    <3>2. LET r == rt_schedule_remove_thread(k, c)
          IN  r \in KernelType /\ r.slice = k.slice
      BY <1>4, RemoveThreadCore DEF Frame, Core
    <3>3. s.slice = k.slice
      BY <3>1, <3>2 DEF SuspendBody, rt_timer_stop, SetStat, KernelType
    <3>4. LET u == SuspendBody(k, c)
          IN  Core(u, {}) /\ CurrentOK(u) /\ Local(k, u, c)
              /\ u.stat[c] = "SUSPEND"
      BY <1>4, SuspendBodyCore
    <3> QED BY <3>1, <3>3, <3>4
  <2>2. CASE ~ CanSuspend(k, c)
    BY <1>3, <1>4, <2>2 DEF rt_thread_suspend, CanSuspend, CurrentOK, Local
  <2> QED BY <2>1, <2>2
<1>6. k' = rt_timer_start(s, c, d)
  BY DEF rt_thread_sleep
<1> HIDE DEF s
<1>7. Core(k', {}) /\ CurrentOK(k') /\ Local(s, k', c) /\ k'.stat = s.stat
  BY <1>4, <1>5, <1>6, TimerStartCore
<1>8. Local(k, k', c)
  BY <1>5, <1>7, LocalTrans
<1>9. s \in KernelType
  BY <1>5 DEF Core
<1>10. k'.slice = k.slice
  BY <1>5, <1>6, <1>9 DEF rt_timer_start, KernelType
<1>11. SliceOK' /\ k'.stat[k.current] # "CLOSE"
  BY <1>3, <1>5, <1>7, <1>10 DEF SliceOK, IInv
<1>12. pc' = [pc EXCEPT ![c] = At("sleep_sched", c)] /\ "sleep_sched" \in Label
  BY DEF rt_thread_sleep, Goto, Label
<1>13. LabelOK(c, "sleep_sched", c) /\ "sleep_sched" \notin HoldLabels
  BY <1>2 DEF LabelOK, RacyLabels, HoldLabels
<1> QED BY <1>1, <1>2, <1>3, <1>7, <1>8, <1>11, <1>12, <1>13, LocalStep

\* A step of the current thread c that touches only what Core does not see.
LEMMA SameStep ==
  ASSUME IInv, NEW c \in Thread, c = k.current, k.stat[c] # "CLOSE", c # Idle,
         NEW l, NEW a, l \in Label => a \in Thread,
         pc' = [pc EXCEPT ![c] = At(l, a)], UNCHANGED isr,
         LabelOK(c, l, a), l \notin HoldLabels,
         k' \in KernelType, k'.list = k.list, k'.group = k.group,
         k'.current = k.current, k'.stat = k.stat, k'.prio = k.prio,
         k'.timer = k.timer, k'.slice = k.slice
  PROVE  IInv'
<1>1. Core(k, {}) /\ CurrentOK(k) /\ IdleSchedulable(k) /\ DefunctOK /\ SliceOK
  BY DEF IInv
<1>2. /\ Core(k', {}) /\ CurrentOK(k')
      /\ \A x \in Thread : Held(k, x) => Held(k', x)
  BY <1>1, SameCore
<1>3. IdleSchedulable(k') /\ DefunctOK' /\ SliceOK' /\ DeadOK'
  BY <1>1 DEF IdleSchedulable, DefunctOK, SliceOK, DeadOK
<1>4. isr' \in {"none", "timer"} /\ ~ Held(k, c)
  BY DEF IInv, StateOK, Held
<1> QED BY <1>2, <1>3, <1>4, StepIInv

\* rt_thread_yield: the call.
LEMMA YieldIInv ==
  ASSUME IInv, NEW c \in Thread, rt_thread_yield(c)
  PROVE  IInv'
<1>1. Calls(c, "yield") /\ UNCHANGED <<k, isr>>
      /\ pc' = [pc EXCEPT ![c] = At("yield", c)]
  BY DEF rt_thread_yield, Goto
<1>2. Executes(c, "run") /\ "run" \in Label /\ "yield" \in Label /\ c # Idle
  BY <1>1, CallsFacts DEF Label
<1>3. c = k.current /\ k.stat[c] # "CLOSE"
  BY <1>2, ExecutesFacts
<1>4. LabelOK(c, "yield", c) /\ "yield" \notin HoldLabels /\ k \in KernelType
  BY <1>2 DEF LabelOK, RacyLabels, HoldLabels, IInv, StateOK
<1> QED BY <1>1, <1>2, <1>3, <1>4, SameStep

\* rt_thread_sleep: the error code is cleared.
LEMMA SleepEndIInv ==
  ASSUME IInv, NEW c \in Thread, SleepEnd(c)
  PROVE  IInv'
<1> DEFINE e == IF k.err[c] = "ETIMEOUT" THEN "EOK" ELSE k.err[c]
<1>1. Executes(c, "sleep_end") /\ "sleep_end" \in Label /\ "run" \in Label
  BY DEF SleepEnd, Label
<1>2. c = k.current /\ k.stat[c] # "CLOSE" /\ pc[c].at = "sleep_end"
  BY <1>1, ExecutesFacts
<1>3. k \in KernelType /\ c # Idle
  BY <1>2 DEF IInv, StateOK, Labels, LabelOK
<1>4. k' = [k EXCEPT !.err = [k.err EXCEPT ![c] = e]]
  BY <1>3 DEF SleepEnd, KernelType
<1>5. [k.err EXCEPT ![c] = e] \in [Thread -> Error]
  BY <1>3 DEF KernelType, Error
<1> HIDE DEF e
<1>6. /\ k' \in KernelType /\ k'.list = k.list /\ k'.group = k.group
      /\ k'.current = k.current /\ k'.stat = k.stat /\ k'.prio = k.prio
      /\ k'.timer = k.timer /\ k'.slice = k.slice
  BY <1>3, <1>4, <1>5 DEF KernelType
<1>7. pc' = [pc EXCEPT ![c] = At("run", c)] /\ UNCHANGED isr
  BY DEF SleepEnd, Return, Goto
<1>8. LabelOK(c, "run", c) /\ "run" \notin HoldLabels
  BY DEF LabelOK, RacyLabels, HoldLabels
<1> QED BY <1>1, <1>2, <1>3, <1>6, <1>7, <1>8, SameStep

\* The same for a step that leaves every continuation where it is.
LEMMA SameTick ==
  ASSUME IInv, UNCHANGED pc, isr' \in {"none", "timer"},
         k' \in KernelType, k'.list = k.list, k'.group = k.group,
         k'.current = k.current, k'.stat = k.stat, k'.prio = k.prio,
         k'.timer = k.timer, k'.slice = k.slice
  PROVE  IInv'
<1>1. Core(k, {}) /\ CurrentOK(k) /\ IdleSchedulable(k) /\ DefunctOK /\ SliceOK
      /\ DeadOK
  BY DEF IInv
<1>2. /\ Core(k', {}) /\ CurrentOK(k')
      /\ \A x \in Thread : Held(k, x) => Held(k', x)
  BY <1>1, SameCore
<1>3. IdleSchedulable(k') /\ DefunctOK' /\ SliceOK' /\ DeadOK'
  BY <1>1 DEF IdleSchedulable, DefunctOK, SliceOK, DeadOK
<1>4. k.current \in Thread /\ ~ Held(k, k.current)
  BY <1>1 DEF Core, KernelType, Held
<1> QED BY <1>2, <1>3, <1>4, TickIInv

\* rt_enter_critical.
LEMMA EnterIInv ==
  ASSUME IInv, NEW c \in Thread, EnterCritical(c)
  PROVE  IInv'
<1>1. k \in KernelType /\ isr \in {"none", "timer"}
  BY DEF IInv, StateOK
<1>2. k' = [k EXCEPT !.lock = k.lock + 1] /\ UNCHANGED <<isr, pc>>
  BY <1>1 DEF EnterCritical, rt_enter_critical, KernelType
<1>3. k.lock + 1 \in Nat
  BY <1>1 DEF KernelType
<1>4. /\ k' \in KernelType /\ k'.list = k.list /\ k'.group = k.group
      /\ k'.current = k.current /\ k'.stat = k.stat /\ k'.prio = k.prio
      /\ k'.timer = k.timer /\ k'.slice = k.slice
  BY <1>1, <1>2, <1>3 DEF KernelType
<1> QED BY <1>1, <1>2, <1>4, SameTick

\* rt_exit_critical up to its call of rt_schedule.
LEMMA ExitIInv ==
  ASSUME IInv, NEW c \in Thread, ExitCritical(c)
  PROVE  IInv'
<1> DEFINE n == IF k.lock <= 1 THEN 0 ELSE k.lock - 1
<1>1. k \in KernelType /\ isr \in {"none", "timer"}
  BY DEF IInv, StateOK
<1>2. Calls(c, "critical") /\ UNCHANGED isr
  BY DEF ExitCritical
<1>3. Executes(c, "run") /\ "run" \in Label /\ c # Idle /\ "sched" \in Label
  BY <1>2, CallsFacts DEF Label
<1>4. c = k.current /\ k.stat[c] # "CLOSE"
  BY <1>3, ExecutesFacts
<1>5. k' = [k EXCEPT !.lock = n] /\ n \in Nat
  BY <1>1 DEF ExitCritical, rt_exit_critical, KernelType
<1>6. /\ k' \in KernelType /\ k'.list = k.list /\ k'.group = k.group
      /\ k'.current = k.current /\ k'.stat = k.stat /\ k'.prio = k.prio
      /\ k'.timer = k.timer /\ k'.slice = k.slice
  BY <1>1, <1>5 DEF KernelType
<1>7. CASE pc' = [pc EXCEPT ![c] = At("sched", c)]
  <2>1. LabelOK(c, "sched", c) /\ "sched" \notin HoldLabels
    BY <1>3 DEF LabelOK, RacyLabels, HoldLabels
  <2> QED BY <1>2, <1>3, <1>4, <1>6, <1>7, <2>1, SameStep
<1>8. CASE UNCHANGED pc
  BY <1>1, <1>2, <1>6, <1>8, SameTick
<1> QED BY <1>7, <1>8 DEF ExitCritical, Goto

\* rt_thread_control with RT_THREAD_CTRL_CHANGE_PRIORITY.
LEMMA ControlIInv ==
  ASSUME IInv, NEW c \in Thread, NEW t \in Thread, NEW p \in Prio,
         rt_thread_control(c, t, p)
  PROVE  IInv'
<1>1. Executes(c, "run") /\ "run" \in Label /\ t # Idle
      /\ k' = ChangePriority(k, t, p) /\ UNCHANGED <<isr, pc>>
  BY DEF rt_thread_control, Calls, Label
<1>2. c = k.current /\ k.stat[c] # "CLOSE"
  BY <1>1, ExecutesFacts
<1>3. Core(k, {}) /\ CurrentOK(k) /\ k \in KernelType
  BY DEF IInv, StateOK
<1>4. /\ Core(k', {}) /\ CurrentOK(k') /\ Local(k, k', t)
      /\ Held(k, t) => Held(k', t)
      /\ k'.stat[t] = k.stat[t]
  BY <1>1, <1>3, ChangePriorityCore
<1>5. k'.slice = k.slice
  <2>1. CASE k.stat[t] = "READY"
    <3> DEFINE r == rt_schedule_remove_thread(k, t)
               s == [r EXCEPT !.prio[t] = p]
    <3>1. r \in KernelType /\ r.slice = k.slice /\ r.current = k.current
      BY <1>3, RemoveThreadCore DEF Frame, Core
    <3> HIDE DEF r
    <3>2. [r.prio EXCEPT ![t] = p] \in [Thread -> Prio]
      BY <3>1 DEF KernelType
    <3>3. s \in KernelType /\ s.slice = k.slice /\ s.current = k.current
      BY <3>1, <3>2 DEF KernelType
    <3>4. t # s.current
      BY <1>3, <2>1, <3>3 DEF CurrentOK
    <3>5. k' = rt_schedule_insert_thread(s, t)
      BY <1>1, <2>1 DEF ChangePriority, r
    <3> HIDE DEF s
    <3> QED BY <3>3, <3>4, <3>5, InsertThreadFields
  <2>2. CASE k.stat[t] # "READY"
    BY <1>1, <1>3, <2>2 DEF ChangePriority, KernelType
  <2> QED BY <2>1, <2>2
<1>6. /\ IdleSchedulable(k')
      /\ \A x \in Members(k'.list[Defunct]) : x \notin Static \ Cleanup
      /\ \A x \in Thread \ {t} :
           Held(k, x) => Held(k', x) /\ k'.stat[x] = k.stat[x]
  BY <1>1, <1>4, LocalFacts
<1>7. DefunctOK' /\ SliceOK'
  BY <1>5, <1>6 DEF DefunctOK, SliceOK, IInv
<1>8. DeadOK'
  BY <1>2, <1>4 DEF DeadOK, Local
<1>9. isr' \in {"none", "timer"}
  BY <1>1 DEF IInv, StateOK
<1> QED BY <1>1, <1>4, <1>6, <1>7, <1>8, <1>9, TickIInv

\* Closing a thread that is in no list and has no timer running.
LEMMA CloseCore ==
  ASSUME NEW u, NEW t \in Thread, Core(u, {t}), t = u.current, u.timer[t] = Off,
         t # Idle, IdleSchedulable(u),
         \A x \in Members(u.list[Defunct]) : x \notin Static \ Cleanup
  PROVE  LET v == Close(u, t)
         IN  /\ Core(v, {}) /\ CurrentOK(v) /\ IdleSchedulable(v)
             /\ v.current = u.current /\ v.stat[t] = "CLOSE"
             /\ v.slice = u.slice /\ Steady(u, v, {t}) /\ Untouched(u, v, t)
             /\ \A x \in Members(v.list[Defunct]) : x \notin Static \ Cleanup
             /\ \A x \in Thread \ {t} :
                  Held(u, x) => Held(v, x) /\ v.stat[x] = u.stat[x]
<1> DEFINE s == [SetStat(u, t, "CLOSE") EXCEPT !.yld[t] = FALSE]
           v == Close(u, t)
<1>1. u \in KernelType
  BY DEF Core
<1>2. s = [u EXCEPT !.stat = [u.stat EXCEPT ![t] = "CLOSE"],
                    !.yld = [u.yld EXCEPT ![t] = FALSE]]
  BY <1>1 DEF SetStat, KernelType
<1>3. s \in KernelType
  <2>1. [u.stat EXCEPT ![t] = "CLOSE"] \in [Thread -> Stat]
    BY <1>1 DEF KernelType, Stat
  <2>2. [u.yld EXCEPT ![t] = FALSE] \in [Thread -> BOOLEAN]
    BY <1>1 DEF KernelType
  <2> QED BY ZenonT(60), <1>1, <1>2, <2>1, <2>2 DEF KernelType
<1> HIDE DEF s
<1>4. /\ s.list = u.list /\ s.group = u.group /\ s.current = u.current
      /\ s.lock = u.lock /\ s.timer = u.timer /\ s.prio = u.prio
      /\ s.slice = u.slice /\ s.stat[t] = "CLOSE" /\ s.err = u.err
      /\ \A x \in Thread \ {t} : s.stat[x] = u.stat[x]
  BY <1>1, <1>2 DEF KernelType
<1>5. Core(s, {t})
  BY <1>3, <1>4, SetFieldsCore
<1>6. StatOK(s, t)
  BY <1>4 DEF StatOK
<1>7. CASE t \in Static \ Cleanup
  <2>1. v = s
    BY <1>7 DEF Close, s
  <2>2. Core(s, {})
    BY <1>5, <1>6, AdmitCore
  <2>3. \A x \in Thread \ {t} : Held(u, x) => Held(s, x) /\ s.stat[x] = u.stat[x]
    BY <1>4 DEF Held, Unlinked
  <2>4. CurrentOK(s) /\ IdleSchedulable(s)
    BY <1>4, ThreadAssumption DEF CurrentOK, IdleSchedulable
  <2>5. Steady(u, s, {t}) /\ Untouched(u, s, t)
    BY <1>4 DEF Steady, Untouched
  <2> HIDE DEF v
  <2> QED BY <1>4, <2>1, <2>2, <2>3, <2>4, <2>5 DEF v
<1>8. CASE t \notin Static \ Cleanup
  <2> DEFINE D == s.list[Defunct]
  <2>1. Defunct \in Head_ /\ Defunct \notin Prio /\ Defunct \notin Queue
    BY HeadAssumption DEF Head_
  <2>2. D \in Seq(Thread) /\ Injective(D) /\ t \notin Members(D)
    BY <1>5, <2>1 DEF Core, KernelType, Unlinked
  <2>3. /\ <<t>> \o D \in Seq(Thread)
        /\ Injective(<<t>> \o D)
        /\ Members(<<t>> \o D) = Members(D) \cup {t}
    BY <2>2, PrependMembers
  <2>4. v = [s EXCEPT !.list = [s.list EXCEPT ![Defunct] = <<t>> \o D]]
    BY <1>3, <1>8, <2>1 DEF Close, rt_list_insert_after, s, KernelType
  <2> DEFINE L == [s.list EXCEPT ![Defunct] = <<t>> \o D]
  <2>5. L \in [Head_ -> Seq(Thread)]
    BY <1>3, <2>3 DEF KernelType
  <2>6. L[Defunct] = <<t>> \o D /\ \A h \in Head_ \ {Defunct} : L[h] = s.list[h]
    BY <1>3, <2>1 DEF KernelType
  <2> HIDE DEF L, v, D
  <2>7. /\ v \in KernelType /\ v.list = L /\ v.stat = s.stat /\ v.group = s.group
        /\ v.current = s.current /\ v.timer = s.timer /\ v.prio = s.prio
        /\ v.slice = s.slice /\ v.lock = s.lock /\ v.err = s.err
    BY <1>3, <2>4, <2>5 DEF KernelType, L
  <2>8. Members(L[Defunct]) = Members(s.list[Defunct]) \cup {t}
    BY <2>3, <2>6 DEF D
  <2>9. Core(v, {})
    <3>1. \A h \in Head_ : Injective(v.list[h])
      BY <1>5, <2>3, <2>6, <2>7 DEF Core
    <3>2. ListsMatchStat(v)
      <4>1. \A h \in Prio \cup Queue : h \in Head_ \ {Defunct}
        BY <2>1 DEF Head_
      <4>2. ListsMatchStat(s)
        BY <1>5 DEF Core
      <4>3. \A h \in Prio \cup Queue : v.list[h] = s.list[h]
        BY <2>6, <2>7, <4>1
      <4>4. \A x \in Members(v.list[Defunct]) : v.stat[x] = "CLOSE"
        BY <1>4, <2>7, <2>8, <4>2 DEF ListsMatchStat
      <4> QED BY <2>7, <4>2, <4>3, <4>4 DEF ListsMatchStat
    <3>3. QueuesDisjoint(v)
      BY <1>5, <2>1, <2>6, <2>7 DEF Core, QueuesDisjoint, Head_
    <3>4. v.group = {p \in Prio : Members(v.list[p]) # {}}
      <4>1. \A p \in Prio : v.list[p] = s.list[p]
        BY <2>1, <2>6, <2>7 DEF Head_
      <4> QED BY <1>5, <2>7, <4>1 DEF Core
    <3>5. \A x \in Thread : StatOK(v, x)
      <4>1. \A p \in Prio : v.list[p] = s.list[p]
        BY <2>1, <2>6, <2>7 DEF Head_
      <4>2. \A x \in Thread : StatOK(s, x)
        BY <1>5, <1>6 DEF Core
      <4> QED BY <1>3, <2>7, <4>1, <4>2 DEF StatOK, KernelType
    <3> QED BY <2>7, <3>1, <3>2, <3>3, <3>4, <3>5 DEF Core
  <2>10. \A x \in Thread \ {t} : Held(u, x) => Held(v, x) /\ v.stat[x] = u.stat[x]
    <3> SUFFICES ASSUME NEW x \in Thread \ {t}, Held(u, x)
                 PROVE  Held(v, x) /\ v.stat[x] = u.stat[x]
      OBVIOUS
    <3>1. \A h \in Head_ : x \notin Members(v.list[h])
      BY ZenonT(60), <1>4, <2>6, <2>7, <2>8 DEF Held, Unlinked
    <3> QED BY <1>4, <2>7, <3>1 DEF Held, Unlinked
  <2>11. CurrentOK(v) /\ IdleSchedulable(v)
    BY <1>4, <2>7, ThreadAssumption DEF CurrentOK, IdleSchedulable
  <2>12. \A x \in Members(v.list[Defunct]) : x \notin Static \ Cleanup
    BY <1>4, <1>8, <2>7, <2>8
  <2>13. Steady(u, v, {t}) /\ Untouched(u, v, t)
    <3>1. \A q \in Queue : v.list[q] = u.list[q]
      BY <1>4, <2>1, <2>6, <2>7 DEF Head_
    <3> QED BY <1>4, <2>7, <3>1 DEF Steady, Untouched
  <2> QED BY <1>4, <2>7, <2>9, <2>10, <2>11, <2>12, <2>13 DEF v
<1> QED BY <1>7, <1>8

\* rt_thread_exit: the kernel u it hands to rt_schedule.
LEMMA ThreadExitCore ==
  ASSUME IInv, NEW c \in Thread, rt_thread_exit(c)
  PROVE  \E u : /\ k' = rt_schedule(u)
                /\ Core(u, {}) /\ CurrentOK(u) /\ IdleSchedulable(u)
                /\ u.current = c /\ u.slice = k.slice /\ Steady(k, u, {c})
                /\ (\A q \in Queue : c \notin Members(k.list[q])) => Untouched(k, u, c)
                /\ \A x \in Members(u.list[Defunct]) : x \notin Static \ Cleanup
                /\ \A x \in Thread \ {c} :
                     Held(k, x) => Held(u, x) /\ u.stat[x] = k.stat[x]
<1> DEFINE r == rt_schedule_remove_thread(k, c)
           d == rt_timer_detach(r, c)
           u == Close(d, c)
<1>1. Calls(c, "exit") /\ UNCHANGED isr
  BY DEF rt_thread_exit
<1>2. Executes(c, "run") /\ "run" \in Label /\ c # Idle
  BY <1>1, CallsFacts DEF Label
<1>3. c = k.current /\ \A e \in Thread : Holds(e) => pc[e].arg # c
  BY <1>2, ExecutesFacts
<1>4. Core(k, {}) /\ IdleSchedulable(k)
  BY DEF IInv
<1>5. /\ Core(r, {c}) /\ Frame(k, r) /\ r.stat = k.stat
      /\ \A h \in Head_ : Members(r.list[h]) = Members(k.list[h]) \ {c}
      /\ \A h \in Head_ : c \notin Members(k.list[h]) => r.list[h] = k.list[h]
  BY <1>4, RemoveThreadCore
<1>6. Local(k, r, c)
  BY <1>4, RemoveThreadLocal
<1> HIDE DEF r
<1>7. d = [r EXCEPT !.timer = [r.timer EXCEPT ![c] = Off]] /\ r \in KernelType
  BY <1>5 DEF rt_timer_detach, Core, KernelType
<1> HIDE DEF d
<1>8. /\ d \in KernelType
      /\ d.list = r.list /\ d.group = r.group /\ d.current = r.current
      /\ d.lock = r.lock /\ d.stat = r.stat /\ d.prio = r.prio
      /\ d.slice = r.slice /\ d.err = r.err /\ d.timer[c] = Off
      /\ \A x \in Thread \ {c} : d.timer[x] = r.timer[x]
  <2>1. [r.timer EXCEPT ![c] = Off] \in [Thread -> Nat \cup {Off}]
    BY <1>7 DEF KernelType
  <2> QED BY <1>7, <2>1 DEF KernelType
<1>9. Core(d, {c}) /\ Local(r, d, c)
  BY <1>5, <1>8, SetFieldsLocal
<1>10. Local(k, d, c)
  BY <1>6, <1>9, LocalTrans
<1>11. /\ d.current = c /\ d.slice = k.slice /\ IdleSchedulable(d)
       /\ \A x \in Members(d.list[Defunct]) : x \notin Static \ Cleanup
       /\ \A x \in Thread \ {c} :
            Held(k, x) => Held(d, x) /\ d.stat[x] = k.stat[x]
  <2>1. \A x \in Members(d.list[Defunct]) : x \notin Static \ Cleanup
    BY <1>10 DEF Local, IInv, DefunctOK
  <2>2. \A x \in Thread \ {c} : Held(k, x) => Held(d, x) /\ d.stat[x] = k.stat[x]
    BY <1>10, HeldLocal DEF Local
  <2>3. d.current = c /\ d.slice = k.slice /\ IdleSchedulable(d)
    BY <1>3, <1>4, <1>5, <1>8 DEF Frame, IdleSchedulable
  <2> QED BY <2>1, <2>2, <2>3
<1>12. /\ Core(u, {}) /\ CurrentOK(u) /\ IdleSchedulable(u)
       /\ u.current = d.current /\ u.slice = d.slice /\ Steady(d, u, {c})
       /\ Untouched(d, u, c)
       /\ \A x \in Members(u.list[Defunct]) : x \notin Static \ Cleanup
       /\ \A x \in Thread \ {c} :
            Held(d, x) => Held(u, x) /\ u.stat[x] = d.stat[x]
  BY <1>2, <1>8, <1>9, <1>11, CloseCore
<1>13. k' = rt_schedule(u)
  BY DEF rt_thread_exit, r, d
<1> HIDE DEF u
<1>14. Steady(k, u, {c})
  BY <1>10, <1>12, LocalSteady, SteadyTrans
<1>15. ASSUME \A q \in Queue : c \notin Members(k.list[q])
       PROVE  Untouched(k, u, c)
  <2>1. Queue \subseteq Head_
    BY DEF Head_
  <2> QED BY <1>5, <1>8, <1>12, <1>15, <2>1 DEF Untouched, Frame
<1> QED BY <1>11, <1>12, <1>13, <1>14, <1>15

\* rt_thread_exit.
LEMMA ThreadExitIInv ==
  ASSUME IInv, NEW c \in Thread, rt_thread_exit(c)
  PROVE  IInv'
<1>1. Executes(c, "run") /\ "run" \in Label /\ c # Idle
  BY CallsFacts DEF rt_thread_exit, Label
<1>2. c = k.current /\ \A e \in Thread : Holds(e) => pc[e].arg # c
  BY <1>1, ExecutesFacts
<1>3. PICK u : /\ k' = rt_schedule(u)
               /\ Core(u, {}) /\ CurrentOK(u) /\ IdleSchedulable(u)
               /\ u.current = c /\ u.slice = k.slice /\ Steady(k, u, {c})
               /\ \A x \in Members(u.list[Defunct]) : x \notin Static \ Cleanup
               /\ \A x \in Thread \ {c} :
                    Held(k, x) => Held(u, x) /\ u.stat[x] = k.stat[x]
  BY ThreadExitCore
<1>4. /\ Core(k', {}) /\ CurrentOK(k') /\ IdleSchedulable(k')
      /\ DefunctOK' /\ SliceOK'
      /\ k'.current = u.current \/ k'.stat[k'.current] # "CLOSE"
      /\ \A x \in Thread \ {c} :
           Held(k, x) => Held(k', x) /\ k'.stat[x] = k.stat[x]
  BY <1>3, ScheduleFacts
<1>5. pc' = [pc EXCEPT ![c] = At("dead", c)] /\ "dead" \in Label
  BY DEF rt_thread_exit, Goto, Label
<1>6. DeadOK'
  BY <1>3, <1>4, <1>5 DEF DeadOK, At, IInv, StateOK
<1>7. LabelOK(c, "dead", c) /\ "dead" \notin HoldLabels
  BY <1>1 DEF LabelOK, RacyLabels, HoldLabels
<1>8. isr' \in {"none", "timer"}
  BY DEF rt_thread_exit, IInv, StateOK
<1> QED BY ZenonT(60), <1>2, <1>4, <1>5, <1>6, <1>7, <1>8, StepIInv

\* The idle thread takes a thread t off rt_thread_defunct, which gives the
\* kernel u it hands to rt_schedule.
Reaps(t, u) ==
  /\ Core(u, {}) /\ CurrentOK(u) /\ IdleSchedulable(u)
  /\ u.current = k.current /\ u.stat = k.stat /\ u.slice = k.slice
  /\ Steady(k, u, {}) /\ Untouched(k, u, t)
  /\ \A x \in Members(u.list[Defunct]) : x \notin Static \ Cleanup
  /\ \A x \in Thread \ {t} : Held(k, x) => Held(u, x) /\ u.stat[x] = k.stat[x]
  /\ Held(u, t) /\ ~ Held(k, t)
  /\ \/ /\ t \notin Static /\ k' = rt_schedule(u)
        /\ pc' = [pc EXCEPT ![Idle] = At("idle_free", t)]
     \/ /\ t \in Static /\ k' = SetStat(rt_schedule(u), t, "NONE")
        /\ UNCHANGED pc

\* Such a thread and such a kernel exist.
LEMMA ReapCore ==
  ASSUME IInv, IdleReap
  PROVE  \E t \in Thread : \E u : Reaps(t, u)
<1> DEFINE t == Head(k.list[Defunct])
           u == rt_list_remove(k, t)
<1>1. Executes(Idle, "run") /\ "run" \in Label /\ k.list[Defunct] # << >>
      /\ UNCHANGED isr /\ Idle \in Thread
  BY ThreadAssumption DEF IdleReap, Label
<1>2. Idle = k.current /\ pc[Idle].at = "run"
  BY <1>1, ExecutesFacts
<1>3. Core(k, {}) /\ IdleSchedulable(k) /\ k \in KernelType
  BY DEF IInv, StateOK
<1>4. t \in Members(k.list[Defunct]) /\ t \in Thread /\ Defunct \in Head_
  <2>1. Defunct \in Head_
    BY DEF Head_
  <2>2. k.list[Defunct] \in Seq(Thread)
    BY <1>3, <2>1 DEF KernelType
  <2> QED BY <1>1, <2>1, <2>2 DEF Members
<1>5. k.stat[t] = "CLOSE" /\ t # Idle /\ ~ Held(k, t)
  BY <1>3, <1>4 DEF Core, ListsMatchStat, IdleSchedulable, Held, Unlinked
<1> HIDE DEF t
<1>6. Core(u, {t}) /\ Frame(k, u) /\ u.stat = k.stat /\ Local(k, u, t)
  BY <1>3, <1>4, <1>5, UnlinkCore, UnlinkLocal
<1>7. k.timer[t] = Off
  BY <1>3, <1>4, <1>5 DEF Core, StatOK
<1>8. StatOK(u, t) /\ CurrentOK(u)
  BY <1>5, <1>6, <1>7 DEF StatOK, Frame, CurrentOK, IInv
<1>9. Core(u, {})
  BY <1>4, <1>6, <1>8, AdmitCore
<1>10. /\ IdleSchedulable(u)
       /\ \A x \in Members(u.list[Defunct]) : x \notin Static \ Cleanup
       /\ \A x \in Thread \ {t} :
            Held(k, x) => Held(u, x) /\ u.stat[x] = k.stat[x]
  BY <1>4, <1>5, <1>6, <1>9, LocalFacts
<1>11. Held(u, t) /\ u.slice = k.slice /\ u.current = k.current
  BY <1>2, <1>5, <1>6, <1>7 DEF Held, Core, Frame
<1>12. \/ /\ t \notin Static /\ k' = rt_schedule(u)
          /\ pc' = [pc EXCEPT ![Idle] = At("idle_free", t)]
       \/ /\ t \in Static /\ k' = SetStat(rt_schedule(u), t, "NONE")
          /\ UNCHANGED pc
  BY DEF IdleReap, Goto, t
<1> HIDE DEF u
<1>13. Steady(k, u, {}) /\ Untouched(k, u, t)
  <2>1. \A q \in Queue : t \notin Members(k.list[q])
    BY <1>3, <1>5 DEF Core, ListsMatchStat
  <2>2. \A h \in Head_ : t \notin Members(k.list[h]) => u.list[h] = k.list[h]
    BY <1>3, <1>4, ListRemoveFacts DEF u, Core
  <2>3. Untouched(k, u, t)
    BY <1>6, <2>1, <2>2 DEF Untouched, Frame, Head_
  <2>4. Steady(k, u, {})
    BY <1>6, <2>1 DEF Local, Frame, Steady, Head_
  <2> QED BY <2>3, <2>4
<1> QED BY <1>4, <1>5, <1>6, <1>8, <1>9, <1>10, <1>11, <1>12, <1>13 DEF Reaps

\* The idle thread's loop up to the release of the memory.
LEMMA ReapIInv ==
  ASSUME IInv, IdleReap
  PROVE  IInv'
<1>1. Executes(Idle, "run") /\ "run" \in Label /\ Idle \in Thread /\ UNCHANGED isr
  BY ThreadAssumption DEF IdleReap, Label
<1>2. Idle = k.current
  BY <1>1, ExecutesFacts
<1>3. PICK t \in Thread : \E w : Reaps(t, w)
  BY ReapCore
<1>4. PICK u : Reaps(t, u)
  BY <1>3
<1>5. /\ Core(u, {}) /\ CurrentOK(u) /\ IdleSchedulable(u)
      /\ u.current = k.current /\ u.stat = k.stat /\ u.slice = k.slice
      /\ \A x \in Members(u.list[Defunct]) : x \notin Static \ Cleanup
      /\ \A x \in Thread \ {t} :
           Held(k, x) => Held(u, x) /\ u.stat[x] = k.stat[x]
      /\ Held(u, t) /\ ~ Held(k, t)
  BY <1>4 DEF Reaps
<1>6. isr' \in {"none", "timer"}
  BY <1>1 DEF IInv, StateOK
<1>7. u.stat[u.current] # "CLOSE" /\ t # Idle /\ u.current \in Thread
  BY <1>1, <1>2, <1>5 DEF IdleSchedulable, Held
<1>8. CASE t \notin Static
  <2>1. k' = rt_schedule(u) /\ pc' = [pc EXCEPT ![Idle] = At("idle_free", t)]
    BY <1>4, <1>8 DEF Reaps
  <2>2. /\ Core(k', {}) /\ CurrentOK(k') /\ IdleSchedulable(k')
        /\ DefunctOK' /\ SliceOK'
        /\ k'.stat[k'.current] = "CLOSE" => u.stat[u.current] = "CLOSE"
        /\ \A x \in Thread \ {t} :
             Held(k, x) => Held(k', x) /\ k'.stat[x] = k.stat[x]
        /\ Held(u, t) => Held(k', t) /\ k'.stat[t] = u.stat[t]
    BY <1>3, <1>5, <2>1, ScheduleFacts
  <2>3. DeadOK'
    BY <1>7, <2>2 DEF DeadOK
  <2>4. \A e \in Thread : Holds(e) => pc[e].arg # t
    BY <1>5 DEF IInv, HeldThreads
  <2>5. LabelOK(Idle, "idle_free", t) /\ "idle_free" \in Label
    BY <1>8 DEF LabelOK, RacyLabels, Label
  <2> QED BY <1>1, <1>5, <1>6, <2>1, <2>2, <2>3, <2>4, <2>5, StepIInv
<1>9. CASE t \in Static
  <2> DEFINE v == rt_schedule(u)
  <2>1. k' = SetStat(v, t, "NONE") /\ UNCHANGED pc
    BY <1>4, <1>9 DEF Reaps
  <2>2. Core(v, {}) /\ CurrentOK(v) /\ Moves(u, v)
    BY <1>5, ScheduleCore
  <2> HIDE DEF v
  <2>3. /\ IdleSchedulable(v) /\ v.list[Defunct] = u.list[Defunct]
        /\ v.slice = u.slice
        /\ \A x \in Thread : Held(u, x) => Held(v, x) /\ v.stat[x] = u.stat[x]
    BY <1>5, <2>2, MovesFacts
  <2>4. Unlinked(v, t) /\ t # v.current /\ v.timer[t] = Off
    BY <1>5, <2>3 DEF Held
  <2>5. v \in KernelType /\ Core(v, {t})
    BY <2>2, <2>4, ExemptCore DEF Core
  <2>6. k' = [v EXCEPT !.stat = [v.stat EXCEPT ![t] = "NONE"]]
    BY <2>1, <2>5 DEF SetStat, KernelType
  <2>7. /\ k' \in KernelType
        /\ k'.list = v.list /\ k'.group = v.group /\ k'.current = v.current
        /\ k'.lock = v.lock /\ k'.prio = v.prio /\ k'.timer = v.timer
        /\ k'.slice = v.slice /\ k'.stat[t] = "NONE"
        /\ \A x \in Thread \ {t} : k'.stat[x] = v.stat[x]
    <3>1. [v.stat EXCEPT ![t] = "NONE"] \in [Thread -> Stat]
      BY <2>5 DEF KernelType, Stat
    <3> QED BY <2>5, <2>6, <3>1 DEF KernelType
  <2>8. Core(k', {t})
    BY <2>5, <2>7, SetFieldsCore
  <2>9. StatOK(k', t)
    BY <2>4, <2>7 DEF StatOK
  <2>10. Core(k', {})
    BY <2>8, <2>9, AdmitCore
  <2>11. v.current \in Thread
    BY <2>5 DEF KernelType
  <2>12. CurrentOK(k') /\ IdleSchedulable(k')
    BY <1>1, <1>7, <2>2, <2>3, <2>4, <2>7, <2>11 DEF CurrentOK, IdleSchedulable
  <2>13. DefunctOK' /\ SliceOK'
    BY <1>5, <2>3, <2>7 DEF DefunctOK, SliceOK, IInv
  <2>14. v.stat[v.current] # "CLOSE"
    BY <1>7, <2>2, <2>11 DEF Moves
  <2>15. DeadOK'
    BY <2>4, <2>7, <2>11, <2>14 DEF DeadOK
  <2>16. \A x \in Thread \ {t} :
           Held(k, x) => Held(k', x) /\ k'.stat[x] = k.stat[x]
    <3>1. \A x \in Thread \ {t} : Held(v, x) => Held(k', x)
      BY <2>7 DEF Held, Unlinked
    <3> QED BY <1>5, <2>3, <2>7, <3>1
  <2> QED BY <1>5, <1>6, <2>1, <2>10, <2>12, <2>13, <2>15, <2>16, TickIInv
<1> QED BY <1>8, <1>9

\* The idle thread frees a dynamic thread's memory.
LEMMA FreeIInv ==
  ASSUME IInv, IdleFree
  PROVE  IInv'
<1> DEFINE t == pc[Idle].arg
<1>1. Executes(Idle, "idle_free") /\ "idle_free" \in Label /\ "run" \in Label
      /\ UNCHANGED isr /\ Idle \in Thread
  BY ThreadAssumption DEF IdleFree, Label
<1>2. Idle = k.current /\ pc[Idle].at = "idle_free" /\ t \in Thread
      /\ k.stat[Idle] # "CLOSE"
  BY <1>1, ExecutesFacts
<1>3. k \in KernelType /\ Core(k, {}) /\ Held(k, t)
  BY <1>1, <1>2 DEF IInv, StateOK, HeldThreads, Holds
<1>4. t # Idle /\ t # k.current /\ Unlinked(k, t) /\ k.timer[t] = Off
  BY <1>2, <1>3 DEF Held
<1>5. k' = [k EXCEPT !.stat = [k.stat EXCEPT ![t] = "NONE"]]
  BY <1>3 DEF IdleFree, SetStat, KernelType
<1>6. \A d \in Thread \ {Idle} : Holds(d) => pc[d].arg # t
  BY <1>1, <1>2 DEF IInv, HeldThreads, Holds
<1> HIDE DEF t
<1>7. /\ k' \in KernelType
      /\ k'.list = k.list /\ k'.group = k.group /\ k'.current = k.current
      /\ k'.lock = k.lock /\ k'.prio = k.prio /\ k'.timer = k.timer
      /\ k'.slice = k.slice /\ k'.stat[t] = "NONE" /\ k'.err = k.err
      /\ \A x \in Thread \ {t} : k'.stat[x] = k.stat[x]
  <2>1. [k.stat EXCEPT ![t] = "NONE"] \in [Thread -> Stat]
    BY <1>3 DEF KernelType, Stat
  <2> QED BY <1>2, <1>3, <1>5, <2>1 DEF KernelType
<1>8. Core(k', {}) /\ CurrentOK(k') /\ Local(k, k', t)
  BY <1>2, <1>4, <1>7, SetUnlinked
<1>9. SliceOK' /\ k'.stat[k.current] # "CLOSE"
  BY <1>1, <1>2, <1>4, <1>7 DEF SliceOK, IInv
<1>10. pc' = [pc EXCEPT ![Idle] = At("run", Idle)]
  BY DEF IdleFree, Return, Goto
<1>11. LabelOK(Idle, "run", Idle) /\ "run" \notin HoldLabels
  BY DEF LabelOK, RacyLabels, HoldLabels
<1> QED BY <1>1, <1>2, <1>4, <1>6, <1>8, <1>9, <1>10, <1>11, LocalStep

\* rt_tick_increase up to the call of rt_timer_check.
LEMMA TickIncreaseIInv ==
  ASSUME IInv, rt_tick_increase
  PROVE  IInv'
<1> DEFINE u == TickSlice(k)
<1>1. k' = TickTimers(u) /\ isr' = "timer" /\ UNCHANGED pc
  BY DEF rt_tick_increase
<1>2. Core(k, {}) /\ CurrentOK(k) /\ k.current \in Thread /\ IdleSchedulable(k)
  BY DEF IInv, Core, KernelType
<1>3. /\ Core(u, {}) /\ CurrentOK(u) /\ KeepsBlocked(k, u)
      /\ u.list[Defunct] = k.list[Defunct]
      /\ u.current = k.current \/ k.stat[u.current] = "READY"
      /\ \A x \in Thread : Held(k, x) => Held(u, x)
      /\ \A x \in Thread : k.slice[x] > 0 => u.slice[x] > 0
  BY <1>2, TickSliceCore DEF IInv, SliceOK
<1> HIDE DEF u
<1>4. /\ Core(k', {}) /\ CurrentOK(k') /\ k'.stat = u.stat
      /\ k'.list = u.list /\ k'.current = u.current
      /\ k'.slice = u.slice
      /\ \A x \in Thread : Held(u, x) => Held(k', x)
  BY <1>1, <1>3, TickTimersCore
<1>5. u.current \in Thread
  BY <1>3 DEF Core, KernelType
<1>6. IdleSchedulable(k')
  BY <1>2, <1>3, <1>4, ThreadAssumption DEF IdleSchedulable, KeepsBlocked
<1>7. DefunctOK' /\ SliceOK'
  BY <1>3, <1>4 DEF DefunctOK, SliceOK, IInv
<1>8. DeadOK'
  BY <1>1, <1>3, <1>4, <1>5 DEF DeadOK, KeepsBlocked, IInv
<1>9. \A x \in Thread : Held(k, x) => Held(k', x) /\ k'.stat[x] = k.stat[x]
  <2>1. \A x \in Thread : Held(k, x) => u.stat[x] = k.stat[x]
    BY <1>3 DEF Held, KeepsBlocked
  <2> QED BY <1>3, <1>4, <2>1
<1>10. ~ Held(k, k.current)
  BY DEF Held
<1> QED BY <1>1, <1>2, <1>4, <1>6, <1>7, <1>8, <1>9, <1>10, TickIInv

\* rt_timer_check calls rt_thread_timeout for an expired timer.
LEMMA TimerFiresIInv ==
  ASSUME IInv, NEW t \in Thread, TimerFires(t)
  PROVE  IInv'
<1> DEFINE u == Wake(k, t)
<1>1. k.timer[t] = 0 /\ k' = rt_thread_timeout(k, t) /\ UNCHANGED <<isr, pc>>
  BY DEF TimerFires, Expired
<1>2. Core(k, {}) /\ CurrentOK(k)
  BY DEF IInv
<1>3. k.stat[t] = "SUSPEND" /\ ~ Held(k, t) /\ t # Idle
  BY <1>1, <1>2 DEF Core, StatOK, Held, Off, IInv, IdleSchedulable
<1>4. /\ Core(u, {}) /\ CurrentOK(u) /\ Local(k, u, t)
      /\ u.stat[t] \in {"READY", "RUNNING"}
      /\ rt_thread_timeout(k, t) = rt_schedule(u)
  BY <1>2, <1>3, WakeCore
<1>5. u.slice = k.slice
  <2> DEFINE e == [rt_timer_stop(k, t) EXCEPT !.err[t] = "ETIMEOUT"]
             r == rt_list_remove(e, t)
  <2>1. k \in KernelType
    BY DEF IInv, StateOK
  <2>2. u.slice = r.slice
    BY DEF Wake, rt_schedule_insert_thread, SetStat, rt_list_insert_before
  <2>3. r.slice = k.slice
    BY <2>1 DEF rt_list_remove, rt_timer_stop, KernelType
  <2> QED BY <2>2, <2>3
<1> HIDE DEF u
<1>6. /\ IdleSchedulable(u)
      /\ \A x \in Members(u.list[Defunct]) : x \notin Static \ Cleanup
      /\ \A x \in Thread \ {t} :
           Held(k, x) => Held(u, x) /\ u.stat[x] = k.stat[x]
  BY <1>3, <1>4, LocalFacts
<1>7. /\ Core(k', {}) /\ CurrentOK(k') /\ IdleSchedulable(k')
      /\ DefunctOK' /\ SliceOK'
      /\ k'.current = u.current \/ k'.stat[k'.current] # "CLOSE"
      /\ k'.stat[k'.current] = "CLOSE" => u.stat[u.current] = "CLOSE"
      /\ \A x \in Thread \ {t} :
           Held(k, x) => Held(k', x) /\ k'.stat[x] = k.stat[x]
  BY <1>1, <1>4, <1>5, <1>6, ScheduleFacts
<1>8. k.current \in Thread
  BY <1>2 DEF Core, KernelType
<1>9. u.stat[u.current] = "CLOSE" => k.stat[k.current] = "CLOSE"
  BY <1>4, <1>8 DEF Local
<1>10. DeadOK'
  BY <1>1, <1>4, <1>7, <1>9 DEF DeadOK, Local, IInv
<1>11. isr' \in {"none", "timer"}
  BY <1>1 DEF IInv, StateOK
<1> QED BY <1>1, <1>3, <1>7, <1>10, <1>11, TickIInv

\* No timer has expired: the interrupt returns.
LEMMA TickEndsIInv ==
  ASSUME IInv, TickEnds
  PROVE  IInv'
<1>1. UNCHANGED <<k, pc>> /\ isr' \in {"none", "timer"} /\ k \in KernelType
  BY DEF TickEnds, IInv, StateOK
<1> QED BY <1>1, SameTick

\* The calls with open races are not made, and their labels not reached.
LEMMA NoRacyStep ==
  ASSUME RaceFree, IInv, NEW c \in Thread
  PROVE  /\ ~ ResumeUnlinkStep(c) /\ ~ ResumeInsert(c)
         /\ ~ DeleteTimer(c) /\ ~ DeleteClose(c)
         /\ \A t \in Thread : ~ rt_thread_resume_(c, t) /\ ~ rt_thread_delete(c, t)
<1>1. /\ ~ ResumeUnlinkStep(c) /\ ~ ResumeInsert(c)
      /\ ~ DeleteTimer(c) /\ ~ DeleteClose(c)
  BY DEF IInv, Labels, LabelOK, RacyLabels, Executes, ResumeUnlinkStep,
         ResumeInsert, DeleteTimer, DeleteClose
<1>2. \A a : Calls(c, a) => a \notin RacyCalls
  <2> SUFFICES ASSUME NEW a, Calls(c, a) PROVE a \notin RacyCalls
    OBVIOUS
  <2>1. <<c, a>> \in May
    BY DEF Calls
  <2>2. <<c, a>>[2] \notin RacyCalls
    BY <2>1 DEF RaceFree
  <2> QED BY <2>2
<1>3. \A t \in Thread : ~ rt_thread_resume_(c, t) /\ ~ rt_thread_delete(c, t)
  BY <1>2 DEF rt_thread_resume_, rt_thread_delete, RacyCalls
<1> QED BY <1>1, <1>3

\* Every step preserves the inductive invariant.
LEMMA NextIInv ==
  ASSUME RaceFree, IInv, [Next]_vars
  PROVE  IInv'
<1>1. ASSUME NEW c \in Thread, Continue(c) PROVE IInv'
  BY <1>1, StartupUnlinkIInv, StartupInsertIInv, SuspendStepIInv, ScheduleIInv,
     YieldScheduleIInv, SleepScheduleIInv, SleepEndIInv, NoRacyStep DEF Continue
<1>2. ASSUME NEW c \in Thread, Invoke(c) PROVE IInv'
  BY <1>2, CreateIInv, StartupIInv, SuspendTestIInv, ControlIInv, SleepIInv,
     YieldIInv, ThreadExitIInv, EnterIInv, ExitIInv, NoRacyStep DEF Invoke
<1>3. CASE IdleReap \/ IdleFree
  BY <1>3, ReapIInv, FreeIInv
<1>4. CASE rt_tick_increase \/ TickIsr
  BY <1>4, TickIncreaseIInv, TimerFiresIInv, TickEndsIInv DEF TickIsr
<1>5. CASE UNCHANGED vars
  BY <1>5, SameTick DEF vars, IInv, StateOK
<1> QED BY <1>1, <1>2, <1>3, <1>4, <1>5 DEF Next

\* A step of the scheduler moves at most one thread: from one label to another,
\* or, when its object is created, to the start of its function.  Only a call
\* of rt_thread_suspend leads to its critical section.
LEMMA NextPc ==
  ASSUME Next
  PROVE  \/ UNCHANGED pc
         \/ \E t \in Thread, l \in Label : \E a :
              /\ pc' = [pc EXCEPT ![t] = At(l, a)]
              /\ pc[t].at \in Label \/ Reusable(t)
              /\ l = "suspend_body" => Calls(t, "suspend")
<1> DEFINE Moved(t) == \E l \in Label : \E a :
                         /\ pc' = [pc EXCEPT ![t] = At(l, a)]
                         /\ pc[t].at \in Label \/ Reusable(t)
                         /\ l = "suspend_body" => Calls(t, "suspend")
<1>1. ASSUME NEW t \in Thread, NEW m \in Label, Executes(t, m),
             NEW l \in Label, NEW a, Goto(t, l, a),
             l = "suspend_body" => Calls(t, "suspend")
      PROVE  Moved(t)
  BY <1>1 DEF Goto, Executes
<1>2. Label = {"run", "startup_unlink", "startup_insert", "resume_unlink",
          "resume_insert", "suspend_body", "sched", "yield", "sleep_sched",
          "sleep_end", "delete_timer", "delete_close", "idle_free", "dead"}
  BY DEF Label
<1> HIDE DEF Moved
<1>3. ASSUME NEW c \in Thread, Continue(c) PROVE Moved(c)
  BY <1>1, <1>2, <1>3 DEF Continue, StartupUnlink, StartupInsert, ResumeUnlinkStep,
     ResumeInsert, SuspendStep, Schedule, YieldSchedule, SleepSchedule, SleepEnd,
     DeleteTimer, DeleteClose, Return
<1>4. ASSUME NEW c \in Thread, Invoke(c)
      PROVE  UNCHANGED pc \/ \E t \in Thread : Moved(t)
  <2>1. ASSUME NEW t \in Thread, rt_thread_create(c, t) PROVE Moved(t)
    BY <1>2, <2>1 DEF rt_thread_create, Running, Moved
  <2>2. ASSUME NEW t \in Thread,
               \/ rt_thread_startup(c, t) \/ rt_thread_resume_(c, t)
               \/ rt_thread_suspend_(c, t) \/ rt_thread_delete(c, t)
        PROVE  Moved(c)
    BY <1>1, <1>2, <2>2 DEF Calls, rt_thread_startup, rt_thread_resume_,
       rt_thread_suspend_, rt_thread_delete
  <2>3. ASSUME NEW t \in Thread, NEW p \in Prio, rt_thread_control(c, t, p)
        PROVE  UNCHANGED pc
    BY <2>3 DEF rt_thread_control
  <2>4. ASSUME NEW d \in Timeout, rt_thread_sleep(c, d) PROVE Moved(c)
    BY <1>1, <1>2, <2>4 DEF Calls, rt_thread_sleep
  <2>5. ASSUME rt_thread_yield(c) \/ rt_thread_exit(c) PROVE Moved(c)
    BY <1>1, <1>2, <2>5 DEF Calls, rt_thread_yield, rt_thread_exit
  <2>6. ASSUME EnterCritical(c) \/ ExitCritical(c) PROVE UNCHANGED pc \/ Moved(c)
    BY <1>1, <1>2, <2>6 DEF Calls, EnterCritical, ExitCritical
  <2> QED BY <1>4, <2>1, <2>2, <2>3, <2>4, <2>5, <2>6 DEF Invoke
<1>5. ASSUME IdleReap \/ IdleFree PROVE UNCHANGED pc \/ Moved(Idle)
  BY <1>1, <1>2, <1>5, ThreadAssumption DEF IdleReap, IdleFree, Return
<1>6. ASSUME rt_tick_increase \/ TickIsr PROVE UNCHANGED pc
  BY <1>6 DEF rt_tick_increase, TickIsr, TickEnds, TimerFires
<1> QED BY <1>3, <1>4, <1>5, <1>6, ThreadAssumption DEF Next, Moved

-----------------------------------------------------------------------------
(***************************************************************************)
(* The theorems about safety.                                              *)
(***************************************************************************)
\* The inductive invariant holds in every reachable state of a program that
\* does not resume, delete or detach other threads.
THEOREM InductiveInvariant ==
  ASSUME RaceFree
  PROVE  Spec => []IInv
<1>1. Init => IInv
  BY InitIInv
<1>2. IInv /\ [Next]_vars => IInv'
  BY NextIInv
<1> QED BY <1>1, <1>2, PTL DEF Spec

\* The inductive invariant gives the consistency of lists, group and states.
LEMMA IInvKernel ==
  ASSUME IInv
  PROVE  ReadyQueueConsistent /\ ThreadStates
<1>1. k \in KernelType /\ Core(k, {}) /\ CurrentOK(k)
  BY DEF IInv, StateOK
<1>2. KernelInv(k)
  BY <1>1, CoreIsKernelInv DEF CurrentOK
<1>3. ReadyQueueConsistent
  BY <1>2 DEF KernelInv, ReadyQueueConsistent, ReadyIsQueued
<1>4. ThreadStates
  BY <1>2 DEF KernelInv, ThreadStates, IInv
<1> QED BY <1>3, <1>4

\* The scheduler's own code leaves every thread at one of its labels.
Continuations == pc \in [Thread -> [at : Label, arg : Thread]]

\* No step leaves a thread at a label of other code.
LEMMA NextContinuations ==
  ASSUME IInv, Continuations, [Next]_vars
  PROVE  Continuations'
<1>1. ASSUME NEW c \in Thread, NEW l \in Label, NEW a \in Thread, Goto(c, l, a)
      PROVE  Continuations'
  BY <1>1 DEF Goto, At, Continuations
<1>2. \A c \in Thread : pc[c].arg \in Thread
  BY DEF Continuations
<1>3. Label = {"run", "startup_unlink", "startup_insert", "resume_unlink",
               "resume_insert", "suspend_body", "sched", "yield", "sleep_sched",
               "sleep_end", "delete_timer", "delete_close", "idle_free", "dead"}
  BY DEF Label
<1>4. \A c \in Thread : Return(c) => Continuations'
  BY <1>1, <1>3 DEF Return
<1>5. CASE UNCHANGED pc
  BY <1>5 DEF Continuations
<1>6. ASSUME NEW c \in Thread, Continue(c) PROVE Continuations'
  BY <1>1, <1>2, <1>3, <1>4, <1>6 DEF Continue, StartupUnlink, StartupInsert,
     ResumeUnlinkStep, ResumeInsert, SuspendStep, Schedule, YieldSchedule,
     SleepSchedule, SleepEnd, DeleteTimer, DeleteClose
<1>7. ASSUME NEW c \in Thread, NEW t \in Thread, rt_thread_create(c, t)
      PROVE  Continuations'
  BY <1>3, <1>7 DEF rt_thread_create, Running, At, Continuations
<1>8. ASSUME NEW c \in Thread, Invoke(c) PROVE Continuations'
  <2>1. CASE \E t \in Thread :
               \/ rt_thread_startup(c, t) \/ rt_thread_resume_(c, t)
               \/ rt_thread_suspend_(c, t) \/ rt_thread_delete(c, t)
    BY <1>1, <1>3, <2>1 DEF rt_thread_startup, rt_thread_resume_,
       rt_thread_suspend_, rt_thread_delete
  <2>2. CASE \E t \in Thread, p \in Prio : rt_thread_control(c, t, p)
    BY <1>5, <2>2 DEF rt_thread_control
  <2>3. CASE \E d \in Timeout : rt_thread_sleep(c, d)
    BY <1>1, <1>3, <2>3 DEF rt_thread_sleep
  <2>4. CASE rt_thread_yield(c) \/ rt_thread_exit(c)
    BY <1>1, <1>3, <2>4 DEF rt_thread_yield, rt_thread_exit
  <2>5. CASE EnterCritical(c) \/ ExitCritical(c)
    BY <1>1, <1>3, <1>5, <2>5 DEF EnterCritical, ExitCritical
  <2> QED BY <1>7, <1>8, <2>1, <2>2, <2>3, <2>4, <2>5 DEF Invoke
<1>9. CASE IdleReap
  <2>1. PICK t \in Thread : t = Head(k.list[Defunct])
    <3>1. k.list[Defunct] \in Seq(Thread) /\ k.list[Defunct] # << >>
      BY <1>9 DEF IdleReap, IInv, StateOK, KernelType, Head_
    <3> QED BY <3>1
  <2> QED BY <1>1, <1>3, <1>5, <1>9, <2>1, ThreadAssumption DEF IdleReap
<1>10. CASE IdleFree
  BY <1>4, <1>10, ThreadAssumption DEF IdleFree
<1>11. CASE rt_tick_increase \/ TickIsr \/ UNCHANGED vars
  BY <1>5, <1>11 DEF rt_tick_increase, TickIsr, TickEnds, TimerFires, vars
<1> QED BY <1>6, <1>8, <1>9, <1>10, <1>11 DEF Next

\* The variables keep their types: in particular thread->remaining_tick never
\* underflows in rt_tick_increase and the scheduler lock never goes negative.
THEOREM TypeCorrect ==
  ASSUME RaceFree
  PROVE  Spec => []TypeOK
<1>1. Init => Continuations
  BY DEF Init, Running, At, Label, Continuations
<1>2. IInv /\ Continuations /\ [Next]_vars => Continuations'
  BY NextContinuations
<1>3. IInv /\ Continuations => TypeOK
  BY DEF IInv, StateOK, Continuations, TypeOK
<1> QED BY <1>1, <1>2, <1>3, InductiveInvariant, PTL DEF Spec

\* The ready queue is consistent whenever interrupts are enabled: rt_schedule
\* finds every READY thread, and never takes the first node of an empty list.
THEOREM ReadyQueueIsConsistent ==
  ASSUME RaceFree
  PROVE  Spec => []ReadyQueueConsistent
<1>1. IInv => ReadyQueueConsistent
  BY IInvKernel
<1> QED BY <1>1, InductiveInvariant, PTL

\* Only rt_current_thread is RUNNING, the idle thread can always be scheduled,
\* and rt_thread_timeout's assertion that its thread is suspended holds.
THEOREM ThreadStatesAreConsistent ==
  ASSUME RaceFree
  PROVE  Spec => []ThreadStates
<1>1. IInv => ThreadStates
  BY IInvKernel
<1> QED BY <1>1, InductiveInvariant, PTL

\* A thread being started or freed in several critical sections is left alone
\* by the tick interrupt and by all other threads.
THEOREM HeldThreadsAreLeftAlone ==
  ASSUME RaceFree
  PROVE  Spec => []HeldThreads
<1>1. IInv => HeldThreads
  BY DEF IInv
<1> QED BY <1>1, InductiveInvariant, PTL

-----------------------------------------------------------------------------
(***************************************************************************)
(* Preemption.  Besides RaceFree it needs that no thread changes           *)
(* priorities, since rt_thread_control does not call rt_schedule.          *)
(***************************************************************************)
NoControl == \A m \in May : m[2] # "control"

\* A kernel that differs only in what TopRuns does not see, or has fewer ready
\* priorities, keeps it.
LEMMA TopRunsKept ==
  ASSUME TopRuns(k), k'.current = k.current,
         k'.stat[k.current] = k.stat[k.current],
         k'.prio[k.current] = k.prio[k.current],
         k'.group \subseteq k.group
  PROVE  TopRuns(k')
BY DEF TopRuns

\* So does a step of c that is not about c and adds no ready priority.
LEMMA KeepHighest ==
  ASSUME HighestRuns, NEW c \in Thread, c = k.current, pc[c].at # "sched",
         k'.current = k.current, k'.lock = k.lock,
         k'.stat[c] = k.stat[c], k'.prio[c] = k.prio[c],
         k'.group \subseteq k.group
  PROVE  HighestRuns'
<1>1. k'.lock = 0 => TopRuns(k)
  BY DEF HighestRuns
<1>2. k'.lock = 0 => TopRuns(k')
  BY <1>1, TopRunsKept
<1> QED BY <1>2 DEF HighestRuns

\* rt_schedule restores it.
LEMMA ScheduleHighest ==
  ASSUME NEW u, Core(u, {}), CurrentOK(u), k' = rt_schedule(u)
  PROVE  HighestRuns'
<1>1. Moves(u, k') /\ (u.lock = 0 => TopRuns(k'))
  BY ScheduleCore
<1>2. k'.lock = u.lock
  BY <1>1 DEF Moves
<1> QED BY <1>1, <1>2 DEF HighestRuns

\* The calls of application threads keep the highest-priority thread running.
LEMMA InvokeHighest ==
  ASSUME RaceFree, NoControl, IInv, HighestRuns, NEW c \in Thread, Invoke(c)
  PROVE  HighestRuns'
<1>1. Core(k, {}) /\ CurrentOK(k) /\ k \in KernelType
  BY DEF IInv, StateOK
<1>2. Executes(c, "run")
  BY NoRacyStep DEF Invoke, rt_thread_create, rt_thread_startup,
     rt_thread_suspend_, rt_thread_control, rt_thread_sleep, rt_thread_yield,
     rt_thread_exit, EnterCritical, ExitCritical, Calls
<1>3. c = k.current /\ pc[c].at = "run" /\ pc = [t \in Thread |-> pc[t]]
  BY <1>2 DEF Executes, IInv, StateOK
<1>4. ASSUME NEW t \in Thread, rt_thread_create(c, t) PROVE HighestRuns'
  <2>1. /\ k'.current = k.current /\ k'.lock = k.lock /\ k'.group = k.group
        /\ k'.stat[c] = k.stat[c] /\ k'.prio[c] = k.prio[c]
    BY <1>1, <1>4 DEF rt_thread_create, SetStat, KernelType
  <2> QED BY <1>3, <2>1, KeepHighest
<1>5. ASSUME NEW t \in Thread, rt_thread_startup(c, t) PROVE HighestRuns'
  <2>1. t # c
    BY <1>1, <1>3, <1>5 DEF rt_thread_startup, CurrentOK
  <2>2. /\ k'.current = k.current /\ k'.lock = k.lock /\ k'.group = k.group
        /\ k'.stat[c] = k.stat[c] /\ k'.prio[c] = k.prio[c]
    BY <1>1, <1>5, <2>1 DEF rt_thread_startup, SetStat, KernelType
  <2> QED BY <1>3, <2>2, KeepHighest
<1>6. ASSUME NEW t \in Thread, rt_thread_suspend_(c, t) PROVE HighestRuns'
  <2>1. UNCHANGED k
    BY <1>6 DEF rt_thread_suspend_
  <2> QED BY <1>3, <2>1, KeepHighest
<1>7. ASSUME NEW t \in Thread, NEW p \in Prio, rt_thread_control(c, t, p)
      PROVE  FALSE
  <2>1. <<c, "control">> \in May
    BY <1>7 DEF rt_thread_control, Calls
  <2>2. <<c, "control">>[2] # "control"
    BY <2>1 DEF NoControl
  <2> QED BY <2>2
<1>8. ASSUME NEW d \in Timeout, rt_thread_sleep(c, d) PROVE HighestRuns'
  <2> DEFINE s == rt_thread_suspend(k, c)
  <2>1. k' = rt_timer_start(s, c, d) /\ d \in Nat
    BY <1>8, SchedulerAssumption DEF rt_thread_sleep
  <2>2. Core(s, {}) /\ CurrentOK(s) /\ s.current = c /\ s.stat[c] # "RUNNING"
    <3>1. CASE CanSuspend(k, c)
      <4>1. s = SuspendBody(k, c)
        BY <3>1 DEF rt_thread_suspend
      <4>2. LET u == SuspendBody(k, c)
            IN  Core(u, {}) /\ CurrentOK(u) /\ Local(k, u, c)
                /\ u.stat[c] = "SUSPEND"
        BY <1>1, SuspendBodyCore
      <4> QED BY <1>3, <4>1, <4>2 DEF Local
    <3>2. CASE ~ CanSuspend(k, c)
      BY <1>1, <1>3, <3>2 DEF rt_thread_suspend, CanSuspend
    <3> QED BY <3>1, <3>2
  <2> HIDE DEF s
  <2>3. s \in KernelType
    BY <2>2 DEF Core
  <2>4. k'.current = c /\ k'.stat[c] # "RUNNING"
    BY <2>1, <2>2, <2>3 DEF rt_timer_start, KernelType
  <2> QED BY <2>4 DEF HighestRuns, TopRuns
<1>9. CASE rt_thread_yield(c)
  <2>1. UNCHANGED k
    BY <1>9 DEF rt_thread_yield
  <2> QED BY <1>3, <2>1, KeepHighest
<1>10. CASE rt_thread_exit(c)
  BY <1>10, ThreadExitCore, ScheduleHighest
<1>11. CASE EnterCritical(c)
  <2>1. k'.lock # 0
    BY <1>1, <1>11 DEF EnterCritical, rt_enter_critical, KernelType
  <2> QED BY <2>1 DEF HighestRuns
<1>12. CASE ExitCritical(c)
  <2>1. k'.current = c
    BY <1>1, <1>3, <1>12 DEF ExitCritical, rt_exit_critical, KernelType
  <2>2. CASE k'.lock = 0
    BY <1>3, <1>12, <2>1, <2>2 DEF ExitCritical, Goto, At, HighestRuns
  <2>3. CASE k'.lock # 0
    BY <2>3 DEF HighestRuns
  <2> QED BY <2>2, <2>3
<1> QED BY <1>4, <1>5, <1>6, <1>7, <1>8, <1>9, <1>10, <1>11, <1>12, NoRacyStep
        DEF Invoke

\* So do the later critical sections of the calls.
LEMMA ContinueHighest ==
  ASSUME RaceFree, IInv, HighestRuns, NEW c \in Thread, Continue(c)
  PROVE  HighestRuns'
<1> DEFINE t == pc[c].arg
<1>1. Core(k, {}) /\ CurrentOK(k) /\ k \in KernelType
      /\ pc = [d \in Thread |-> pc[d]] /\ (pc[c].at \in Label => t \in Thread)
  BY DEF IInv, StateOK
<1>2. CASE StartupUnlink(c)
  <2>1. c = k.current /\ pc[c].at = "startup_unlink" /\ k' = ResumeUnlink(k, t)
        /\ t \in Thread
    BY <1>1, <1>2 DEF StartupUnlink, Executes, Label
  <2>2. Held(k, t)
    BY <2>1 DEF IInv, HeldThreads, Holds
  <2>3. Local(k, k', t) /\ k'.group = k.group
    BY <1>1, <2>1, <2>2, ResumeUnlinkCore
  <2>4. t # c
    BY <2>1, <2>2 DEF Held
  <2> HIDE DEF t
  <2>5. /\ k'.current = k.current /\ k'.lock = k.lock
        /\ k'.stat[c] = k.stat[c] /\ k'.prio[c] = k.prio[c]
    BY <2>3, <2>4 DEF Local
  <2> QED BY <2>1, <2>3, <2>5, KeepHighest
<1>3. CASE StartupInsert(c)
  <2>1. c = k.current /\ pc[c].at = "startup_insert"
        /\ k' = rt_schedule_insert_thread(k, t)
        /\ pc' = [pc EXCEPT ![c] = At("sched", c)] /\ t \in Thread
    BY <1>1, <1>3 DEF StartupInsert, Executes, Goto, Label
  <2>2. Held(k, t)
    BY <2>1 DEF IInv, HeldThreads, Holds
  <2>3. Local(k, k', t)
    BY <1>1, <2>1, <2>2, InsertHeldCore
  <2> QED BY <1>1, <2>1, <2>3 DEF Local, HighestRuns, At
<1>4. CASE SuspendStep(c)
  <2>1. c = k.current /\ pc[c].at = "suspend_body" /\ k' = SuspendBody(k, t)
        /\ t \in Thread
    BY <1>1, <1>4 DEF SuspendStep, Executes, Label
  <2>2. /\ Local(k, k', t) /\ k'.stat[t] = "SUSPEND" /\ k'.group \subseteq k.group
    BY <1>1, <2>1, SuspendBodyCore
  <2> HIDE DEF t
  <2>3. CASE t = c
    BY <2>1, <2>2, <2>3 DEF Local, HighestRuns, TopRuns
  <2>4. CASE t # c
    <3>1. /\ k'.current = k.current /\ k'.lock = k.lock
          /\ k'.stat[c] = k.stat[c] /\ k'.prio[c] = k.prio[c]
      BY <2>2, <2>4 DEF Local
    <3> QED BY <2>1, <2>2, <3>1, KeepHighest
  <2> QED BY <2>3, <2>4
<1>5. CASE Schedule(c) \/ YieldSchedule(c) \/ SleepSchedule(c)
  BY <1>1, <1>5, ScheduleHighest DEF Schedule, YieldSchedule, SleepSchedule
<1>6. CASE SleepEnd(c)
  <2>1. c = k.current /\ pc[c].at = "sleep_end"
    BY <1>6 DEF SleepEnd, Executes
  <2>2. /\ k'.current = k.current /\ k'.lock = k.lock /\ k'.group = k.group
        /\ k'.stat = k.stat /\ k'.prio = k.prio
    BY <1>1, <1>6 DEF SleepEnd, KernelType
  <2> QED BY <2>1, <2>2, KeepHighest
<1> QED BY <1>2, <1>3, <1>4, <1>5, <1>6, NoRacyStep DEF Continue

\* So does the idle thread.
LEMMA IdleHighest ==
  ASSUME IInv, HighestRuns, IdleReap \/ IdleFree
  PROVE  HighestRuns'
<1>1. CASE IdleReap
  <2>1. PICK t \in Thread : \E w : Reaps(t, w)
    BY <1>1, ReapCore
  <2>2. PICK u : Reaps(t, u)
    BY <2>1
  <2> DEFINE v == rt_schedule(u)
  <2>3. /\ Core(v, {}) /\ Moves(u, v) /\ (u.lock = 0 => TopRuns(v))
        /\ k' = v \/ k' = SetStat(v, t, "NONE")
    BY <2>2, ScheduleCore DEF Reaps
  <2> HIDE DEF v
  <2>4. Held(u, t)
    BY <2>2 DEF Reaps
  <2>5. Held(v, t)
    BY <2>3, <2>4, HeldMoves
  <2>6. v \in KernelType /\ v.lock = u.lock /\ t # v.current
    BY <2>3, <2>5 DEF Core, Moves, Held
  <2>7. /\ k'.current = v.current /\ k'.lock = v.lock /\ k'.group = v.group
        /\ k'.prio = v.prio /\ k'.stat[v.current] = v.stat[v.current]
    BY <2>3, <2>6 DEF SetStat, KernelType
  <2>8. k'.lock = 0 => TopRuns(k')
    BY <2>3, <2>6, <2>7 DEF TopRuns
  <2> QED BY <2>8 DEF HighestRuns
<1>2. CASE IdleFree
  <2>1. Executes(Idle, "idle_free") /\ Idle \in Thread
    BY <1>2, ThreadAssumption DEF IdleFree
  <2>2. Idle = k.current /\ pc[Idle].at = "idle_free"
    BY <2>1 DEF Executes
  <2>3. k \in KernelType /\ pc[Idle].arg # Idle
    BY <2>1, <2>2 DEF IInv, StateOK, HeldThreads, Holds, Held
  <2>4. /\ k'.current = k.current /\ k'.lock = k.lock /\ k'.group = k.group
        /\ k'.stat[Idle] = k.stat[Idle] /\ k'.prio = k.prio
    BY <1>2, <2>1, <2>3 DEF IdleFree, SetStat, KernelType
  <2> QED BY <2>1, <2>2, <2>4, KeepHighest
<1> QED BY <1>1, <1>2

\* So does the tick interrupt, which may find a thread between making another
\* one ready and calling rt_schedule.
LEMMA TickHighest ==
  ASSUME IInv, HighestRuns, rt_tick_increase \/ TickIsr
  PROVE  HighestRuns'
<1>1. Core(k, {}) /\ CurrentOK(k) /\ k.current \in Thread
  BY DEF IInv, Core, KernelType
<1>2. CASE rt_tick_increase
  <2> DEFINE u == TickSlice(k)
  <2>1. k' = TickTimers(u) /\ UNCHANGED pc
    BY <1>2 DEF rt_tick_increase
  <2>2. /\ Core(u, {}) /\ CurrentOK(u) /\ u.lock = k.lock
        /\ k.lock = 0 =>
             (TopRuns(u) \/ (u.current = k.current /\ ~ TopRuns(k)))
    BY <1>1, TickSliceCore DEF IInv, SliceOK
  <2> HIDE DEF u
  <2>3. k'.lock = u.lock /\ k'.current = u.current /\ (TopRuns(u) => TopRuns(k'))
    BY <2>1, <2>2, TickTimersCore
  <2> QED BY <2>1, <2>2, <2>3 DEF HighestRuns
<1>3. ASSUME NEW t \in Thread, TimerFires(t) PROVE HighestRuns'
  <2> DEFINE u == Wake(k, t)
  <2>1. k.timer[t] = 0 /\ k' = rt_thread_timeout(k, t)
    BY <1>3 DEF TimerFires, Expired
  <2>2. k.stat[t] = "SUSPEND"
    BY <1>1, <2>1 DEF Core, StatOK, Off
  <2>3. Core(u, {}) /\ CurrentOK(u) /\ rt_thread_timeout(k, t) = rt_schedule(u)
    BY <1>1, <2>2, WakeCore
  <2> HIDE DEF u
  <2> QED BY <2>1, <2>3, ScheduleHighest
<1>4. CASE TickEnds
  BY <1>4 DEF TickEnds, HighestRuns, TopRuns
<1> QED BY <1>2, <1>3, <1>4 DEF TickIsr

\* Preemption: while the scheduler is not locked, no ready thread has a higher
\* priority than the RUNNING one, unless that one is about to call rt_schedule.
THEOREM HighestPriorityRuns ==
  ASSUME RaceFree, NoControl
  PROVE  Spec => []HighestRuns
<1>1. Init => HighestRuns
  <2> SUFFICES ASSUME Init PROVE HighestRuns
    OBVIOUS
  <2>1. PICK first \in Thread \ {Idle} : InitPrio[first] <= InitPrio[Idle]
                                         /\ k = InitKernel(first)
    BY DEF Init
  <2> QED BY <2>1 DEF InitKernel, HighestRuns, TopRuns
<1>2. IInv /\ HighestRuns /\ [Next]_vars => HighestRuns'
  <2> SUFFICES ASSUME IInv, HighestRuns, [Next]_vars PROVE HighestRuns'
    OBVIOUS
  <2>1. CASE UNCHANGED vars
    BY <2>1 DEF vars, HighestRuns, TopRuns
  <2>2. CASE Next
    BY <2>2, InvokeHighest, ContinueHighest, IdleHighest, TickHighest DEF Next
  <2> QED BY <2>1, <2>2
<1> QED BY <1>1, <1>2, InductiveInvariant, PTL DEF Spec

-----------------------------------------------------------------------------
(***************************************************************************)
(* The scheduler lock, in every program: rt_current_thread is assigned in  *)
(* rt_schedule only, and rt_schedule does nothing while the lock is held.  *)
(***************************************************************************)
\* A record with the fields of a kernel, whatever they hold.
IsKernel(u) ==
  u = [stat |-> u.stat, yld |-> u.yld, prio |-> u.prio, list |-> u.list,
       group |-> u.group, current |-> u.current, lock |-> u.lock,
       slice |-> u.slice, timer |-> u.timer, err |-> u.err]

\* u has the current thread of kk, and the lock of kk.
Stays(kk, u) == IsKernel(u) /\ u.current = kk.current /\ u.lock = kk.lock

\* The current thread is the same if the lock of kk is held.
Locked(kk, u) == IsKernel(u) /\ (kk.lock # 0 => u.current = kk.current)

\* An assignment to another field changes neither.
LEMMA FieldStays ==
  ASSUME NEW kk, IsKernel(kk), NEW v
  PROVE  /\ Stays(kk, [kk EXCEPT !.stat = v])
         /\ Stays(kk, [kk EXCEPT !.yld = v])
         /\ Stays(kk, [kk EXCEPT !.prio = v])
         /\ Stays(kk, [kk EXCEPT !.list = v])
         /\ Stays(kk, [kk EXCEPT !.group = v])
         /\ Stays(kk, [kk EXCEPT !.slice = v])
         /\ Stays(kk, [kk EXCEPT !.timer = v])
         /\ Stays(kk, [kk EXCEPT !.err = v])
<1>1. Stays(kk, [kk EXCEPT !.stat = v])
  BY DEF Stays, IsKernel
<1>2. Stays(kk, [kk EXCEPT !.yld = v])
  BY DEF Stays, IsKernel
<1>3. Stays(kk, [kk EXCEPT !.prio = v])
  BY DEF Stays, IsKernel
<1>4. Stays(kk, [kk EXCEPT !.list = v])
  BY DEF Stays, IsKernel
<1>5. Stays(kk, [kk EXCEPT !.group = v])
  BY DEF Stays, IsKernel
<1>6. Stays(kk, [kk EXCEPT !.slice = v])
  BY DEF Stays, IsKernel
<1>7. Stays(kk, [kk EXCEPT !.timer = v])
  BY DEF Stays, IsKernel
<1>8. Stays(kk, [kk EXCEPT !.err = v])
  BY DEF Stays, IsKernel
<1> QED BY <1>1, <1>2, <1>3, <1>4, <1>5, <1>6, <1>7, <1>8

\* The operations of the kernel other than rt_schedule.
LEMMA OperationsStay ==
  ASSUME NEW kk, IsKernel(kk), NEW t, NEW d
  PROVE  /\ Stays(kk, SetStat(kk, t, d))
         /\ Stays(kk, rt_list_remove(kk, t))
         /\ Stays(kk, rt_schedule_insert_thread(kk, t))
         /\ Stays(kk, rt_schedule_remove_thread(kk, t))
         /\ Stays(kk, rt_timer_start(kk, t, d))
         /\ Stays(kk, rt_timer_stop(kk, t))
         /\ Stays(kk, rt_timer_detach(kk, t))
         /\ Stays(kk, TickTimers(kk))
<1>1. Stays(kk, SetStat(kk, t, d))
  BY DEF Stays, IsKernel, SetStat
<1>2. Stays(kk, rt_list_remove(kk, t))
  BY FieldStays DEF rt_list_remove
<1>3. Stays(kk, rt_schedule_insert_thread(kk, t))
  <2> DEFINE s == SetStat(kk, t, "READY")
             b == rt_list_insert_before(s, kk.prio[t], t)
  <2>1. IsKernel(s) /\ Stays(kk, s)
    BY DEF Stays, IsKernel, SetStat
  <2> HIDE DEF s
  <2> DEFINE l == [s.list EXCEPT ![kk.prio[t]] = Append(@, t)]
  <2>2. IsKernel(b) /\ Stays(s, b)
    <3>1. b = [s EXCEPT !.list = l]
      BY DEF rt_list_insert_before
    <3> HIDE DEF b, l
    <3> QED BY <2>1, <3>1, FieldStays DEF Stays
  <2> HIDE DEF l
  <2> HIDE DEF b
  <2>3. Stays(b, [b EXCEPT !.group = @ \cup {kk.prio[t]}])
    BY <2>2 DEF Stays, IsKernel
  <2>4. Stays(kk, SetStat(kk, t, "RUNNING"))
    BY DEF Stays, IsKernel, SetStat
  <2> QED BY <2>1, <2>2, <2>3, <2>4 DEF rt_schedule_insert_thread, Stays, b, s
<1>4. Stays(kk, rt_schedule_remove_thread(kk, t))
  <2> DEFINE r == rt_list_remove(kk, t)
  <2>1. Stays(kk, r) /\ IsKernel(r)
    BY <1>2 DEF Stays
  <2> HIDE DEF r
  <2> DEFINE g == r.group \ {kk.prio[t]}
  <2>2. [r EXCEPT !.group = @ \ {kk.prio[t]}] = [r EXCEPT !.group = g]
    OBVIOUS
  <2> HIDE DEF g
  <2>3. Stays(r, [r EXCEPT !.group = g])
    BY <2>1, FieldStays
  <2> QED BY <2>1, <2>2, <2>3 DEF rt_schedule_remove_thread, Stays, r
<1>5. Stays(kk, rt_timer_start(kk, t, d))
  BY DEF Stays, IsKernel, rt_timer_start
<1>6. Stays(kk, rt_timer_stop(kk, t)) /\ Stays(kk, rt_timer_detach(kk, t))
  BY DEF Stays, IsKernel, rt_timer_stop, rt_timer_detach
<1>7. Stays(kk, TickTimers(kk))
  BY FieldStays DEF TickTimers
<1> QED BY <1>1, <1>2, <1>3, <1>4, <1>5, <1>6, <1>7

\* Their compositions.
LEMMA CompositionsStay ==
  ASSUME NEW kk, IsKernel(kk), NEW t, NEW p
  PROVE  /\ Stays(kk, SuspendBody(kk, t))
         /\ Stays(kk, rt_thread_suspend(kk, t))
         /\ Stays(kk, ResumeUnlink(kk, t))
         /\ Stays(kk, Wake(kk, t))
         /\ Stays(kk, ChangePriority(kk, t, p))
         /\ Stays(kk, Close(kk, t))
<1>1. \A u, v : Stays(kk, u) /\ Stays(u, v) => Stays(kk, v)
  BY DEF Stays
<1>2. \A u : Stays(kk, u) => IsKernel(u)
  BY DEF Stays
<1>3. Stays(kk, SuspendBody(kk, t))
  <2> DEFINE r == rt_schedule_remove_thread(kk, t)
             s == SetStat(r, t, "SUSPEND")
  <2>1. Stays(kk, r)
    BY OperationsStay
  <2> HIDE DEF r
  <2>2. Stays(r, s)
    BY <1>2, <2>1, OperationsStay
  <2>3. Stays(kk, s)
    BY <1>1, <2>1, <2>2
  <2> HIDE DEF s
  <2>4. Stays(s, rt_timer_stop(s, t))
    BY <1>2, <2>3, OperationsStay
  <2> QED BY <1>1, <2>3, <2>4 DEF SuspendBody, r, s
<1>4. Stays(kk, kk)
  BY DEF Stays
<1>5. Stays(kk, rt_thread_suspend(kk, t))
  BY <1>3, <1>4 DEF rt_thread_suspend
<1>6. Stays(kk, ResumeUnlink(kk, t))
  <2> DEFINE r == rt_list_remove(kk, t)
  <2>1. Stays(kk, r)
    BY OperationsStay
  <2> HIDE DEF r
  <2>2. Stays(r, rt_timer_stop(r, t))
    BY <1>2, <2>1, OperationsStay
  <2> QED BY <1>1, <2>1, <2>2 DEF ResumeUnlink, r
<1>7. Stays(kk, Wake(kk, t))
  <2> DEFINE r == rt_timer_stop(kk, t)
             e == [r EXCEPT !.err[t] = "ETIMEOUT"]
             u == rt_list_remove(e, t)
  <2>1. Stays(kk, r)
    BY OperationsStay
  <2> HIDE DEF r
  <2>2. Stays(r, e)
    BY <1>2, <2>1 DEF Stays, IsKernel
  <2>3. Stays(kk, e)
    BY <1>1, <2>1, <2>2
  <2> HIDE DEF e
  <2>4. Stays(e, u)
    BY <1>2, <2>3, OperationsStay
  <2>5. Stays(kk, u)
    BY <1>1, <2>3, <2>4
  <2> HIDE DEF u
  <2>6. Stays(u, rt_schedule_insert_thread(u, t))
    BY <1>2, <2>5, OperationsStay
  <2> QED BY <1>1, <2>5, <2>6 DEF Wake, r, e, u
<1>8. Stays(kk, ChangePriority(kk, t, p))
  <2> DEFINE r == rt_schedule_remove_thread(kk, t)
             v == [r EXCEPT !.prio[t] = p]
  <2>1. Stays(kk, r)
    BY OperationsStay
  <2> HIDE DEF r
  <2>2. Stays(r, v)
    BY <1>2, <2>1 DEF Stays, IsKernel
  <2>3. Stays(kk, v)
    BY <1>1, <2>1, <2>2
  <2> HIDE DEF v
  <2>4. Stays(v, rt_schedule_insert_thread(v, t))
    BY <1>2, <2>3, OperationsStay
  <2>5. Stays(kk, rt_schedule_insert_thread(v, t))
    BY <1>1, <2>3, <2>4
  <2>6. Stays(kk, [kk EXCEPT !.prio[t] = p])
    BY DEF Stays, IsKernel
  <2> QED BY <2>5, <2>6 DEF ChangePriority, v, r
<1>9. Stays(kk, Close(kk, t))
  <2> DEFINE s == SetStat(kk, t, "CLOSE")
             y == [s EXCEPT !.yld[t] = FALSE]
  <2>1. Close(kk, t) = IF t \in Static \ Cleanup
                         THEN y ELSE rt_list_insert_after(y, Defunct, t)
    BY DEF Close
  <2>2. Stays(kk, s)
    BY OperationsStay
  <2> HIDE DEF s
  <2> DEFINE f == [s.yld EXCEPT ![t] = FALSE]
  <2>3. Stays(s, y)
    <3>1. y = [s EXCEPT !.yld = f]
      OBVIOUS
    <3> HIDE DEF f, y
    <3> QED BY <1>2, <2>2, <3>1, FieldStays
  <2>4. Stays(kk, y)
    BY <1>1, <2>2, <2>3
  <2> HIDE DEF y, f
  <2>5. IsKernel(y)
    BY <2>4 DEF Stays
  <2> DEFINE l == [y.list EXCEPT ![Defunct] = <<t>> \o @]
  <2>6. rt_list_insert_after(y, Defunct, t) = [y EXCEPT !.list = l]
    BY DEF rt_list_insert_after
  <2> HIDE DEF l
  <2>7. Stays(y, [y EXCEPT !.list = l])
    BY <2>5, FieldStays
  <2>8. Stays(kk, rt_list_insert_after(y, Defunct, t))
    BY <1>1, <2>4, <2>6, <2>7
  <2> QED BY <2>1, <2>4, <2>8
<1> QED BY <1>3, <1>5, <1>6, <1>7, <1>8, <1>9

\* rt_schedule returns at once when the scheduler is locked.
LEMMA ScheduleLocked ==
  ASSUME NEW kk, NEW u, Stays(kk, u)
  PROVE  Locked(kk, rt_schedule(u))
<1>1. IsKernel(u) /\ u.current = kk.current /\ u.lock = kk.lock
  BY DEF Stays
<1>2. CASE u.lock # 0
  BY <1>1, <1>2 DEF rt_schedule, Locked
<1>3. CASE u.lock = 0
  <2>1. ASSUME NEW v, IsKernel(v), NEW t PROVE IsKernel(Dispatch(v, t))
    <3>1. IsKernel(rt_schedule_remove_thread(v, t))
      BY <2>1, OperationsStay DEF Stays
    <3> QED BY <3>1, OperationsStay DEF Stays, Dispatch
  <2>2. ASSUME NEW to PROVE IsKernel(SwitchTo(u, to))
    <3> DEFINE s == [u EXCEPT !.current = to]
               y == [s EXCEPT !.yld[u.current] = FALSE]
    <3>1. IsKernel(s)
      BY <1>1 DEF IsKernel
    <3> HIDE DEF s
    <3> DEFINE f == [s.yld EXCEPT ![u.current] = FALSE]
    <3>2. IsKernel(y)
      <4>1. y = [s EXCEPT !.yld = f]
        OBVIOUS
      <4> HIDE DEF f, y
      <4> QED BY <3>1, <4>1, FieldStays DEF Stays
    <3> HIDE DEF y
    <3>3. IsKernel(rt_schedule_insert_thread(y, u.current))
      BY <3>2, OperationsStay DEF Stays
    <3> QED BY <2>1, <3>1, <3>3 DEF SwitchTo, s, y
  <2>3. IsKernel(rt_schedule(u))
    BY <1>1, <2>1, <2>2 DEF rt_schedule
  <2> QED BY <1>1, <1>3, <2>3 DEF Locked
<1> QED BY <1>2, <1>3

\* Every step of every program obeys the lock.
LEMMA NextLocked ==
  ASSUME IsKernel(k), [Next]_vars
  PROVE  Locked(k, k')
<1>1. \A u, v : Stays(k, u) /\ Stays(u, v) => Stays(k, v)
  BY DEF Stays
<1>2. \A u : Stays(k, u) => IsKernel(u)
  BY DEF Stays
<1>3. \A u : Stays(k, u) => Locked(k, u)
  BY DEF Stays, Locked
<1>4. Stays(k, k)
  BY DEF Stays
<1>5. ASSUME NEW c \in Thread, Continue(c) PROVE Locked(k, k')
  <2> DEFINE t == pc[c].arg
  <2>1. CASE \/ k' = ResumeUnlink(k, t) \/ k' = rt_schedule_insert_thread(k, t)
             \/ k' = SuspendBody(k, t) \/ k' = rt_timer_detach(k, t)
             \/ k' = Close(k, t)
    <3> HIDE DEF t
    <3> QED BY <1>3, <2>1, OperationsStay, CompositionsStay
  <2>2. CASE k' = rt_schedule(k)
    BY <1>4, <2>2, ScheduleLocked
  <2>3. CASE SleepEnd(c)
    <3> DEFINE e == [k.err EXCEPT ![c] = IF @ = "ETIMEOUT" THEN "EOK" ELSE @]
    <3>1. k' = [k EXCEPT !.err = e]
      BY <2>3 DEF SleepEnd
    <3> HIDE DEF e
    <3> QED BY <1>3, <3>1, FieldStays
  <2> QED BY <1>5, <2>1, <2>2, <2>3 DEF Continue, StartupUnlink, StartupInsert,
          ResumeUnlinkStep, ResumeInsert, SuspendStep, Schedule, YieldSchedule,
          SleepSchedule, DeleteTimer, DeleteClose
<1>6. ASSUME NEW c \in Thread, NEW t \in Thread, rt_thread_create(c, t)
      PROVE  Locked(k, k')
  <2> DEFINE s == SetStat(k, t, "INIT")
             f == [s.yld EXCEPT ![t] = FALSE]
             y == [s EXCEPT !.yld = f]
             g == [y.prio EXCEPT ![t] = InitPrio[t]]
             p == [y EXCEPT !.prio = g]
             h == [p.slice EXCEPT ![t] = InitTick[t]]
             q == [p EXCEPT !.slice = h]
             i == [q.timer EXCEPT ![t] = Off]
             r == [q EXCEPT !.timer = i]
             j == [r.err EXCEPT ![t] = "EOK"]
             e == [r EXCEPT !.err = j]
  <2>1. k' = e
    BY <1>6 DEF rt_thread_create
  <2>2. Stays(k, s)
    BY OperationsStay
  <2> HIDE DEF s, f, g, h, i, j
  <2>3. Stays(s, y)
    BY <1>2, <2>2, FieldStays
  <2>4. Stays(k, y)
    BY <1>1, <2>2, <2>3
  <2> HIDE DEF y
  <2>5. Stays(y, p)
    BY <1>2, <2>4, FieldStays
  <2>6. Stays(k, p)
    BY <1>1, <2>4, <2>5
  <2> HIDE DEF p
  <2>7. Stays(p, q)
    BY <1>2, <2>6, FieldStays
  <2>8. Stays(k, q)
    BY <1>1, <2>6, <2>7
  <2> HIDE DEF q
  <2>9. Stays(q, r)
    BY <1>2, <2>8, FieldStays
  <2>10. Stays(k, r)
    BY <1>1, <2>8, <2>9
  <2> HIDE DEF r
  <2>11. Stays(r, e)
    BY <1>2, <2>10, FieldStays
  <2> HIDE DEF e
  <2> QED BY <1>1, <1>3, <2>1, <2>10, <2>11
<1>7. ASSUME NEW c \in Thread, NEW t \in Thread, rt_thread_startup(c, t)
      PROVE  Locked(k, k')
  <2> DEFINE s == SetStat(k, t, "SUSPEND")
             f == [s.yld EXCEPT ![t] = FALSE]
             y == [s EXCEPT !.yld = f]
             g == [y.prio EXCEPT ![t] = InitPrio[t]]
             p == [y EXCEPT !.prio = g]
  <2>1. k' = p
    BY <1>7 DEF rt_thread_startup
  <2>2. Stays(k, s)
    BY OperationsStay
  <2> HIDE DEF s, f, g
  <2>3. Stays(s, y)
    BY <1>2, <2>2, FieldStays
  <2>4. Stays(k, y)
    BY <1>1, <2>2, <2>3
  <2> HIDE DEF y
  <2>5. Stays(y, p)
    BY <1>2, <2>4, FieldStays
  <2> HIDE DEF p
  <2> QED BY <1>1, <1>3, <2>1, <2>4, <2>5
<1>8. ASSUME NEW c \in Thread, Invoke(c) PROVE Locked(k, k')
  <2>1. ASSUME NEW t \in Thread,
               rt_thread_resume_(c, t) \/ rt_thread_suspend_(c, t)
        PROVE  Locked(k, k')
    BY <1>3, <1>4, <2>1 DEF rt_thread_resume_, rt_thread_suspend_
  <2>2. ASSUME NEW t \in Thread, rt_thread_delete(c, t) PROVE Locked(k, k')
    <3>1. k' = rt_schedule_remove_thread(k, t) \/ k' = k
      BY <2>2 DEF rt_thread_delete
    <3> QED BY <1>3, <1>4, <3>1, OperationsStay
  <2>3. ASSUME NEW t \in Thread, NEW p \in Prio, rt_thread_control(c, t, p)
        PROVE  Locked(k, k')
    BY <1>3, <2>3, CompositionsStay DEF rt_thread_control
  <2>4. ASSUME NEW d \in Timeout, rt_thread_sleep(c, d) PROVE Locked(k, k')
    <3> DEFINE s == rt_thread_suspend(k, c)
    <3>1. Stays(k, s) /\ k' = rt_timer_start(s, c, d)
      BY <2>4, CompositionsStay DEF rt_thread_sleep
    <3> HIDE DEF s
    <3>2. Stays(s, k')
      BY <1>2, <3>1, OperationsStay
    <3> QED BY <1>1, <1>3, <3>1, <3>2
  <2>5. CASE rt_thread_yield(c)
    BY <1>3, <1>4, <2>5 DEF rt_thread_yield
  <2>6. CASE rt_thread_exit(c)
    <3> DEFINE r == rt_schedule_remove_thread(k, c)
               d == rt_timer_detach(r, c)
               u == Close(d, c)
    <3>1. Stays(k, r) /\ k' = rt_schedule(u)
      BY <2>6, OperationsStay DEF rt_thread_exit
    <3> HIDE DEF r
    <3>2. Stays(r, d)
      BY <1>2, <3>1, OperationsStay
    <3>3. Stays(k, d)
      BY <1>1, <3>1, <3>2
    <3> HIDE DEF d
    <3>4. Stays(d, u)
      BY <1>2, <3>3, CompositionsStay
    <3>5. Stays(k, u)
      BY <1>1, <3>3, <3>4
    <3> HIDE DEF u
    <3> QED BY <3>1, <3>5, ScheduleLocked
  <2>7. CASE EnterCritical(c) \/ ExitCritical(c)
    <3>1. PICK n : k' = [k EXCEPT !.lock = n]
      BY <2>7 DEF EnterCritical, ExitCritical, rt_enter_critical,
         rt_exit_critical
    <3> QED BY <3>1 DEF Locked, IsKernel
  <2> QED BY <1>6, <1>7, <1>8, <2>1, <2>2, <2>3, <2>4, <2>5, <2>6, <2>7
          DEF Invoke
<1>9. CASE IdleReap
  <2> DEFINE t == Head(k.list[Defunct])
             r == rt_list_remove(k, t)
             u == rt_schedule(r)
  <2>1. Stays(k, r)
    BY OperationsStay
  <2>2. k' = u \/ k' = SetStat(u, t, "NONE")
    BY <1>9 DEF IdleReap
  <2> HIDE DEF r, t
  <2>3. Locked(k, u)
    BY <2>1, ScheduleLocked
  <2> HIDE DEF u
  <2>4. Stays(u, SetStat(u, t, "NONE"))
    BY <2>3, OperationsStay DEF Locked
  <2> QED BY <2>2, <2>3, <2>4 DEF Stays, Locked
<1>10. CASE IdleFree
  BY <1>3, <1>10, OperationsStay DEF IdleFree
<1>11. CASE rt_tick_increase
  <2> DEFINE c == k.current
             d == [k EXCEPT !.slice[c] = @ - 1]
             f == [d.slice EXCEPT ![c] = InitTick[c]]
             s == [d EXCEPT !.slice = f]
             g == [s.yld EXCEPT ![c] = TRUE]
             y == [s EXCEPT !.yld = g]
             u == TickSlice(k)
  <2>1. u = IF d.slice[c] = 0 THEN rt_schedule(y) ELSE d
    BY DEF TickSlice
  <2>2. Stays(k, d)
    BY DEF Stays, IsKernel
  <2> HIDE DEF d, f, g, u
  <2>3. Stays(d, s)
    BY <1>2, <2>2, FieldStays
  <2>4. Stays(k, s)
    BY <1>1, <2>2, <2>3
  <2> HIDE DEF s
  <2>5. Stays(s, y)
    BY <1>2, <2>4, FieldStays
  <2>6. Stays(k, y)
    BY <1>1, <2>4, <2>5
  <2> HIDE DEF y
  <2>7. Locked(k, u)
    BY <1>3, <2>1, <2>2, <2>6, ScheduleLocked
  <2>8. Stays(u, k')
    BY <1>11, <2>7, OperationsStay DEF rt_tick_increase, Locked, u
  <2> QED BY <2>7, <2>8 DEF Stays, Locked
<1>12. ASSUME NEW t \in Thread, TimerFires(t) PROVE Locked(k, k')
  <2> DEFINE u == Wake(k, t)
  <2>1. Stays(k, u) /\ k' = rt_schedule(u)
    BY <1>12, CompositionsStay DEF TimerFires, rt_thread_timeout, Wake
  <2> HIDE DEF u
  <2> QED BY <2>1, ScheduleLocked
<1>13. CASE TickEnds \/ UNCHANGED vars
  BY <1>3, <1>4, <1>13 DEF TickEnds, vars
<1> QED BY <1>5, <1>8, <1>9, <1>10, <1>11, <1>12, <1>13 DEF Next, TickIsr

\* rt_enter_critical: whatever the program calls and the tick makes ready, the
\* current thread stays the current thread while the lock is held.
THEOREM LockIsObeyed == Spec => LockHolds
<1>1. Init => IsKernel(k)
  BY DEF Init, InitKernel, IsKernel
<1>2. IsKernel(k) /\ [Next]_vars => IsKernel(k)'
  BY NextLocked DEF Locked, IsKernel
<1>3. IsKernel(k) /\ [Next]_vars => [k.lock # 0 => k'.current = k.current]_vars
  BY NextLocked DEF Locked
<1> QED BY <1>1, <1>2, <1>3, PTL DEF Spec, LockHolds
-----------------------------------------------------------------------------
(***************************************************************************)
(* A thread that has exited stays closed.  rt_thread_suspend tests the     *)
(* thread's state before it disables interrupts, so that it can suspend a  *)
(* thread that exited in between: the theorem is about programs that do    *)
(* not call it either.                                                     *)
(***************************************************************************)
NobodySuspends == \A m \in May : m[2] # "suspend"

NotSuspending == \A c \in Thread : pc[c].at # "suspend_body"

Released == {"CLOSE", "NONE", "INIT"}

KeepsClosed(u, v) == \A t \in Thread : u.stat[t] = "CLOSE" => v.stat[t] \in Released

\* A program that does not call rt_thread_suspend is never inside it.
LEMMA NextNotSuspending ==
  ASSUME NobodySuspends, StateOK, NotSuspending, [Next]_vars
  PROVE  NotSuspending'
<1>1. \A c \in Thread : ~ Calls(c, "suspend")
  <2> SUFFICES ASSUME NEW c \in Thread, Calls(c, "suspend") PROVE FALSE
    OBVIOUS
  <2>1. <<c, "suspend">> \in May
    BY DEF Calls
  <2>2. <<c, "suspend">>[2] # "suspend"
    BY <2>1 DEF NobodySuspends
  <2> QED BY <2>2
<1>2. CASE UNCHANGED pc
  BY <1>2 DEF NotSuspending
<1>3. ASSUME NEW t \in Thread, NEW l \in Label, NEW a,
             pc' = [pc EXCEPT ![t] = At(l, a)], l # "suspend_body"
      PROVE  NotSuspending'
  BY <1>3 DEF NotSuspending, StateOK, At
<1>4. CASE Next
  BY <1>1, <1>2, <1>3, <1>4, NextPc
<1> QED BY <1>2, <1>4 DEF vars

\* A change of one thread that is not closed, a change of no state, and a
\* context switch keep closed threads closed, and so does one after the other.
LEMMA ClosedKept ==
  ASSUME NEW u, NEW v
  PROVE  /\ v.stat = u.stat => KeepsClosed(u, v)
         /\ \A t \in Thread : Local(u, v, t) /\ u.stat[t] # "CLOSE" =>
              KeepsClosed(u, v)
         /\ \A t \in Thread : Steady(u, v, {t}) /\ u.stat[t] # "CLOSE" =>
              KeepsClosed(u, v)
         /\ Moves(u, v) \/ KeepsBlocked(u, v) => KeepsClosed(u, v)
<1>1. v.stat = u.stat => KeepsClosed(u, v)
  BY DEF KeepsClosed, Released
<1>2. ASSUME NEW t \in Thread, Local(u, v, t), u.stat[t] # "CLOSE"
      PROVE  KeepsClosed(u, v)
  BY <1>2 DEF KeepsClosed, Released, Local
<1>3. ASSUME NEW t \in Thread, Steady(u, v, {t}), u.stat[t] # "CLOSE"
      PROVE  KeepsClosed(u, v)
  BY <1>3 DEF KeepsClosed, Released, Steady
<1>4. ASSUME Moves(u, v) \/ KeepsBlocked(u, v) PROVE KeepsClosed(u, v)
  BY <1>4 DEF KeepsClosed, Released, Moves, KeepsBlocked
<1> QED BY <1>1, <1>2, <1>3, <1>4

\* The steps that finish a call keep closed threads closed.
LEMMA ContinueKeepsClosed ==
  ASSUME RaceFree, IInv, NotSuspending, NEW c \in Thread, Continue(c)
  PROVE  KeepsClosed(k, k')
<1> DEFINE t == pc[c].arg
<1>1. Core(k, {}) /\ CurrentOK(k)
  BY DEF IInv
<1>2. ASSUME NEW l \in Label, Executes(c, l), l \in {"startup_unlink", "startup_insert"}
      PROVE  t \in Thread /\ Held(k, t) /\ k.stat[t] = "SUSPEND"
  BY <1>2, ExecutesFacts DEF IInv, HeldThreads, Holds, StartsSuspended
<1> HIDE DEF t
<1>3. CASE StartupUnlink(c)
  <2>1. k' = ResumeUnlink(k, t) /\ t \in Thread /\ Held(k, t)
    BY <1>2, <1>3 DEF StartupUnlink, Label, t
  <2>2. k'.stat = k.stat
    BY <1>1, <2>1, ResumeUnlinkCore
  <2> QED BY <2>2, ClosedKept
<1>4. CASE StartupInsert(c)
  <2>1. k' = rt_schedule_insert_thread(k, t) /\ t \in Thread /\ Held(k, t)
        /\ k.stat[t] = "SUSPEND"
    BY <1>2, <1>4 DEF StartupInsert, Label, t
  <2>2. Local(k, k', t)
    BY <1>1, <2>1, InsertHeldCore
  <2> QED BY <2>1, <2>2, ClosedKept
<1>5. CASE Schedule(c) \/ YieldSchedule(c) \/ SleepSchedule(c)
  <2>1. k' = rt_schedule(k)
    BY <1>5 DEF Schedule, YieldSchedule, SleepSchedule
  <2>2. Moves(k, k')
    BY <1>1, <2>1, ScheduleCore
  <2> QED BY <2>2, ClosedKept
<1>6. CASE SleepEnd(c)
  <2>1. k'.stat = k.stat
    BY <1>6 DEF SleepEnd, IInv, StateOK, KernelType
  <2> QED BY <2>1, ClosedKept
<1>7. ~ SuspendStep(c)
  BY DEF SuspendStep, Executes, NotSuspending
<1> QED BY <1>3, <1>4, <1>5, <1>6, <1>7, NoRacyStep DEF Continue

\* The application's calls keep closed threads closed; creating a thread
\* reuses the object of one that has been released.
LEMMA InvokeKeepsClosed ==
  ASSUME RaceFree, IInv, NEW c \in Thread, Invoke(c)
  PROVE  KeepsClosed(k, k')
<1>1. Core(k, {}) /\ CurrentOK(k) /\ k \in KernelType
  BY DEF IInv, StateOK
<1>2. \A a : Calls(c, a) => c = k.current /\ k.stat[c] # "CLOSE"
  BY CallsFacts, ExecutesFacts DEF Label
<1>3. ASSUME NEW t \in Thread, rt_thread_create(c, t) PROVE KeepsClosed(k, k')
  <2>1. k'.stat = [k.stat EXCEPT ![t] = "INIT"]
    BY <1>1, <1>3 DEF rt_thread_create, SetStat, KernelType
  <2> QED BY <1>1, <2>1 DEF KeepsClosed, Released, KernelType
<1>4. ASSUME NEW t \in Thread, rt_thread_startup(c, t) PROVE KeepsClosed(k, k')
  <2>1. k'.stat = [k.stat EXCEPT ![t] = "SUSPEND"] /\ k.stat[t] = "INIT"
    BY <1>1, <1>4 DEF rt_thread_startup, SetStat, KernelType
  <2> QED BY <1>1, <2>1 DEF KeepsClosed, Released, KernelType
<1>5. ASSUME NEW t \in Thread, NEW p \in Prio, rt_thread_control(c, t, p)
      PROVE  KeepsClosed(k, k')
  <2>1. k' = ChangePriority(k, t, p)
    BY <1>5 DEF rt_thread_control
  <2>2. Local(k, k', t) /\ k'.stat[t] = k.stat[t]
    BY <1>1, <2>1, ChangePriorityCore
  <2> QED BY <2>2 DEF Local, KeepsClosed, Released
<1>6. ASSUME NEW d \in Timeout, rt_thread_sleep(c, d) PROVE KeepsClosed(k, k')
  <2> DEFINE s == rt_thread_suspend(k, c)
  <2>1. k' = rt_timer_start(s, c, d) /\ c = k.current /\ k.stat[c] # "CLOSE"
    BY <1>2, <1>6 DEF rt_thread_sleep
  <2>2. s \in KernelType /\ KeepsClosed(k, s)
    <3>1. CASE CanSuspend(k, c)
      <4>1. s = SuspendBody(k, c)
        BY <3>1 DEF rt_thread_suspend
      <4>2. Core(s, {}) /\ Local(k, s, c)
        BY <1>1, <4>1, SuspendBodyCore
      <4> QED BY <2>1, <4>2, ClosedKept DEF Core
    <3>2. CASE ~ CanSuspend(k, c)
      BY <1>1, <3>2, ClosedKept DEF rt_thread_suspend
    <3> QED BY <3>1, <3>2
  <2> HIDE DEF s
  <2>3. k'.stat = s.stat
    BY <2>1, <2>2 DEF rt_timer_start, KernelType
  <2> QED BY <2>2, <2>3 DEF KeepsClosed
<1>7. CASE rt_thread_exit(c)
  <2>1. k.stat[c] # "CLOSE"
    BY <1>2, <1>7 DEF rt_thread_exit
  <2>2. PICK u : k' = rt_schedule(u) /\ Core(u, {}) /\ CurrentOK(u) /\ Steady(k, u, {c})
    BY <1>7, ThreadExitCore
  <2>3. KeepsClosed(k, u) /\ Moves(u, k')
    BY <2>1, <2>2, ClosedKept, ScheduleCore
  <2> QED BY <2>3 DEF Moves, KeepsClosed, Released
<1>8. ASSUME NEW t \in Thread, rt_thread_suspend_(c, t) PROVE KeepsClosed(k, k')
  BY <1>8, ClosedKept DEF rt_thread_suspend_
<1>9. CASE rt_thread_yield(c) \/ EnterCritical(c) \/ ExitCritical(c)
  <2>1. k'.stat = k.stat
    BY <1>1, <1>9 DEF rt_thread_yield, EnterCritical, ExitCritical,
       rt_enter_critical, rt_exit_critical, KernelType
  <2> QED BY <2>1, ClosedKept
<1> QED BY <1>3, <1>4, <1>5, <1>6, <1>7, <1>8, <1>9, NoRacyStep DEF Invoke

\* The idle thread releases closed threads, the tick interrupt wakes only
\* suspended ones.
LEMMA SystemKeepsClosed ==
  ASSUME IInv, IdleReap \/ IdleFree \/ rt_tick_increase \/ TickIsr
  PROVE  KeepsClosed(k, k')
<1>1. Core(k, {}) /\ CurrentOK(k) /\ k \in KernelType
  BY DEF IInv, StateOK
<1>2. CASE IdleReap
  <2>1. PICK t \in Thread : \E w : Reaps(t, w)
    BY <1>2, ReapCore
  <2>2. PICK u : Reaps(t, u)
    BY <2>1
  <2> DEFINE v == rt_schedule(u)
  <2>3. Core(v, {}) /\ Moves(u, v) /\ u.stat = k.stat
    BY <2>2, ScheduleCore DEF Reaps
  <2>4. k' = v \/ k' = SetStat(v, t, "NONE")
    BY <2>2 DEF Reaps
  <2> HIDE DEF v
  <2>5. KeepsClosed(k, v) /\ v \in KernelType
    BY <2>3, ClosedKept DEF KeepsClosed, Core
  <2> QED BY <2>4, <2>5 DEF KeepsClosed, Released, SetStat, KernelType
<1>3. CASE IdleFree
  BY <1>1, <1>3 DEF IdleFree, KeepsClosed, Released, SetStat, KernelType
<1>4. CASE rt_tick_increase
  <2> DEFINE u == TickSlice(k)
  <2>1. k.current \in Thread
    BY <1>1 DEF KernelType
  <2>2. Core(u, {}) /\ CurrentOK(u) /\ KeepsBlocked(k, u)
    BY <1>1, <2>1, TickSliceCore DEF IInv, SliceOK
  <2>3. k' = TickTimers(u)
    BY <1>4 DEF rt_tick_increase
  <2> HIDE DEF u
  <2>4. k'.stat = u.stat
    BY <2>2, <2>3, TickTimersCore
  <2> QED BY <2>2, <2>4, ClosedKept DEF KeepsClosed
<1>5. ASSUME NEW t \in Thread, TimerFires(t) PROVE KeepsClosed(k, k')
  <2> DEFINE u == Wake(k, t)
  <2>1. k.timer[t] = 0 /\ k' = rt_thread_timeout(k, t)
    BY <1>5 DEF TimerFires, Expired
  <2>2. k.stat[t] = "SUSPEND"
    BY <1>1, <2>1 DEF Core, StatOK, Off
  <2>3. Core(u, {}) /\ CurrentOK(u) /\ Local(k, u, t) /\ k' = rt_schedule(u)
    BY <1>1, <2>1, <2>2, WakeCore
  <2> HIDE DEF u
  <2>4. KeepsClosed(k, u) /\ Moves(u, k')
    BY <2>2, <2>3, ClosedKept, ScheduleCore
  <2> QED BY <2>4 DEF Moves, KeepsClosed, Released
<1>6. CASE TickEnds
  BY <1>6, ClosedKept DEF TickEnds
<1> QED BY <1>2, <1>3, <1>4, <1>5, <1>6 DEF TickIsr

\* A thread that has exited is not made ready, suspended or run again before
\* its object is released, whatever timers, startups and priority changes come.
THEOREM ClosedIsClosed ==
  ASSUME RaceFree, NobodySuspends
  PROVE  Spec => ClosedStaysClosed
<1>1. Init => NotSuspending
  BY DEF Init, NotSuspending, Running, At
<1>2. IInv /\ NotSuspending /\ [Next]_vars => NotSuspending'
  BY NextNotSuspending DEF IInv
<1>3. ASSUME IInv, NotSuspending, [Next]_vars
      PROVE  [\A t \in Thread : k.stat[t] = "CLOSE" =>
                k'.stat[t] \in {"CLOSE", "NONE", "INIT"}]_vars
  <2>1. CASE Next
    BY <1>3, <2>1, ContinueKeepsClosed, InvokeKeepsClosed, SystemKeepsClosed
       DEF Next, KeepsClosed, Released
  <2> QED BY <1>3, <2>1
<1> QED BY <1>1, <1>2, <1>3, InductiveInvariant, PTL DEF Spec, ClosedStaysClosed
=============================================================================
