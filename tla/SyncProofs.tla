----------------------------- MODULE SyncProofs -----------------------------
(***************************************************************************)
(* Semaphore, mutex, completion and event set, for any number of threads,  *)
(* priorities and objects: no wakeup of the semaphore is lost, nobody is   *)
(* left behind when it is detached, and it implements the abstract         *)
(* semaphore of SemaphoreSpec; a mutex has one owner, to whom it has been  *)
(* given; a done is not used again; no event is missed by a waiter, and    *)
(* the events that a send takes out of the set are its receivers'.         *)
(***************************************************************************)
EXTENDS Semaphore, Mutex, Completion, Event, IpcProofs

\* The application never has more permits outstanding than sem->value holds.
NoWrap == MaxValue \in 0 .. 2^16 - 1

(***************************************************************************)
(* The inductive invariant, on top of what the IPC objects share.          *)
(***************************************************************************)
SemInv ==
  /\ ObjInv
  /\ value \in 0 .. 2^16 - 1
  /\ value > 0 => k.list[Sem] = << >>

-----------------------------------------------------------------------------
\* CallState is CallOf of every thread, before and after a step.
LEMMA CallStateIs ==
  /\ CallState = [t \in Thread |-> CallOf(Sem, k, pc, t)]
  /\ CallState' = [t \in Thread |-> CallOf(Sem, k', pc', t)]
<1>1. ASSUME NEW t \in Thread
      PROVE  (CASE t \in Waiting(Sem) -> "waiting"
                [] t \in Granted(Sem) -> "granted"
                [] t \in Failed(Sem)  -> "failed"
                [] OTHER -> "none") = CallOf(Sem, k, pc, t)
  BY DEF Waiting, Granted, Failed, Inside, CallOf, WaitLabels
<1>2. ASSUME NEW t \in Thread
      PROVE  (CASE t \in Waiting(Sem)' -> "waiting"
                [] t \in Granted(Sem)' -> "granted"
                [] t \in Failed(Sem)'  -> "failed"
                [] OTHER -> "none") = CallOf(Sem, k', pc', t)
  BY DEF Waiting, Granted, Failed, Inside, CallOf, WaitLabels
<1> QED BY <1>1, <1>2 DEF CallState

\* The threads in the suspend list are those with a waiting call.
LEMMA SemWaiters ==
  ASSUME SemInv
  PROVE  /\ \A t \in Members(k.list[Sem]) : t \in Thread /\ CallOf(Sem, k, pc, t) = "waiting"
         /\ \A t \in Thread : CallOf(Sem, k, pc, t) = "waiting" => t \in Members(k.list[Sem])
BY WaitersWait, SemaphoreAssumption DEF SemInv, ObjInv, IpcInv, IInv, WaitersOK

\* A step that changes the call of one thread, or of none.
LEMMA CallBecomes ==
  ASSUME NEW t \in Thread,
         \A x \in Thread \ {t} : CallOf(Sem, k', pc', x) = CallOf(Sem, k, pc, x)
  PROVE  /\ CallState[t] = CallOf(Sem, k, pc, t)
         /\ CallState' = [CallState EXCEPT ![t] = CallOf(Sem, k', pc', t)]
BY CallStateIs

\* A step that changes no call.
LEMMA CallStutters ==
  ASSUME SameCalls(Sem)
  PROVE  CallState' = CallState
BY CallStateIs DEF SameCalls

\* A waiting call fails.
LEMMA FailIs ==
  ASSUME OneCall(Sem, {"waiting"}, "failed"), UNCHANGED value
  PROVE  \E t \in Thread : Abstract!Fail(t)
BY CallBecomes DEF OneCall, Abstract!Fail

\* A call that has been decided returns.
LEMMA FinishIs ==
  ASSUME OneCall(Sem, {"granted", "failed"}, "none"), UNCHANGED value
  PROVE  \E t \in Thread : Abstract!Finish(t)
BY CallBecomes DEF OneCall, Abstract!Finish

\* A step that leaves the count alone and lets nobody join the list.
LEMMA ShrinkSemInv ==
  ASSUME SemInv, ObjInv', UNCHANGED value,
         Members(k'.list[Sem]) \subseteq Members(k.list[Sem])
  PROVE  SemInv'
<1>1. Core(k, {}) /\ Core(k', {}) /\ Sem \in Queue
  BY SemaphoreAssumption DEF SemInv, ObjInv, IpcInv, IInv
<1>2. k.list[Sem] = << >> => k'.list[Sem] = << >>
  BY <1>1, StaysEmpty
<1> QED BY <1>2 DEF SemInv

-----------------------------------------------------------------------------
(***************************************************************************)
(* Every step keeps the invariant and is a step of the abstract semaphore, *)
(* or leaves its state as it is.                                           *)
(***************************************************************************)
\* The scheduler, the thread API and the tick interrupt: at most one waiting
\* call times out.
LEMMA KernelStep ==
  ASSUME Polite, SemInv, Next, UNCHANGED <<value, obj>>
  PROVE  SemInv' /\ (CallState' = CallState \/ \E t \in Thread : Abstract!Fail(t))
<1>1. ObjInv /\ ObjInv' /\ Sem \in Queue
  BY NextObjInv, SemaphoreAssumption DEF SemInv
<1>2. SameCalls(Sem) \/ OneCall(Sem, {"waiting"}, "failed")
  BY <1>1, NextCalls
<1>3. SemInv'
  BY <1>1, <1>2, EasedCalls, ShrinkSemInv DEF Eases
<1> QED BY <1>2, <1>3, CallStutters, FailIs

\* The later steps of rt_sem_take and rt_sem_detach: a call returns, or one
\* waiter fails.
LEMMA ContinueStep ==
  ASSUME SemInv, NEW c \in Thread, IpcContinue(c), UNCHANGED value
  PROVE  /\ SemInv'
         /\ \/ CallState' = CallState
            \/ \E t \in Thread : Abstract!Fail(t) \/ Abstract!Finish(t)
<1>1. ObjInv /\ ObjInv' /\ Sem \in Queue /\ Eases(Sem)
  BY ContinueEases, SemaphoreAssumption DEF SemInv
<1>2. SemInv'
  BY <1>1, EasedCalls, ShrinkSemInv
<1> QED BY <1>1, <1>2, CallStutters, FailIs, FinishIs DEF Eases

\* rt_sem_take takes a permit, fails at once, or waits while there is none.
LEMMA TakeStep ==
  ASSUME Polite, SemInv, NEW c \in Thread, NEW time \in WaitTime, rt_sem_take(c, time)
  PROVE  SemInv' /\ (\/ UNCHANGED <<value, CallState>> \/ Abstract!Take
                     \/ \E t \in Thread : Abstract!Wait(t))
<1>1. /\ Asks(c, "take", Sem) /\ Sem \in Queue /\ time \in Nat \cup {-1}
      /\ UNCHANGED <<isr, obj>> /\ ObjInv /\ value \in Nat /\ IpcInv
  <2>1. value \in 0 .. 2^16 - 1
    BY DEF SemInv
  <2>2. value \in Nat
    BY <2>1
  <2> QED BY <2>2, SemaphoreAssumption, IpcAssumption DEF rt_sem_take, SemInv, ObjInv
<1>2. pc[c].at \in Label /\ k.stat[c] = "RUNNING" /\ Core(k, {}) /\ CurrentOK(k)
  BY <1>1, AsksFacts DEF IpcInv, IInv
<1>3. CASE value > 0
  <2>1. value' = value - 1 /\ UNCHANGED <<k, pc>>
    BY <1>3 DEF rt_sem_take
  <2>2. ObjInv'
    BY <1>1, <2>1, UnchangedObjInv DEF ipcVars
  <2>3. SemInv'
    BY <1>3, <2>1, <2>2 DEF SemInv
  <2>4. CallState' = CallState
    BY <2>1, CallStateIs
  <2>5. Abstract!Take
    BY <1>3, <2>1, <2>4 DEF Abstract!Take
  <2> QED BY <2>3, <2>5
<1>4. CASE ~ (value > 0) /\ time = 0
  <2>1. UNCHANGED <<value, k, pc>>
    BY <1>4 DEF rt_sem_take
  <2>2. ObjInv'
    BY <1>1, <2>1, UnchangedObjInv DEF ipcVars
  <2>3. SemInv'
    BY <2>1, <2>2, ShrinkSemInv
  <2>4. CallState' = CallState
    BY <2>1, CallStateIs
  <2> QED BY <2>1, <2>3, <2>4
<1>5. CASE ~ (value > 0) /\ time # 0
  <2>1. /\ value' = value /\ k' = Block(k, Sem, c, time)
        /\ pc' = [pc EXCEPT ![c] = At("ipc_sched", Sem)]
    BY <1>5 DEF rt_sem_take, Goto
  <2>2. Core(k', {}) /\ CurrentOK(k') /\ Blocks(k, k', Sem, c)
    BY <1>1, <1>2, <2>1, BlockCore
  <2>3. ObjInv'
    BY <1>1, <2>1, <2>2, BlockObjInv
  <2>4. value = 0
    BY <1>1, <1>5
  <2>5. SemInv'
    BY <2>1, <2>3, <2>4 DEF SemInv
  <2>6. OneCall(Sem, {"none"}, "waiting")
    BY <1>1, <1>2, <2>1, <2>2, BlockCalls
  <2>7. \E t \in Thread : Abstract!Wait(t)
    BY <2>1, <2>4, <2>6, CallBecomes DEF OneCall, Abstract!Wait
  <2> QED BY <2>5, <2>7
<1> QED BY <1>3, <1>4, <1>5

\* The critical section of rt_sem_release with a waiter: the first one is made
\* ready without an error.
LEMMA PutWakes ==
  ASSUME SemInv, k.list[Sem] # << >>
  PROVE  LET u == SemPut.k
             t == Head(k.list[Sem])
         IN  /\ SemPut.wakes /\ SemPut.value = value
             /\ Core(u, {}) /\ CurrentOK(u) /\ Resumed(k, u, {t})
             /\ t \in Members(k.list[Sem]) /\ t \in Thread
             /\ u.err[t] = "EOK" /\ t \notin Members(u.list[Sem])
<1> DEFINE u == rt_ipc_list_resume(k, Sem)
           t == Head(k.list[Sem])
<1>1. SemPut.k = u /\ SemPut.wakes /\ SemPut.value = value
  BY DEF SemPut
<1>2. Core(k, {}) /\ CurrentOK(k) /\ Sem \in Queue /\ Clean(k)
  BY SemaphoreAssumption DEF SemInv, ObjInv, IpcInv, IInv, WaitersOK
<1>3. t \in Members(k.list[Sem]) /\ t \in Thread /\ k.stat[t] = "SUSPEND"
  BY <1>2, HeadIs
<1>4. u = rt_thread_resume(k, t)
  BY DEF rt_ipc_list_resume
<1> HIDE DEF u, t
<1>5. Core(u, {}) /\ CurrentOK(u) /\ Resumed(k, u, {t}) /\ u.err = k.err
  BY <1>2, <1>3, <1>4, ResumeCore
<1>6. u.err[t] = "EOK"
  BY <1>2, <1>3, <1>5 DEF Clean
<1>7. t \notin Members(u.list[Sem])
  <2>1. u.stat[t] # "SUSPEND"
    BY <1>5 DEF Resumed, Runnable
  <2> QED BY <1>2, <1>5, <2>1, NotSuspended
<1> QED BY <1>1, <1>3, <1>5, <1>6, <1>7 DEF u, t

\* Without one, the count is incremented.
LEMMA PutCounts ==
  ASSUME SemInv, k.list[Sem] = << >>
  PROVE  /\ ~ SemPut.wakes /\ SemPut.k = k /\ SemPut.value \in 0 .. 2^16 - 1
         /\ NoWrap /\ value < MaxValue => SemPut.value = value + 1
<1>1. ~ SemPut.wakes /\ SemPut.k = k /\ SemPut.value = (value + 1) % 2^16
  BY DEF SemPut
<1>2. value \in 0 .. 2^16 - 1
  BY DEF SemInv
<1> QED BY <1>1, <1>2 DEF NoWrap

\* A release that wakes the first waiter grants its call.
LEMMA GrantIs ==
  ASSUME SemInv, k.list[Sem] # << >>, Steady(SemPut.k, k', {}), UNCHANGED value,
         NEW l \in Label, NEW a, NEW c \in Thread, pc[c].at \in Label,
         UNCHANGED pc \/ pc' = [pc EXCEPT ![c] = At(l, a)]
  PROVE  \E t \in Thread : Abstract!Grant(t)
<1> DEFINE u == SemPut.k
           t == Head(k.list[Sem])
<1>1. /\ Resumed(k, u, {t}) /\ t \in Members(k.list[Sem]) /\ t \in Thread
      /\ u.err[t] = "EOK" /\ t \notin Members(u.list[Sem])
  BY PutWakes
<1> HIDE DEF u, t
<1>2. Linked(k, pc) /\ Sem \in Queue
  BY SemaphoreAssumption DEF SemInv, ObjInv, IpcInv, WaitersOK
<1>3. /\ \A x \in Thread \ {c} : pc'[x] = pc[x]
      /\ CallOf(Sem, k, pc, c) = "none" /\ CallOf(Sem, k', pc', c) = "none"
  BY CallerMoves DEF SemInv
<1>4. pc[t].at \in WaitLabels /\ pc[t].arg = Sem /\ t # c
  BY <1>1, <1>2, LabelsApart DEF Linked
<1>5. \A x \in Thread :
        k'.err[x] = u.err[x] /\ (x \in Members(k'.list[Sem]) <=> x \in Members(u.list[Sem]))
  BY <1>2 DEF Steady, u
<1>6. ASSUME NEW x \in Thread \ {t} PROVE CallOf(Sem, k', pc', x) = CallOf(Sem, k, pc, x)
  <2>1. k'.err[x] = k.err[x] /\ (x \in Members(k'.list[Sem]) <=> x \in Members(k.list[Sem]))
    BY <1>1, <1>2, <1>5 DEF Resumed, Stands
  <2>2. CASE x # c
    BY <1>3, <2>1, <2>2, SameCall
  <2> QED BY <1>3, <2>2
<1>7. CallOf(Sem, k, pc, t) = "waiting"
  BY <1>1, <1>4 DEF CallOf
<1>8. CallOf(Sem, k', pc', t) = "granted"
  BY <1>1, <1>3, <1>4, <1>5 DEF CallOf
<1>9. Abstract!Grant(t)
  BY <1>1, <1>6, <1>7, <1>8, CallBecomes DEF Abstract!Grant
<1> QED BY <1>1, <1>9

\* A release that finds nobody adds to the count.
LEMMA PutIs ==
  ASSUME SemInv, k.list[Sem] = << >>, UNCHANGED <<k, pc>>, value' = value + 1
  PROVE  Abstract!Put
<1>1. CallState' = CallState
  BY CallStateIs
<1>2. Members(k.list[Sem]) = {}
  BY DEF Members
<1>3. \A t \in Thread : CallState[t] # "waiting"
  BY <1>2, SemWaiters, CallStateIs
<1> QED BY <1>1, <1>3 DEF Abstract!Put, Abstract!Pending

\* rt_sem_release in a thread.
LEMMA ReleaseStep ==
  ASSUME Polite, SemInv, NEW c \in Thread, rt_sem_release(c)
  PROVE  /\ SemInv'
         /\ NoWrap => Abstract!Put \/ \E t \in Thread : Abstract!Grant(t)
<1>1. /\ Asks(c, "release", Sem) /\ Sem \in Queue /\ value < MaxValue
      /\ k' = SemPut.k /\ value' = SemPut.value /\ UNCHANGED <<isr, obj>>
      /\ ObjInv /\ IpcInv
  BY SemaphoreAssumption DEF rt_sem_release, SemInv, ObjInv
<1>2. /\ c = k.current /\ k.stat[c] = "RUNNING" /\ c # Idle /\ pc[c].at \in Label
  BY <1>1, AsksFacts
<1>3. "sched" \in Label
  BY DEF Label
<1>4. CASE k.list[Sem] # << >>
  <2> DEFINE t == Head(k.list[Sem])
  <2>1. /\ SemPut.wakes /\ value' = value /\ Core(k', {}) /\ CurrentOK(k')
        /\ Resumed(k, k', {t}) /\ t \in Members(k.list[Sem])
    BY <1>1, <1>4, PutWakes
  <2>2. pc' = [pc EXCEPT ![c] = At("sched", c)]
    BY <2>1 DEF rt_sem_release, Goto
  <2>3. {t} \in SUBSET Members(k.list[Sem])
    BY <2>1
  <2> HIDE DEF t
  <2>4. ObjInv'
    BY <1>1, <2>1, <2>2, <2>3, ResumedObjInv
  <2>5. SemInv'
    BY <1>1, <2>1, <2>4, ShrinkSemInv DEF Resumed
  <2>6. Steady(SemPut.k, k', {})
    BY <1>1 DEF Steady
  <2>7. \E x \in Thread : Abstract!Grant(x)
    BY <1>2, <1>3, <1>4, <2>1, <2>2, <2>6, GrantIs
  <2> QED BY <2>5, <2>7
<1>5. CASE k.list[Sem] = << >>
  <2>1. /\ ~ SemPut.wakes /\ k' = k /\ value' \in 0 .. 2^16 - 1
        /\ NoWrap => value' = value + 1
    BY <1>1, <1>5, PutCounts
  <2>2. pc' = pc
    BY <2>1 DEF rt_sem_release
  <2>3. ObjInv'
    BY <1>1, <2>1, <2>2, UnchangedObjInv DEF ipcVars
  <2>4. SemInv'
    BY <1>5, <2>1, <2>3 DEF SemInv
  <2>5. NoWrap => Abstract!Put
    BY <1>5, <2>1, <2>2, PutIs
  <2> QED BY <2>4, <2>5
<1> QED BY <1>4, <1>5

\* rt_sem_release in an interrupt handler.
LEMMA IsrReleaseStep ==
  ASSUME SemInv, IsrRelease
  PROVE  /\ SemInv'
         /\ NoWrap => Abstract!Put \/ \E t \in Thread : Abstract!Grant(t)
<1>1. /\ isr = "none" /\ Sem \in Queue /\ value < MaxValue
      /\ k' = (IF SemPut.wakes THEN rt_schedule(SemPut.k) ELSE k)
      /\ value' = SemPut.value /\ UNCHANGED <<isr, obj, pc>>
      /\ ObjInv /\ IpcInv
  BY SemaphoreAssumption DEF IsrRelease, SemInv, ObjInv
<1>2. CASE k.list[Sem] # << >>
  <2> DEFINE t == Head(k.list[Sem])
             u == SemPut.k
  <2>1. /\ SemPut.wakes /\ value' = value /\ Core(u, {}) /\ CurrentOK(u)
        /\ Resumed(k, u, {t}) /\ t \in Members(k.list[Sem])
    BY <1>1, <1>2, PutWakes
  <2>2. {t} \in SUBSET Members(k.list[Sem])
    BY <2>1
  <2>3. k' = rt_schedule(u)
    BY <1>1, <2>1
  <2> HIDE DEF t, u
  <2>4. IpcInv' /\ Steady(u, k', {})
    BY <1>1, <2>1, <2>2, <2>3, IsrIpcInv
  <2>5. \A q \in Queue : Members(k'.list[q]) \subseteq Members(k.list[q])
    BY <2>1, <2>4 DEF Resumed, Steady
  <2>6. Attached'
    BY <1>1 DEF ObjInv, Attached
  <2>7. SemInv'
    BY <1>1, <2>1, <2>4, <2>5, <2>6, ShrinkObjInv, ShrinkSemInv
  <2>8. \E c \in Thread : pc[c].at \in Label
    <3>1. Idle \in Thread /\ Labels
      BY <1>1, ThreadAssumption DEF IpcInv, IInv
    <3> QED BY <3>1 DEF Labels, LabelOK, Label
  <2>9. \E x \in Thread : Abstract!Grant(x)
    <3>1. "run" \in Label
      BY DEF Label
    <3> QED BY <1>1, <1>2, <2>1, <2>4, <2>8, <3>1, GrantIs DEF u
  <2> QED BY <2>7, <2>9
<1>3. CASE k.list[Sem] = << >>
  <2>1. /\ ~ SemPut.wakes /\ value' \in 0 .. 2^16 - 1
        /\ NoWrap => value' = value + 1
    BY <1>1, <1>3, PutCounts
  <2>2. k' = k
    BY <1>1, <2>1
  <2>3. ObjInv'
    BY <1>1, <2>2, UnchangedObjInv DEF ipcVars
  <2>4. SemInv'
    BY <1>3, <2>1, <2>2, <2>3 DEF SemInv
  <2>5. NoWrap => Abstract!Put
    BY <1>1, <1>3, <2>1, <2>2, PutIs
  <2> QED BY <2>4, <2>5
<1> QED BY <1>2, <1>3

\* rt_sem_control: every waiting call fails, and the count is set.
LEMMA ResetStep ==
  ASSUME Polite, SemInv, NEW c \in Thread, NEW n \in InitValue, rt_sem_control(c, n)
  PROVE  SemInv' /\ Abstract!Reset
<1> DEFINE X == Members(k.list[Sem])
<1>1. /\ Asks(c, "reset", Sem) /\ Sem \in Queue /\ n \in 0 .. 2^16 - 1
      /\ k' = rt_ipc_list_resume_all(k, Sem) /\ value' = n % 2^16
      /\ pc' = [pc EXCEPT ![c] = At("sched", c)] /\ UNCHANGED <<isr, obj>>
      /\ ObjInv /\ IpcInv /\ Core(k, {}) /\ CurrentOK(k)
  BY SemaphoreAssumption DEF rt_sem_control, Goto, SemInv, ObjInv, IpcInv, IInv
<1>2. pc[c].at \in Label /\ "sched" \in Label
  BY <1>1, AsksFacts DEF Label
<1>3. /\ Core(k', {}) /\ CurrentOK(k') /\ Resumed(k, k', X)
      /\ \A x \in X : k'.err[x] = "ERROR"
      /\ k'.list[Sem] = << >>
  BY <1>1, ResumeAllCore
<1>4. X \in SUBSET Members(k.list[Sem])
  OBVIOUS
<1>5. /\ \A x \in X : x \in Thread /\ CallOf(Sem, k, pc, x) = "waiting"
      /\ \A x \in Thread : CallOf(Sem, k, pc, x) = "waiting" => x \in X
  BY SemWaiters
<1> HIDE DEF X
<1>6. ObjInv'
  BY <1>1, <1>3, <1>4, ResumedObjInv
<1>7. value' \in 0 .. 2^16 - 1 /\ value' \in Nat
  BY <1>1
<1>8. SemInv'
  BY <1>3, <1>6, <1>7 DEF SemInv
<1>9. /\ \A x \in Thread \ {c} : pc'[x] = pc[x]
      /\ CallOf(Sem, k, pc, c) = "none" /\ CallOf(Sem, k', pc', c) = "none"
  BY <1>1, <1>2, CallerMoves
<1>10. ASSUME NEW x \in Thread
       PROVE  CallOf(Sem, k', pc', x) = IF x \in X THEN "failed" ELSE CallOf(Sem, k, pc, x)
  <2>1. CASE x \in X
    <3>1. (\A y \in X : pc'[y] = pc[y]) /\ ObjInv /\ Sem \in Queue
      BY <1>1, <1>5, <1>9
    <3>2. CallOf(Sem, k', pc', x) = IF k'.err[x] = "EOK" THEN "granted" ELSE "failed"
      BY <1>3, <1>4, <2>1, <3>1, ResumedCalls
    <3> QED BY <1>3, <2>1, <3>2
  <2>2. CASE x \notin X
    <3>1. k'.err[x] = k.err[x] /\ (x \in Members(k'.list[Sem]) <=> x \in Members(k.list[Sem]))
      BY <1>1, <1>3, <2>2 DEF Resumed, Stands
    <3>2. CASE x # c
      BY <1>9, <2>2, <3>1, <3>2, SameCall
    <3> QED BY <1>9, <2>2, <3>2
  <2> QED BY <2>1, <2>2
<1>11. Abstract!Pending = X
  BY <1>5, CallStateIs DEF Abstract!Pending
<1>12. CallState' = [x \in Thread |-> IF x \in X THEN "failed" ELSE CallState[x]]
  BY <1>10, CallStateIs
<1> QED BY <1>7, <1>8, <1>11, <1>12 DEF Abstract!Reset

\* rt_sem_init, when all calls on the detached semaphore have returned.
LEMMA InitializeStep ==
  ASSUME SemInv, NEW c \in Thread, NEW n \in InitValue, rt_sem_init(c, n)
  PROVE  SemInv' /\ Abstract!Reset
<1>1. /\ Initialize(c, Sem) /\ value' = n /\ Sem \in Queue /\ n \in 0 .. 2^16 - 1
      /\ obj[Sem] = "none" /\ UNCHANGED <<k, pc>> /\ ObjInv
  BY SemaphoreAssumption DEF rt_sem_init, Initialize, SemInv
<1>2. ObjInv' /\ k.list[Sem] = << >>
  BY <1>1, InitializeObjInv DEF ObjInv, NobodyLeftBehind
<1>3. value' \in Nat
  BY <1>1
<1>4. SemInv'
  BY <1>1, <1>2 DEF SemInv
<1>5. Members(k.list[Sem]) = {}
  BY <1>2 DEF Members
<1>6. Abstract!Pending = {}
  BY <1>5, SemWaiters, CallStateIs DEF Abstract!Pending
<1>7. CallState' = [x \in Thread |-> CallState[x]]
  BY <1>1, CallStateIs
<1> QED BY <1>3, <1>4, <1>6, <1>7 DEF Abstract!Reset

\* rt_sem_detach begins.
LEMMA DetachStep ==
  ASSUME Polite, SemInv, NEW c \in Thread, rt_sem_detach(c)
  PROVE  SemInv' /\ CallState' = CallState /\ UNCHANGED value
<1>1. /\ Detach(c, Sem) /\ value' = value /\ k' = k /\ Sem \in Queue /\ ObjInv
  BY SemaphoreAssumption DEF rt_sem_detach, Detach, SemInv
<1>2. ObjInv' /\ SameCalls(Sem)
  BY <1>1, DetachObjInv, DetachCalls
<1> QED BY <1>1, <1>2, ShrinkSemInv, CallStutters

-----------------------------------------------------------------------------
(***************************************************************************)
(* The steps together: what a step that neither releases nor sets the      *)
(* count does, and what any step does.                                     *)
(***************************************************************************)
Consumes ==
  \/ UNCHANGED <<value, CallState>> \/ Abstract!Take
  \/ \E t \in Thread : Abstract!Wait(t) \/ Abstract!Fail(t) \/ Abstract!Finish(t)

\* A release hands over or adds one permit.
LEMMA ReleasesStep ==
  ASSUME Polite, SemInv, Releases
  PROVE  SemInv' /\ (NoWrap => Abstract!Put \/ \E t \in Thread : Abstract!Grant(t))
BY ReleaseStep, IsrReleaseStep DEF Releases

\* A reset or an initialization fails every waiting call.
LEMMA SetsStep ==
  ASSUME Polite, SemInv, Sets
  PROVE  SemInv' /\ Abstract!Reset
BY ResetStep, InitializeStep DEF Sets

\* All other steps.
LEMMA OtherStep ==
  ASSUME Polite, SemInv, [SemNext]_semVars, ~ Releases, ~ Sets
  PROVE  SemInv' /\ Consumes
<1>1. CASE UNCHANGED semVars
  <2>1. UNCHANGED <<k, pc, value>> /\ UNCHANGED ipcVars
    BY <1>1 DEF semVars, ipcVars
  <2>2. ObjInv'
    BY <2>1, UnchangedObjInv DEF SemInv
  <2>3. SemInv'
    BY <2>1, <2>2, ShrinkSemInv
  <2>4. CallState' = CallState
    BY <2>1, CallStateIs
  <2> QED BY <2>1, <2>3, <2>4 DEF Consumes
<1>2. CASE Next /\ UNCHANGED <<value, obj>>
  <2>1. SemInv' /\ (CallState' = CallState \/ \E t \in Thread : Abstract!Fail(t))
    BY <1>2, KernelStep
  <2> QED BY <1>2, <2>1 DEF Consumes
<1>3. ASSUME NEW c \in Thread, IpcContinue(c), UNCHANGED value
      PROVE  SemInv' /\ Consumes
  BY <1>3, ContinueStep DEF Consumes
<1>4. ASSUME NEW c \in Thread, SemInvoke(c) PROVE SemInv' /\ Consumes
  <2>1. ASSUME NEW time \in WaitTime, rt_sem_take(c, time) PROVE SemInv' /\ Consumes
    BY <2>1, TakeStep DEF Consumes
  <2>2. CASE rt_sem_detach(c)
    BY <2>2, DetachStep DEF Consumes
  <2> QED BY <1>4, <2>1, <2>2 DEF SemInvoke, Releases, Sets
<1> QED BY <1>1, <1>2, <1>3, <1>4 DEF SemNext, Releases

\* The invariant is inductive.
LEMMA SemInvIsInductive ==
  ASSUME Polite
  PROVE  SemInv /\ [SemNext]_semVars => SemInv'
BY ReleasesStep, SetsStep, OtherStep

\* It holds at first.
LEMMA SemInitInv ==
  ASSUME IsFiniteSet(Thread)
  PROVE  SemInit => SemInv
<1> SUFFICES ASSUME SemInit PROVE SemInv
  OBVIOUS
<1>1. ObjInv /\ \A q \in Queue : k.list[q] = << >>
  BY InitObjInv DEF SemInit
<1> QED BY <1>1, SemaphoreAssumption DEF SemInv, SemInit

-----------------------------------------------------------------------------
(***************************************************************************)
(* The theorems.  Thread is finite since every thread has a control block; *)
(* NoWrap is needed where the number of permits matters, not for the       *)
(* others: a count that wraps to zero loses permits, and wakes nobody too  *)
(* many.                                                                   *)
(***************************************************************************)
\* No wakeup is lost between a take that blocks, the releases of threads and
\* interrupt handlers, timeouts, resets and detaching: a thread waits only
\* while the count is zero, and whoever is in the list is inside the call.
THEOREM NoWakeupIsLost ==
  ASSUME Polite, IsFiniteSet(Thread)
  PROVE  SemSpec => []NoLostWakeup
<1>1. SemInv => NoLostWakeup
  <2> SUFFICES ASSUME SemInv PROVE NoLostWakeup
    OBVIOUS
  <2>1. \A t \in Members(k.list[Sem]) : t \in Thread /\ CallOf(Sem, k, pc, t) = "waiting"
    BY SemWaiters
  <2>2. Members(k.list[Sem]) \subseteq Inside(Sem)
    BY <2>1 DEF CallOf, Inside, WaitLabels
  <2> QED BY <2>2 DEF SemInv, NoLostWakeup
<1> QED BY <1>1, SemInitInv, SemInvIsInductive, PTL DEF SemSpec

\* rt_ipc_list_resume_all, which detaches with interrupts enabled between one
\* waiter and the next, leaves nobody in the list of an object that is gone.
THEOREM NobodyIsLeftBehind ==
  ASSUME Polite, IsFiniteSet(Thread)
  PROVE  SemSpec => []NobodyLeftBehind
<1>1. SemInv => NobodyLeftBehind
  BY DEF SemInv, ObjInv
<1> QED BY <1>1, SemInitInv, SemInvIsInductive, PTL DEF SemSpec

\* The semaphore implements SemaphoreSpec: every step of the code, those of
\* the scheduler and the tick interrupt included, takes, grants, fails, ends or
\* resets calls as the abstract semaphore does, or is invisible to it.
THEOREM SemaphoreIsImplemented ==
  ASSUME Polite, IsFiniteSet(Thread), NoWrap
  PROVE  SemSpec => ImplementsSemaphore
<1>1. SemInit => Abstract!SInit
  <2> SUFFICES ASSUME SemInit PROVE Abstract!SInit
    OBVIOUS
  <2>1. value \in 0 .. 2^16 - 1
    BY SemaphoreAssumption DEF SemInit
  <2>2. value \in Nat
    BY <2>1
  <2>3. \A t \in Thread : pc[t].at \notin WaitLabels
    BY DEF SemInit, InitStarted, Running, At, WaitLabels
  <2>4. \A t \in Thread : CallOf(Sem, k, pc, t) = "none"
    BY <2>3, NoCall
  <2> QED BY <2>2, <2>4, CallStateIs DEF Abstract!SInit
<1>2. SemInv /\ [SemNext]_semVars => [Abstract!SNext]_Abstract!sVars
  <2> SUFFICES ASSUME SemInv, [SemNext]_semVars
               PROVE  [Abstract!SNext]_Abstract!sVars
    OBVIOUS
  <2>1. CASE Releases
    BY <2>1, ReleasesStep DEF Abstract!SNext
  <2>2. CASE Sets
    BY <2>2, SetsStep DEF Abstract!SNext
  <2>3. CASE ~ Releases /\ ~ Sets
    <3>1. Consumes
      BY <2>3, OtherStep
    <3> QED BY <3>1 DEF Consumes, Abstract!SNext, Abstract!sVars
  <2> QED BY <2>1, <2>2, <2>3
<1> QED BY <1>1, <1>2, SemInitInv, SemInvIsInductive, PTL
        DEF SemSpec, ImplementsSemaphore, Abstract!SSpec

\* The callers that hold a permit they have not returned with yet.
LEMMA GrantedIs ==
  /\ Granted(Sem) = {t \in Thread : CallState[t] = "granted"}
  /\ Granted(Sem)' = {t \in Thread : CallState'[t] = "granted"}
<1>1. Granted(Sem) = {t \in Thread : CallOf(Sem, k, pc, t) = "granted"}
  BY DEF Granted, Waiting, Inside, CallOf, WaitLabels
<1>2. Granted(Sem)' = {t \in Thread : CallOf(Sem, k', pc', t) = "granted"}
  BY DEF Granted, Waiting, Inside, CallOf, WaitLabels
<1> QED BY <1>1, <1>2, CallStateIs

\* One step changes the number of granted calls by at most one.
LEMMA WorthChanges ==
  ASSUME IsFiniteSet(Thread), SemInv
  PROVE  /\ Worth \in Nat
         /\ Abstract!Put => Worth' = Worth + 1
         /\ (\E t \in Thread : Abstract!Grant(t)) => Worth' = Worth + 1
         /\ Consumes => ~ (Worth' > Worth)
<1> DEFINE G == Granted(Sem)
           H == Granted(Sem)'
<1>1. Worth = value + Cardinality(G) /\ Worth' = value' + Cardinality(H)
  BY DEF Worth
<1>2. /\ G = {t \in Thread : CallState[t] = "granted"}
      /\ H = {t \in Thread : CallState'[t] = "granted"}
  BY GrantedIs
<1>3. CallState = [t \in Thread |-> CallState[t]]
  BY CallStateIs
<1>4. IsFiniteSet(G) /\ Cardinality(G) \in Nat
  BY <1>2, FS_Subset, FS_CardinalityType
<1>5. value \in Nat
  <2>1. value \in 0 .. 2^16 - 1
    BY DEF SemInv
  <2> QED BY <2>1
<1> HIDE DEF G, H
<1>6. ASSUME CallState' = CallState PROVE H = G
  BY <1>2, <1>6
<1>7. ASSUME Abstract!Put PROVE Worth' = Worth + 1
  BY <1>1, <1>4, <1>5, <1>6, <1>7 DEF Abstract!Put
<1>8. ASSUME NEW t \in Thread, Abstract!Grant(t) PROVE Worth' = Worth + 1
  <2>1. /\ CallState[t] = "waiting" /\ value' = value
        /\ CallState' = [CallState EXCEPT ![t] = "granted"]
    BY <1>8 DEF Abstract!Grant
  <2>2. H = G \cup {t} /\ t \notin G
    BY <1>2, <1>3, <2>1
  <2>3. Cardinality(H) = Cardinality(G) + 1
    BY <1>4, <2>2, FS_AddElement
  <2> QED BY <1>1, <1>4, <1>5, <2>1, <2>3
<1>9. ASSUME NEW t \in Thread, Abstract!Wait(t) \/ Abstract!Fail(t) \/ Abstract!Finish(t)
      PROVE  ~ (Worth' > Worth)
  <2>1. /\ value' = value
        /\ \E s \in {"waiting", "failed", "none"} :
             CallState' = [CallState EXCEPT ![t] = s]
    BY <1>9 DEF Abstract!Wait, Abstract!Fail, Abstract!Finish
  <2>2. H = G \ {t}
    BY <1>2, <1>3, <2>1
  <2>3. Cardinality(H) \in {Cardinality(G), Cardinality(G) - 1}
    BY <1>4, <2>2, FS_RemoveElement
  <2> QED BY <1>1, <1>4, <1>5, <2>1, <2>3
<1>10. ASSUME Abstract!Take PROVE ~ (Worth' > Worth)
  BY <1>1, <1>4, <1>5, <1>6, <1>10 DEF Abstract!Take
<1>11. ASSUME UNCHANGED <<value, CallState>> PROVE ~ (Worth' > Worth)
  BY <1>1, <1>4, <1>5, <1>6, <1>11
<1> QED BY <1>1, <1>4, <1>5, <1>7, <1>8, <1>9, <1>10, <1>11 DEF Consumes

\* Permits come from releases only, and a release is worth exactly one,
\* whatever times out, is reset or detached, or returns at the same time.
THEOREM PermitsComeFromReleases ==
  ASSUME Polite, IsFiniteSet(Thread), NoWrap
  PROVE  SemSpec => PermitsAreReleased
<1>1. SemInv /\ [SemNext]_semVars =>
        [/\ Releases => Worth' = Worth + 1
         /\ Worth' > Worth => Releases \/ Sets]_semVars
  <2> SUFFICES ASSUME SemInv, [SemNext]_semVars
               PROVE  /\ Releases => Worth' = Worth + 1
                      /\ Worth' > Worth => Releases \/ Sets
    OBVIOUS
  <2>1. ASSUME Releases PROVE Worth' = Worth + 1
    BY <2>1, ReleasesStep, WorthChanges
  <2>2. ASSUME ~ Releases, ~ Sets PROVE ~ (Worth' > Worth)
    BY <2>2, OtherStep, WorthChanges
  <2> QED BY <2>1, <2>2
<1> QED BY <1>1, SemInitInv, SemInvIsInductive, PTL DEF SemSpec, PermitsAreReleased

-----------------------------------------------------------------------------
(***************************************************************************)
(* The mutex.  The inductive invariant says of a live mutex in which       *)
(* state its callers are: only the owner's rt_mutex_take can have been     *)
(* granted, the owner does not wait, and nobody waits for a free mutex.    *)
(***************************************************************************)
Alone(q, kk, p, o) ==
  /\ \A t \in Thread : CallOf(q, kk, p, t) = "granted" => t = o
  /\ o \notin Members(kk.list[q])
  /\ o = Nobody => kk.list[q] = << >>

Taken == [value : {0}, owner : Thread, orig : Prio, hold : 1 .. 255]

MtxInv ==
  /\ ObjInv
  /\ mtx \in [Mtx -> {Free} \cup Taken]
  /\ \A m \in Mtx : obj[m] = "live" => Alone(m, k, pc, mtx[m].owner)

\* A step that neither begins nor grants a call on m keeps its owner alone.
LEMMA EasedAlone ==
  ASSUME ObjInv, ObjInv', NEW m \in Queue, Eases(m), NEW o, Alone(m, k, pc, o)
  PROVE  Alone(m, k', pc', o)
<1>1. /\ Members(k'.list[m]) \subseteq Members(k.list[m])
      /\ \A t \in Thread : CallOf(m, k', pc', t) = "granted" =>
                           CallOf(m, k, pc, t) = "granted"
  BY EasedCalls
<1>2. k.list[m] = << >> => k'.list[m] = << >>
  BY <1>1, StaysEmpty DEF ObjInv, IpcInv, IInv
<1> QED BY <1>1, <1>2 DEF Alone

\* The scheduler, the thread API, the tick interrupt and the later steps of
\* calls change no owner.
LEMMA MtxEases ==
  ASSUME MtxInv, ObjInv', mtx' \in [Mtx -> {Free} \cup Taken],
         \A m \in Mtx : obj'[m] = "live" =>
           obj[m] = "live" /\ Eases(m) /\ mtx'[m].owner = mtx[m].owner
  PROVE  MtxInv'
<1>1. ASSUME NEW m \in Mtx, obj'[m] = "live" PROVE Alone(m, k', pc', mtx'[m].owner)
  <2>1. m \in Queue /\ ObjInv /\ Alone(m, k, pc, mtx[m].owner)
    BY <1>1, MutexAssumption DEF MtxInv
  <2> QED BY <1>1, <2>1, EasedAlone
<1> QED BY <1>1 DEF MtxInv

\* What the calls that return at once have in common: only the mutex m may
\* change, and c's error and some priorities.
LEMMA MtxSpares ==
  ASSUME MtxInv, NEW c \in Thread, NEW m \in Mtx, c = k.current, k.stat[c] = "RUNNING",
         pc[c].at \in Label, Core(k', {}), CurrentOK(k'), Spares(k, k', c),
         UNCHANGED <<isr, pc, obj>>,
         NEW v \in {Free} \cup Taken, mtx' = [mtx EXCEPT ![m] = v],
         obj[m] = "live" => Alone(m, k', pc', v.owner)
  PROVE  MtxInv'
<1>1. ObjInv /\ ObjInv'
  BY SparesObjInv DEF MtxInv
<1>2. mtx' \in [Mtx -> {Free} \cup Taken] /\ mtx'[m] = v
  BY DEF MtxInv
<1>3. ASSUME NEW n \in Mtx \ {m}, obj'[n] = "live" PROVE Alone(n, k', pc', mtx'[n].owner)
  <2>1. n \in Queue /\ mtx'[n] = mtx[n] /\ Alone(n, k, pc, mtx[n].owner)
    BY <1>3, MutexAssumption DEF MtxInv
  <2>2. Eases(n)
    BY <1>1, <2>1, SparesCalls DEF Eases
  <2> QED BY <1>1, <2>1, <2>2, EasedAlone
<1> QED BY <1>1, <1>2, <1>3 DEF MtxInv

\* A call c makes on the live mutex m.
LEMMA MtxAsks ==
  ASSUME Polite, MtxInv, NEW c \in Thread, NEW b, NEW m \in Mtx, Asks(c, b, m)
  PROVE  /\ ObjInv /\ IpcInv /\ Core(k, {}) /\ CurrentOK(k) /\ m \in Queue
         /\ pc[c].at \in Label /\ c = k.current /\ k.stat[c] = "RUNNING" /\ c # Idle
         /\ obj[m] = "live" /\ Alone(m, k, pc, mtx[m].owner)
         /\ mtx[m] \in {Free} \cup Taken
         /\ CallOf(m, k, pc, c) = "none" /\ c \notin Members(k.list[m])
<1>1. ObjInv /\ IpcInv /\ Core(k, {}) /\ CurrentOK(k) /\ m \in Queue
  BY MutexAssumption DEF MtxInv, ObjInv, IpcInv, IInv
<1>2. /\ pc[c].at \in Label /\ c = k.current /\ k.stat[c] = "RUNNING" /\ c # Idle
      /\ obj[m] = "live"
  BY <1>1, AsksFacts
<1>3. Alone(m, k, pc, mtx[m].owner) /\ mtx[m] \in {Free} \cup Taken
  BY <1>2 DEF MtxInv
<1>4. CallOf(m, k, pc, c) = "none"
  BY <1>2, LabelsApart, NoCall
<1>5. c \notin Members(k.list[m])
  BY <1>1, <1>2, NotSuspended
<1> QED BY <1>1, <1>2, <1>3, <1>4, <1>5

\* The priority an owner inherits.
LEMMA InheritSpares ==
  ASSUME NEW kk, Core(kk, {}), CurrentOK(kk), NEW o \in Thread, NEW t \in Thread
  PROVE  LET w == Inherit(kk, o, t)
         IN  /\ Core(w, {}) /\ CurrentOK(w) /\ w.err = kk.err
             /\ \A x \in Thread : Stands(kk, w, x)
             /\ \A x \in Thread : Spares(kk, w, x)
<1>1. kk.prio[t] \in Prio
  BY DEF Core, KernelType
<1>2. \A x \in Thread : Stands(kk, kk, x) /\ Spares(kk, kk, x)
  BY DEF Stands, Spares
<1> QED BY <1>1, <1>2, ChangePrioritySpares DEF Inherit

\* The priority the owner gets back when it lets go.
LEMMA RestoreSpares ==
  ASSUME NEW kk, Core(kk, {}), CurrentOK(kk), NEW m \in Taken
  PROVE  LET w == Restore(kk, m)
         IN  /\ Core(w, {}) /\ CurrentOK(w) /\ w.err = kk.err
             /\ \A x \in Thread : Stands(kk, w, x)
             /\ \A x \in Thread : Spares(kk, w, x)
<1>1. m.orig \in Prio /\ m.owner \in Thread
  BY DEF Taken
<1>2. \A x \in Thread : Stands(kk, kk, x) /\ Spares(kk, kk, x)
  BY DEF Stands, Spares
<1> QED BY <1>1, <1>2, ChangePrioritySpares DEF Restore

\* rt_mutex_take by the owner, of a free mutex, or with time 0.
LEMMA TakeAtOnce ==
  ASSUME Polite, MtxInv, NEW c \in Thread, NEW m \in Mtx, NEW time \in WaitTime,
         rt_mutex_take(c, m, time),
         mtx[m].owner = c \/ mtx[m].value > 0 \/ time = 0
  PROVE  MtxInv'
<1>1. /\ ObjInv /\ Core(k, {}) /\ CurrentOK(k) /\ m \in Queue
      /\ pc[c].at \in Label /\ c = k.current /\ k.stat[c] = "RUNNING"
      /\ obj[m] = "live" /\ Alone(m, k, pc, mtx[m].owner)
      /\ mtx[m] \in {Free} \cup Taken
      /\ CallOf(m, k, pc, c) = "none" /\ c \notin Members(k.list[m])
  BY MtxAsks DEF rt_mutex_take
<1>2. UNCHANGED <<isr, obj, pc>> /\ \E e \in Error : k' = [k EXCEPT !.err[c] = e]
  <2>1. mtx[m].owner # c /\ mtx[m].value = 0 => time = 0
    BY <1>1 DEF Free, Taken
  <2>2. "EOK" \in Error /\ "ETIMEOUT" \in Error
    BY DEF Error
  <2> QED BY <2>1, <2>2 DEF rt_mutex_take
<1>3. Core(k', {}) /\ CurrentOK(k') /\ Spares(k, k', c)
  BY <1>1, <1>2, SetErrorSpares
<1>4. ObjInv' /\ SameCalls(m)
  BY <1>1, <1>2, <1>3, SparesObjInv, SparesCalls
<1>5. Alone(m, k', pc', mtx[m].owner)
  BY <1>1, <1>4, EasedAlone DEF Eases
<1>6. mtx = [n \in Mtx |-> mtx[n]]
  BY DEF MtxInv
<1>7. CASE mtx[m].owner = c
  <2> DEFINE v == [mtx[m] EXCEPT !.hold = (@ + 1) % 256]
  <2>1. mtx[m] \in Taken
    BY <1>1, <1>7, MutexAssumption DEF Free
  <2>2. mtx' = [mtx EXCEPT ![m] = v] /\ mtx[m].hold < MaxHold
    BY <1>7 DEF rt_mutex_take
  <2>3. mtx[m].hold \in 1 .. 255 /\ MaxHold \in 1 .. 255
    BY <2>1, MutexAssumption DEF Taken
  <2>4. (mtx[m].hold + 1) % 256 \in 1 .. 255
    <3>1. mtx[m].hold + 1 \in 1 .. 255
      <4>1. \A x, y \in 1 .. 255 : x < y => x + 1 \in 1 .. 255
        OBVIOUS
      <4> QED BY <2>2, <2>3, <4>1
    <3>2. \A x \in 1 .. 255 : x % 256 \in 1 .. 255
      OBVIOUS
    <3> QED BY <3>1, <3>2
  <2>5. v \in Taken /\ v.owner = mtx[m].owner
    <3>1. \A h \in 1 .. 255 : [mtx[m] EXCEPT !.hold = h] \in Taken
                              /\ [mtx[m] EXCEPT !.hold = h].owner = mtx[m].owner
      BY <2>1 DEF Taken
    <3> QED BY <2>4, <3>1
  <2> HIDE DEF v
  <2> QED BY <1>1, <1>2, <1>3, <1>5, <2>2, <2>5, MtxSpares
<1>8. CASE mtx[m].owner # c /\ mtx[m].value > 0
  <2> DEFINE v == Owned([mtx[m] EXCEPT !.value = @ - 1], c, k)
  <2>1. mtx[m] = Free
    BY <1>1, <1>8 DEF Taken
  <2>2. mtx' = [mtx EXCEPT ![m] = v]
    BY <1>8, <2>1 DEF rt_mutex_take, Free
  <2>3. k.prio[c] \in Prio
    BY <1>1 DEF Core, KernelType
  <2>4. v \in Taken /\ v.owner = c
    <3> DEFINE f == [mtx[m] EXCEPT !.value = @ - 1]
    <3>1. f = [value |-> 0, owner |-> Nobody, orig |-> NoPrio, hold |-> 0]
      <4>1. mtx[m].value = 1
        BY <2>1 DEF Free
      <4>2. mtx[m].value - 1 = 0
        BY <4>1
      <4>3. f = [mtx[m] EXCEPT !.value = 0]
        BY <4>2
      <4> QED BY <2>1, <4>3 DEF Free
    <3>2. v = [value |-> 0, owner |-> c, orig |-> k.prio[c], hold |-> (0 + 1) % 256]
      <4>1. v = [f EXCEPT !.owner = c, !.orig = k.prio[c], !.hold = (f.hold + 1) % 256]
        BY DEF Owned
      <4> HIDE DEF f, v
      <4> QED BY <3>1, <4>1
    <3>3. (0 + 1) % 256 = 1 /\ 1 \in 1 .. 255
      OBVIOUS
    <3> QED BY <2>3, <3>2, <3>3 DEF Taken
  <2>5. mtx[m].owner = Nobody
    BY <2>1 DEF Free
  <2>6. Alone(m, k', pc', c)
    <3>1. k'.list[m] = << >>
      BY <1>5, <2>5 DEF Alone
    <3>2. \A t \in Thread : CallOf(m, k', pc', t) # "granted"
      BY <1>5, <2>5, MutexAssumption DEF Alone
    <3> QED BY <3>1, <3>2 DEF Alone, Members
  <2> HIDE DEF v
  <2> QED BY <1>1, <1>2, <1>3, <2>2, <2>4, <2>6, MtxSpares
<1>9. CASE mtx[m].owner # c /\ ~ (mtx[m].value > 0)
  <2>1. mtx' = mtx
    BY <1>9 DEF rt_mutex_take
  <2>2. mtx' = [mtx EXCEPT ![m] = mtx[m]]
    BY <1>6, <2>1
  <2> QED BY <1>1, <1>2, <1>3, <1>5, <2>2, MtxSpares
<1> QED BY <1>7, <1>8, <1>9

\* rt_mutex_take of a mutex that somebody else owns.
LEMMA TakeBlocks ==
  ASSUME Polite, MtxInv, NEW c \in Thread, NEW m \in Mtx, NEW time \in WaitTime,
         rt_mutex_take(c, m, time),
         mtx[m].owner # c, ~ (mtx[m].value > 0), time # 0
  PROVE  MtxInv'
<1>1. /\ ObjInv /\ Core(k, {}) /\ CurrentOK(k) /\ m \in Queue
      /\ pc[c].at \in Label /\ c = k.current /\ k.stat[c] = "RUNNING"
      /\ obj[m] = "live" /\ Alone(m, k, pc, mtx[m].owner)
      /\ mtx[m] \in {Free} \cup Taken
  BY MtxAsks DEF rt_mutex_take
<1>2. /\ Asks(c, "take", m) /\ UNCHANGED <<isr, obj, mtx>>
      /\ k' = Block(Inherit(k, mtx[m].owner, c), m, c, time)
      /\ pc' = [pc EXCEPT ![c] = At("ipc_sched", m)]
  BY DEF rt_mutex_take, Goto
<1>3. mtx[m].owner \in Thread
  BY <1>1 DEF Free, Taken
<1> DEFINE w == Inherit(k, mtx[m].owner, c)
<1>4. Core(w, {}) /\ CurrentOK(w) /\ Spares(k, w, c)
  BY <1>1, <1>3, InheritSpares
<1>5. k' = Block(w, m, c, time) /\ time \in Nat \cup {-1}
  BY <1>2, IpcAssumption
<1> HIDE DEF w
<1>6. w.stat[c] = "RUNNING"
  BY <1>1, <1>4 DEF Spares
<1>7. Core(k', {}) /\ CurrentOK(k') /\ Blocks(w, k', m, c)
  BY <1>1, <1>4, <1>5, <1>6, BlockCore
<1>8. Blocks(k, k', m, c)
  BY <1>1, <1>4, <1>7, SparesBlocks
<1>9. ObjInv'
  BY <1>1, <1>2, <1>7, <1>8, BlockObjInv
<1>10. Alone(m, k', pc', mtx[m].owner)
  <2>1. OneCall(m, {"none"}, "waiting")
    BY <1>1, <1>2, <1>8, BlockCalls
  <2>2. \A t \in Thread : CallOf(m, k', pc', t) = "granted" =>
                          CallOf(m, k, pc, t) = "granted"
    BY <2>1 DEF OneCall
  <2>3. mtx[m].owner \notin Members(k'.list[m])
    BY <1>1, <1>3, <1>8 DEF Alone, Blocks, Stands
  <2> QED BY <1>1, <1>3, <2>2, <2>3, MutexAssumption DEF Alone
<1>11. ASSUME NEW n \in Mtx \ {m}, obj'[n] = "live" PROVE Alone(n, k', pc', mtx'[n].owner)
  <2>1. n \in Queue /\ mtx'[n] = mtx[n] /\ Alone(n, k, pc, mtx[n].owner)
    BY <1>2, <1>11, MutexAssumption DEF MtxInv
  <2>2. Eases(n)
    BY <1>1, <1>2, <1>8, <2>1, BlockCalls DEF Eases
  <2> QED BY <1>1, <1>9, <2>1, <2>2, EasedAlone
<1> QED BY <1>2, <1>9, <1>10, <1>11 DEF MtxInv

\* rt_mutex_release that wakes nobody: by another thread, a nested one, or of a
\* mutex that nobody waits for.
LEMMA ReleaseAtOnce ==
  ASSUME Polite, MtxInv, NEW c \in Thread, NEW m \in Mtx, rt_mutex_release(c, m),
         mtx[m].owner # c \/ mtx[m].hold > 1 \/ k.list[m] = << >>
  PROVE  MtxInv'
<1>1. /\ ObjInv /\ Core(k, {}) /\ CurrentOK(k) /\ m \in Queue
      /\ pc[c].at \in Label /\ c = k.current /\ k.stat[c] = "RUNNING"
      /\ obj[m] = "live" /\ Alone(m, k, pc, mtx[m].owner)
      /\ mtx[m] \in {Free} \cup Taken /\ UNCHANGED <<isr, obj>>
      /\ CallOf(m, k, pc, c) = "none"
  BY MtxAsks DEF rt_mutex_release
<1>2. mtx = [n \in Mtx |-> mtx[n]]
  BY DEF MtxInv
<1>3. ASSUME Core(k', {}), CurrentOK(k'), Spares(k, k', c), UNCHANGED pc
      PROVE  SameCalls(m) /\ Alone(m, k', pc', mtx[m].owner)
  <2>1. ObjInv' /\ SameCalls(m)
    BY <1>1, <1>3, SparesObjInv, SparesCalls
  <2> QED BY <1>1, <2>1, EasedAlone DEF Eases
<1>4. CASE mtx[m].owner # c
  <2>1. k' = [k EXCEPT !.err[c] = "ERROR"] /\ UNCHANGED <<mtx, pc>>
    BY <1>4 DEF rt_mutex_release
  <2>2. "ERROR" \in Error
    BY DEF Error
  <2>3. Core(k', {}) /\ CurrentOK(k') /\ Spares(k, k', c)
    BY <1>1, <2>1, <2>2, SetErrorSpares
  <2>4. mtx' = [mtx EXCEPT ![m] = mtx[m]]
    BY <1>2, <2>1
  <2> QED BY <1>1, <1>3, <2>1, <2>3, <2>4, MtxSpares
<1>5. CASE mtx[m].owner = c /\ mtx[m].hold > 1
  <2> DEFINE v == [mtx[m] EXCEPT !.hold = @ - 1]
  <2>1. mtx[m] \in Taken /\ mtx[m].hold \in 1 .. 255
    BY SMTT(60), <1>1, <1>5, MutexAssumption DEF Free, Taken
  <2>2. ~ (mtx[m].hold = 1)
    BY <1>5, <2>1
  <2>3. mtx' = [mtx EXCEPT ![m] = v] /\ UNCHANGED <<k, pc>>
    BY <1>5, <2>2 DEF rt_mutex_release
  <2>4. mtx[m].hold - 1 \in 1 .. 255
    BY SMTT(30), <1>5, <2>1
  <2>5. v \in Taken /\ v.owner = mtx[m].owner
    BY <2>1, <2>4 DEF Taken
  <2>6. Core(k', {}) /\ CurrentOK(k') /\ Spares(k, k', c)
    BY <1>1, <2>3 DEF Spares, Stands
  <2> HIDE DEF v
  <2> QED BY <1>1, <1>3, <2>3, <2>5, <2>6, MtxSpares
<1>6. CASE mtx[m].owner = c /\ ~ (mtx[m].hold > 1) /\ k.list[m] = << >>
  <2>1. mtx[m] \in Taken
    BY <1>1, <1>6, MutexAssumption DEF Free
  <2>2. k' = Restore(k, mtx[m]) /\ mtx' = [mtx EXCEPT ![m] = Free] /\ UNCHANGED pc
    BY <1>6 DEF rt_mutex_release
  <2>3. Core(k', {}) /\ CurrentOK(k') /\ Spares(k, k', c)
    BY <1>1, <2>1, <2>2, RestoreSpares
  <2>4. SameCalls(m) /\ Alone(m, k', pc', c)
    BY <1>3, <1>6, <2>2, <2>3
  <2>5. Alone(m, k', pc', Nobody)
    <3>1. k'.list[m] = << >>
      BY <1>1, <1>6, <2>3 DEF Spares
    <3>2. \A t \in Thread : CallOf(m, k', pc', t) # "granted"
      BY <1>1, <2>4 DEF Alone, SameCalls
    <3> QED BY <3>1, <3>2 DEF Alone, Members
  <2>6. Free.owner = Nobody
    BY DEF Free
  <2> QED BY <1>1, <2>2, <2>3, <2>5, <2>6, MtxSpares
<1> QED BY <1>4, <1>5, <1>6

\* The last rt_mutex_release hands the mutex over to the first waiter.
LEMMA ReleaseHandsOver ==
  ASSUME Polite, MtxInv, NEW c \in Thread, NEW m \in Mtx, rt_mutex_release(c, m),
         mtx[m].owner = c, ~ (mtx[m].hold > 1), k.list[m] # << >>
  PROVE  MtxInv'
<1> DEFINE r == Restore(k, mtx[m])
           w == Head(k.list[m])
           v == Owned([mtx[m] EXCEPT !.hold = 0], w, r)
<1>1. /\ ObjInv /\ Core(k, {}) /\ CurrentOK(k) /\ m \in Queue
      /\ pc[c].at \in Label /\ c = k.current /\ k.stat[c] = "RUNNING"
      /\ obj[m] = "live" /\ Alone(m, k, pc, c)
      /\ mtx[m] \in {Free} \cup Taken /\ UNCHANGED <<isr, obj>>
      /\ CallOf(m, k, pc, c) = "none"
  BY MtxAsks DEF rt_mutex_release
<1>2. mtx[m] \in Taken
  BY <1>1, MutexAssumption DEF Free
<1>3. /\ Asks(c, "release", m) /\ k' = rt_ipc_list_resume(r, m)
      /\ mtx' = [mtx EXCEPT ![m] = v] /\ pc' = [pc EXCEPT ![c] = At("sched", c)]
  BY DEF rt_mutex_release, Goto
<1>4. /\ Core(r, {}) /\ CurrentOK(r) /\ r.err = k.err
      /\ Stands(k, r, c) /\ Spares(k, r, c)
  BY <1>1, <1>2, RestoreSpares
<1>5. w \in Members(k.list[m]) /\ w \in Thread /\ k.stat[w] = "SUSPEND"
  BY <1>1, HeadIs
<1>6. w # c
  BY <1>1, <1>5
<1> HIDE DEF r
<1>7. r.list[m] = k.list[m] /\ r.stat[w] = "SUSPEND"
  BY <1>1, <1>4, <1>5, <1>6 DEF Spares, Stands
<1>8. k' = rt_thread_resume(r, w)
  BY <1>3, <1>7 DEF rt_ipc_list_resume
<1>9. v \in Taken /\ v.owner = w
  <2>1. (0 + 1) % 256 = 1 /\ 1 \in 1 .. 255
    OBVIOUS
  <2>2. r.prio[w] \in Prio
    BY <1>4, <1>5 DEF Core, KernelType
  <2> HIDE DEF w
  <2> QED BY <1>2, <1>5, <2>1, <2>2 DEF Owned, Taken
<1> HIDE DEF w, v
<1>10. Core(k', {}) /\ CurrentOK(k') /\ Resumed(r, k', {w}) /\ k'.err = r.err
  BY <1>4, <1>5, <1>7, <1>8, ResumeCore
<1>11. Resumed(k, k', {w})
  BY <1>4, <1>10, SparesResumed
<1>12. {w} \in SUBSET Members(k.list[m])
  BY <1>5
<1>13. ObjInv'
  BY <1>1, <1>3, <1>10, <1>11, <1>12, ResumedObjInv
<1>14. /\ \A x \in Thread \ {c} : pc'[x] = pc[x]
       /\ \A q : CallOf(q, k, pc, c) = "none" /\ CallOf(q, k', pc', c) = "none"
  <2>1. "sched" \in Label
    BY DEF Label
  <2> QED BY <1>1, <1>3, <2>1, CallerMoves
<1>15. ASSUME NEW q \in Queue, NEW x \in Thread \ {w}
       PROVE  CallOf(q, k', pc', x) = CallOf(q, k, pc, x)
  <2>1. k'.err[x] = k.err[x] /\ (x \in Members(k'.list[q]) <=> x \in Members(k.list[q]))
    BY <1>11 DEF Resumed, Stands
  <2>2. CASE x # c
    BY <1>14, <2>1, <2>2, SameCall
  <2> QED BY <1>14, <2>2
<1>16. Alone(m, k', pc', w)
  <2>1. \A t \in Thread \ {w} : CallOf(m, k', pc', t) # "granted"
    BY <1>1, <1>15 DEF Alone
  <2>2. k'.stat[w] # "SUSPEND"
    BY <1>11 DEF Resumed, Runnable
  <2>3. w \notin Members(k'.list[m])
    BY <1>1, <1>10, <2>2, NotSuspended
  <2> QED BY <1>5, <2>1, <2>3, MutexAssumption DEF Alone
<1>17. ASSUME NEW n \in Mtx \ {m}, obj'[n] = "live" PROVE Alone(n, k', pc', mtx'[n].owner)
  <2>1. n \in Queue /\ mtx'[n] = mtx[n] /\ Alone(n, k, pc, mtx[n].owner)
    BY <1>1, <1>3, <1>17, MutexAssumption DEF MtxInv
  <2>2. pc[w].arg = m
    BY <1>1, <1>5 DEF ObjInv, IpcInv, WaitersOK, Linked
  <2>3. CallOf(n, k', pc', w) = "none" /\ CallOf(n, k, pc, w) = "none"
    <3>1. pc'[w] = pc[w]
      BY <1>5, <1>6, <1>14
    <3> QED BY <2>2, <3>1, NoCall
  <2>4. Eases(n)
    BY <1>15, <2>1, <2>3 DEF Eases, SameCalls
  <2> QED BY <1>1, <1>13, <2>1, <2>4, EasedAlone
<1>18. mtx' \in [Mtx -> {Free} \cup Taken] /\ mtx'[m] = v
  BY <1>3, <1>9 DEF MtxInv
<1> QED BY <1>9, <1>13, <1>16, <1>17, <1>18 DEF MtxInv

\* The later steps of calls on any object bring none to life.
LEMMA ContinueObj ==
  ASSUME ObjInv, NEW c \in Thread, IpcContinue(c)
  PROVE  \A q \in Queue : obj'[q] = "live" => obj[q] = "live"
<1>1. obj = [q \in Queue |-> obj[q]]
  BY DEF ObjInv
<1>2. \/ obj' = obj \/ \E q : obj' = [obj EXCEPT ![q] = "none"]
  BY DEF IpcContinue, BlockSchedule, BlockEnd, ResumeAllTest, ResumeAllNext
<1> QED BY <1>1, <1>2

\* The invariant is inductive.
LEMMA MtxInvIsInductive ==
  ASSUME Polite
  PROVE  MtxInv /\ [MtxNext]_mtxVars => MtxInv'
<1> SUFFICES ASSUME MtxInv, [MtxNext]_mtxVars PROVE MtxInv'
  OBVIOUS
<1>1. ObjInv /\ Mtx \subseteq Queue /\ mtx = [n \in Mtx |-> mtx[n]]
  BY MutexAssumption DEF MtxInv
<1>2. CASE UNCHANGED mtxVars
  <2>1. UNCHANGED <<ipcVars, k, pc, obj, mtx>>
    BY <1>2 DEF mtxVars, ipcVars
  <2>2. ObjInv'
    BY <1>1, <2>1, UnchangedObjInv
  <2> QED BY <2>1, <2>2 DEF MtxInv
<1>3. CASE Next /\ UNCHANGED <<obj, mtx>>
  <2>1. ObjInv' /\ \A q \in Queue : Eases(q)
    BY <1>1, <1>3, NextObjInv, NextCalls DEF Eases
  <2> QED BY <1>1, <1>3, <2>1, MtxEases DEF MtxInv
<1>4. ASSUME NEW c \in Thread, IpcContinue(c), UNCHANGED mtx PROVE MtxInv'
  <2>1. /\ ObjInv' /\ \A q \in Queue : Eases(q)
        /\ \A q \in Queue : obj'[q] = "live" => obj[q] = "live"
    BY <1>1, <1>4, ContinueEases, ContinueObj
  <2> QED BY <1>1, <1>4, <2>1, MtxEases DEF MtxInv
<1>5. ASSUME NEW c \in Thread, NEW m \in Mtx, NEW time \in WaitTime,
             rt_mutex_take(c, m, time)
      PROVE  MtxInv'
  BY <1>5, TakeAtOnce, TakeBlocks
<1>6. ASSUME NEW c \in Thread, NEW m \in Mtx, rt_mutex_release(c, m) PROVE MtxInv'
  BY <1>6, ReleaseAtOnce, ReleaseHandsOver
<1>7. ASSUME NEW c \in Thread, NEW m \in Mtx, rt_mutex_detach(c, m) PROVE MtxInv'
  <2>1. Detach(c, m) /\ UNCHANGED mtx /\ obj' = [obj EXCEPT ![m] = "leaving"]
    BY <1>7 DEF rt_mutex_detach, Detach
  <2>2. ObjInv' /\ \A q \in Queue : Eases(q)
    BY <1>1, <2>1, DetachObjInv, DetachCalls DEF Eases
  <2>3. \A q \in Queue : obj'[q] = "live" => obj[q] = "live"
    BY <1>1, <2>1 DEF ObjInv
  <2> QED BY <1>1, <2>1, <2>2, <2>3, MtxEases DEF MtxInv
<1>8. ASSUME NEW c \in Thread, NEW m \in Mtx, rt_mutex_init(c, m) PROVE MtxInv'
  <2>1. /\ Initialize(c, m) /\ UNCHANGED <<k, pc>> /\ obj' = [obj EXCEPT ![m] = "live"]
        /\ obj[m] = "none" /\ Inside(m) = {} /\ mtx' = [mtx EXCEPT ![m] = Free]
    BY <1>8 DEF rt_mutex_init, Initialize
  <2>2. ObjInv'
    BY <1>1, <2>1, InitializeObjInv
  <2>3. Alone(m, k', pc', Nobody)
    <3>1. k'.list[m] = << >>
      BY <1>1, <2>1 DEF ObjInv, NobodyLeftBehind
    <3>2. \A t \in Thread : CallOf(m, k', pc', t) = "none"
      BY <2>1 DEF Inside, CallOf, WaitLabels
    <3> QED BY <3>1, <3>2 DEF Alone, Members
  <2>4. ASSUME NEW n \in Mtx, obj'[n] = "live" PROVE Alone(n, k', pc', mtx'[n].owner)
    <3>1. CASE n = m
      BY <1>1, <2>1, <2>3, <3>1 DEF Free
    <3>2. CASE n # m
      <4>1. obj[n] = "live" /\ mtx'[n] = mtx[n]
        BY <1>1, <2>1, <2>4, <3>2 DEF ObjInv
      <4> QED BY <2>1, <4>1 DEF MtxInv
    <3> QED BY <3>1, <3>2
  <2>5. mtx' \in [Mtx -> {Free} \cup Taken]
    BY <2>1 DEF MtxInv
  <2> QED BY <2>2, <2>4, <2>5 DEF MtxInv
<1> QED BY <1>2, <1>3, <1>4, <1>5, <1>6, <1>7, <1>8 DEF MtxNext, MtxInvoke

\* It holds at first.
LEMMA MtxInitInv ==
  ASSUME IsFiniteSet(Thread)
  PROVE  MtxInit => MtxInv
<1> SUFFICES ASSUME MtxInit PROVE MtxInv
  OBVIOUS
<1>1. ObjInv /\ \A q \in Queue : k.list[q] = << >>
  BY InitObjInv DEF MtxInit
<1>2. ASSUME NEW m \in Mtx PROVE Alone(m, k, pc, Nobody)
  <2>1. \A t \in Thread : pc[t].at \notin WaitLabels
    BY DEF MtxInit, InitStarted, Running, At, WaitLabels
  <2>2. \A t \in Thread : CallOf(m, k, pc, t) = "none"
    BY <2>1, NoCall
  <2>3. k.list[m] = << >>
    BY <1>1, MutexAssumption
  <2> QED BY <2>2, <2>3 DEF Alone, Members
<1> QED BY <1>1, <1>2 DEF MtxInv, MtxInit, Free

\* Mutual exclusion, for any number of mutexes, threads that take them in any
\* order and nesting, timeouts and detaching: rt_mutex_take has succeeded for
\* nobody but the owner, who does not wait for its own mutex, and the threads
\* in the list of a mutex are those inside rt_mutex_take that it has not been
\* given to; there are none while it is free.
THEOREM OwnerIsAlwaysAlone ==
  ASSUME Polite, IsFiniteSet(Thread)
  PROVE  MtxSpec => []OwnerIsAlone
<1>1. MtxInv => OwnerIsAlone
  <2> SUFFICES ASSUME MtxInv, NEW m \in Mtx, obj[m] = "live"
               PROVE  /\ Granted(m) \subseteq {mtx[m].owner}
                      /\ mtx[m].owner \notin Members(k.list[m])
                      /\ Members(k.list[m]) = Waiting(m)
                      /\ mtx[m].owner = Nobody => k.list[m] = << >>
    BY DEF OwnerIsAlone
  <2>1. Core(k, {}) /\ Linked(k, pc) /\ m \in Queue /\ Alone(m, k, pc, mtx[m].owner)
    BY MutexAssumption DEF MtxInv, ObjInv, IpcInv, IInv, WaitersOK
  <2>2. Members(k.list[m]) = Waiting(m)
    <3>1. /\ \A t \in Members(k.list[m]) : t \in Thread /\ CallOf(m, k, pc, t) = "waiting"
          /\ \A t \in Thread : CallOf(m, k, pc, t) = "waiting" => t \in Members(k.list[m])
      BY <2>1, WaitersWait
    <3>2. Waiting(m) = {t \in Thread : CallOf(m, k, pc, t) = "waiting"}
      BY CallsAre
    <3> QED BY <3>1, <3>2
  <2>3. Granted(m) \subseteq {mtx[m].owner}
    BY <2>1, CallsAre DEF Alone
  <2> QED BY <2>1, <2>2, <2>3 DEF Alone
<1> QED BY <1>1, MtxInitInv, MtxInvIsInductive, PTL DEF MtxSpec

-----------------------------------------------------------------------------
(***************************************************************************)
(* The completion.  At most one thread is suspended on it, as the code      *)
(* asserts, and none while the flag is set; the flag is set from the done  *)
(* that resumes a thread until a call returns, its own or another one that *)
(* came before.                                                            *)
(***************************************************************************)
InWait(t) == pc[t].at \in WaitLabels

WaitCalls ==
  \A t \in Thread : InWait(t) => pc[t].arg = Comp /\ <<t, "wait">> \in Uses

OneListed == \A t, u \in Members(k.list[Comp]) : t = u

DoneType == [flag : BOOLEAN, fresh : BOOLEAN, shared : SUBSET Thread]

\* Only one thread is ever allowed to wait.
SingleWaiter == \A t, u : <<t, "wait">> \in Uses /\ <<u, "wait">> \in Uses => t = u

CompInv ==
  /\ ObjInv /\ WaitCalls /\ OneListed
  /\ done \in DoneType /\ (done.flag => done.fresh)
  /\ k.list[Comp] # << >> => ~ done.flag
  /\ \A t \in Thread :
       CallOf(Comp, k, pc, t) = "granted" => done.flag \/ t \in done.shared
  /\ SingleWaiter => done.shared = {}

\* Nobody enters a waiting call, or moves from one to another.
NoEntry ==
  \A x \in Thread : InWait(x)' => InWait(x) /\ pc'[x].arg = pc[x].arg

\* Then those who are in one were.
LEMMA WaitCallsKept ==
  ASSUME WaitCalls, NoEntry
  PROVE  WaitCalls'
BY DEF WaitCalls, NoEntry

\* A thread that goes to a label outside waiting calls.
LEMMA GotoNoEntry ==
  ASSUME ObjInv, NEW c \in Thread, NEW l, NEW a, l \notin WaitLabels,
         pc' = [pc EXCEPT ![c] = At(l, a)]
  PROVE  NoEntry /\ ~ InWait(c)' /\ \A x \in Thread \ {c} : pc'[x] = pc[x]
<1>1. pc = [x \in Thread |-> pc[x]]
  BY DEF ObjInv, IpcInv, IInv, StateOK
<1>2. pc'[c].at = l /\ \A x \in Thread \ {c} : pc'[x] = pc[x]
  BY <1>1 DEF At
<1> QED BY <1>2 DEF NoEntry, InWait

\* A step that leaves the flag alone, begins no call and grants none.
LEMMA EasedCompInv ==
  ASSUME CompInv, ObjInv', NoEntry, Eases(Comp), UNCHANGED done
  PROVE  CompInv'
<1>1. Core(k, {}) /\ Core(k', {}) /\ Comp \in Queue /\ ObjInv
  BY CompletionAssumption DEF CompInv, ObjInv, IpcInv, IInv
<1>2. /\ Members(k'.list[Comp]) \subseteq Members(k.list[Comp])
      /\ \A t \in Thread : CallOf(Comp, k', pc', t) = "granted" =>
                           CallOf(Comp, k, pc, t) = "granted"
  BY <1>1, EasedCalls
<1>3. k.list[Comp] = << >> => k'.list[Comp] = << >>
  BY <1>1, <1>2, StaysEmpty
<1>4. WaitCalls' /\ OneListed'
  BY <1>2, WaitCallsKept DEF CompInv, OneListed
<1> QED BY <1>2, <1>3, <1>4 DEF CompInv

\* A step after which nobody is in a waiting call: the list is empty.
LEMMA LastCompInv ==
  ASSUME ObjInv', \A x \in Thread : ~ InWait(x)', done' = NotDone
  PROVE  CompInv'
<1>1. Core(k', {}) /\ Linked(k', pc') /\ Comp \in Queue
  BY CompletionAssumption DEF ObjInv, IpcInv, IInv, WaitersOK
<1>2. \A x \in Members(k'.list[Comp]) : x \in Thread /\ pc'[x].at \in WaitLabels
  BY <1>1, MembersAre DEF Linked
<1>3. Members(k'.list[Comp]) = {}
  BY <1>2 DEF InWait
<1>4. k'.list[Comp] = << >>
  <2>1. k'.list[Comp] \in Seq(Thread)
    BY <1>1 DEF Core, KernelType, Head_
  <2> QED BY <1>3, <2>1, EmptyMembers
<1>5. \A t \in Thread : CallOf(Comp, k', pc', t) = "none"
  BY NoCall DEF InWait
<1>6. WaitCalls' /\ OneListed'
  BY <1>3 DEF WaitCalls, OneListed
<1>7. done' \in DoneType /\ ~ done'.flag /\ done'.shared = {}
  BY DEF NotDone, DoneType
<1> QED BY <1>4, <1>5, <1>6, <1>7 DEF CompInv

\* The call of c returns and cleans the flag: the others that have been resumed
\* share the done with it.
LEMMA ReturnCompInv ==
  ASSUME CompInv, ObjInv', NoEntry, NEW c \in Thread, <<c, "wait">> \in Uses,
         k' = k, done' = Cleaned(c), CallOf(Comp, k', pc', c) = "none",
         \A x \in Thread \ {c} : CallOf(Comp, k', pc', x) = CallOf(Comp, k, pc, x)
  PROVE  CompInv'
<1>1. WaitCalls' /\ OneListed'
  BY WaitCallsKept DEF CompInv, OneListed
<1>2. Granted(Comp) = {t \in Thread : CallOf(Comp, k, pc, t) = "granted"}
  BY CallsAre
<1>3. /\ done'.flag = FALSE /\ done'.fresh = FALSE
      /\ done'.shared = Granted(Comp) \ {c}
  BY DEF Cleaned
<1>4. done' \in DoneType
  BY <1>2 DEF Cleaned, DoneType
<1>5. \A t \in Thread : CallOf(Comp, k', pc', t) = "granted" => t \in done'.shared
  BY <1>2, <1>3
<1>6. SingleWaiter => done'.shared = {}
  <2>1. \A t \in Granted(Comp) : <<t, "wait">> \in Uses
    <3>1. \A t \in Granted(Comp) : t \in Thread /\ InWait(t)
      BY <1>2, NoCall DEF InWait
    <3>2. WaitCalls
      BY DEF CompInv
    <3> QED BY <3>1, <3>2, Zenon DEF WaitCalls
  <2> QED BY <1>3, <2>1 DEF SingleWaiter
<1> QED BY <1>1, <1>3, <1>4, <1>5, <1>6 DEF CompInv

\* A step that sets the flag and leaves nobody waiting.
LEMMA DoneCompInv ==
  ASSUME CompInv, ObjInv', NoEntry, done' = Completed, k'.list[Comp] = << >>
  PROVE  CompInv'
<1>1. WaitCalls' /\ OneListed'
  BY WaitCallsKept DEF CompInv, OneListed, Members
<1>2. /\ done' \in DoneType /\ done'.flag /\ done'.fresh
      /\ done'.shared = done.shared
  BY DEF CompInv, Completed, DoneType
<1> QED BY <1>1, <1>2 DEF CompInv

\* The critical section of rt_completion_done when a thread waits: it is the
\* only one, and is made ready.
LEMMA DoneResumes ==
  ASSUME CompInv, k.list[Comp] # << >>
  PROVE  LET u == rt_ipc_list_resume(k, Comp)
             t == Head(k.list[Comp])
         IN  /\ Core(u, {}) /\ CurrentOK(u) /\ Resumed(k, u, {t})
             /\ {t} \in SUBSET Members(k.list[Comp])
             /\ u.list[Comp] = << >>
<1> DEFINE u == rt_ipc_list_resume(k, Comp)
           t == Head(k.list[Comp])
<1>1. Core(k, {}) /\ CurrentOK(k) /\ Linked(k, pc) /\ Comp \in Queue
  BY CompletionAssumption DEF CompInv, ObjInv, IpcInv, IInv, WaitersOK
<1>2. t \in Members(k.list[Comp]) /\ t \in Thread /\ k.stat[t] = "SUSPEND"
  BY <1>1, HeadIs
<1>3. u = rt_thread_resume(k, t)
  BY DEF rt_ipc_list_resume
<1> HIDE DEF u, t
<1>4. Core(u, {}) /\ CurrentOK(u) /\ Resumed(k, u, {t})
  BY <1>1, <1>2, <1>3, ResumeCore
<1>5. t \notin Members(u.list[Comp])
  <2>1. u.stat[t] # "SUSPEND"
    BY <1>4 DEF Resumed, Runnable
  <2> QED BY <1>1, <1>4, <2>1, NotSuspended
<1>6. Members(u.list[Comp]) \subseteq Members(k.list[Comp])
  BY <1>1, <1>4 DEF Resumed
<1>7. \A x \in Members(k.list[Comp]) : x = t
  BY <1>2 DEF CompInv, OneListed
<1>8. Members(u.list[Comp]) = {}
  BY <1>5, <1>6, <1>7
<1>9. u.list[Comp] = << >>
  <2>1. u.list[Comp] \in Seq(Thread)
    BY <1>1, <1>4 DEF Core, KernelType, Head_
  <2> QED BY <1>8, <2>1, EmptyMembers
<1> QED BY <1>2, <1>4, <1>9 DEF u, t

-----------------------------------------------------------------------------
(***************************************************************************)
(* The steps.                                                              *)
(***************************************************************************)
\* The scheduler, the thread API and the tick interrupt.
LEMMA CompKernelStep ==
  ASSUME Polite, CompInv, Next, UNCHANGED <<obj, done>>
  PROVE  CompInv'
<1>1. ObjInv /\ ObjInv' /\ Comp \in Queue /\ IpcInv
  BY NextObjInv, CompletionAssumption DEF CompInv, ObjInv
<1>2. Eases(Comp)
  BY <1>1, NextCalls DEF Eases
<1>3. \A x \in Thread : Unmoved(x)
  BY <1>1, NextIpcInv
<1>4. NoEntry
  BY <1>3, LabelsApart DEF NoEntry, InWait, Unmoved
<1> QED BY <1>1, <1>2, <1>4, EasedCompInv

\* The call of rt_schedule in rt_completion_wait.
LEMMA CompScheduleStep ==
  ASSUME CompInv, NEW c \in Thread, BlockSchedule(c), UNCHANGED done
  PROVE  CompInv'
<1>1. ObjInv /\ ObjInv' /\ Comp \in Queue
  BY BlockScheduleObjInv, CompletionAssumption DEF CompInv
<1>2. Eases(Comp)
  BY <1>1, BlockScheduleCalls DEF Eases
<1>3. NoEntry
  <2>1. pc[c].at = "ipc_sched" /\ pc' = [pc EXCEPT ![c] = At("ipc_end", pc[c].arg)]
    BY DEF BlockSchedule, Executes, Goto
  <2>2. pc = [x \in Thread |-> pc[x]]
    BY <1>1 DEF ObjInv, IpcInv, IInv, StateOK
  <2>3. /\ pc'[c].arg = pc[c].arg /\ InWait(c)
        /\ \A x \in Thread \ {c} : pc'[x] = pc[x]
    BY <2>1, <2>2 DEF At, InWait, WaitLabels
  <2> QED BY <2>3 DEF NoEntry, InWait
<1> QED BY <1>1, <1>2, <1>3, EasedCompInv

\* The call returns.
LEMMA WaitEndStep ==
  ASSUME CompInv, NEW c \in Thread, WaitEnd(c)
  PROVE  CompInv'
<1>1. BlockEnd(c) /\ pc[c].at = "ipc_end" /\ done' = Cleaned(c) /\ k' = k
      /\ pc' = [pc EXCEPT ![c] = At("run", c)]
  BY DEF WaitEnd, BlockEnd, Executes, Return, Goto
<1>2. ObjInv /\ ObjInv'
  BY <1>1, BlockEndObjInv DEF CompInv
<1>3. "run" \notin WaitLabels
  BY DEF WaitLabels
<1>4. NoEntry
  BY <1>1, <1>2, <1>3, GotoNoEntry
<1>5. /\ CallOf(Comp, k', pc', c) = "none"
      /\ \A x \in Thread \ {c} : CallOf(Comp, k', pc', x) = CallOf(Comp, k, pc, x)
  BY <1>1, <1>2, <1>3, MovedCalls
<1>6. <<c, "wait">> \in Uses
  BY <1>1 DEF CompInv, WaitCalls, InWait, WaitLabels
<1> QED BY <1>1, <1>2, <1>4, <1>5, <1>6, ReturnCompInv

\* rt_completion_wait returns at once when the flag is set, whoever is still on
\* the way out, or blocks while it is clear and nobody is listed.
LEMMA WaitStep ==
  ASSUME Polite, CompInv, NEW c \in Thread, NEW time \in WaitTime,
         rt_completion_wait(c, time)
  PROVE  CompInv'
<1>1. /\ Asks(c, "wait", Comp) /\ Comp \in Queue /\ time \in Nat \cup {-1}
      /\ UNCHANGED <<isr, obj>> /\ ObjInv /\ IpcInv /\ <<c, "wait">> \in Uses
  BY CompletionAssumption, IpcAssumption DEF rt_completion_wait, CompInv, ObjInv, Asks
<1>2. pc[c].at \in Label /\ k.stat[c] = "RUNNING" /\ Core(k, {}) /\ CurrentOK(k)
  BY <1>1, AsksFacts DEF IpcInv, IInv
<1>3. CASE done.flag /\ done' = Cleaned(c) /\ UNCHANGED <<k, pc>>
  <2>1. ObjInv'
    BY <1>1, <1>3, UnchangedObjInv DEF ipcVars
  <2>2. NoEntry
    BY <1>3 DEF NoEntry, InWait
  <2>3. /\ CallOf(Comp, k', pc', c) = "none"
        /\ \A x \in Thread \ {c} : CallOf(Comp, k', pc', x) = CallOf(Comp, k, pc, x)
    BY <1>2, <1>3, LabelsApart, NoCall
  <2> QED BY <1>1, <1>3, <2>1, <2>2, <2>3, ReturnCompInv
<1>4. CASE /\ ~ done.flag /\ k.list[Comp] = << >> /\ UNCHANGED done
           /\ k' = Block(k, Comp, c, time) /\ Goto(c, "ipc_sched", Comp)
  <2>1. pc' = [pc EXCEPT ![c] = At("ipc_sched", Comp)]
    BY <1>4 DEF Goto
  <2>2. Core(k', {}) /\ CurrentOK(k') /\ Blocks(k, k', Comp, c)
    BY <1>1, <1>2, <1>4, BlockCore
  <2>3. ObjInv'
    BY <1>1, <2>1, <2>2, BlockObjInv
  <2>4. pc = [x \in Thread |-> pc[x]]
    BY <1>1 DEF IpcInv, IInv, StateOK
  <2>5. pc'[c].arg = Comp /\ \A x \in Thread \ {c} : pc'[x] = pc[x]
    BY <2>1, <2>4 DEF At
  <2>6. WaitCalls'
    BY <1>1, <2>5 DEF CompInv, WaitCalls, InWait
  <2>7. OneListed'
    <3>1. \A x \in Members(k'.list[Comp]) : x \in Thread
      BY <1>1, <2>2, MembersAre
    <3>2. \A x \in Thread \ {c} : x \notin Members(k'.list[Comp])
      BY <1>1, <1>4, <2>2 DEF Blocks, Stands, Members
    <3> QED BY <3>1, <3>2 DEF OneListed
  <2>8. \A t \in Thread : CallOf(Comp, k', pc', t) = "granted" =>
                          CallOf(Comp, k, pc, t) = "granted"
    <3>1. OneCall(Comp, {"none"}, "waiting")
      BY <1>1, <1>2, <2>1, <2>2, BlockCalls
    <3> QED BY <3>1 DEF OneCall
  <2> QED BY <1>4, <2>3, <2>6, <2>7, <2>8 DEF CompInv
<1> QED BY <1>3, <1>4 DEF rt_completion_wait

\* rt_completion_done has found the flag clear.
LEMMA DoneTestStep ==
  ASSUME Polite, CompInv, NEW c \in Thread, rt_completion_done(c)
  PROVE  CompInv'
<1>1. /\ Asks(c, "done", Comp) /\ Comp \in Queue /\ UNCHANGED <<k, isr, obj, done>>
      /\ pc' = [pc EXCEPT ![c] = At("comp_done", Comp)] /\ ObjInv /\ IpcInv
  BY CompletionAssumption DEF rt_completion_done, Goto, CompInv, ObjInv
<1>2. c = k.current /\ k.stat[c] = "RUNNING" /\ c # Idle /\ pc[c].at \in Label
  BY <1>1, AsksFacts
<1>3. /\ "comp_done" \notin Label /\ "comp_done" \notin HoldLabels
      /\ "comp_done" \notin WaitLabels /\ LabelOK(c, "comp_done", Comp)
  BY <1>2 DEF Label, HoldLabels, LabelOK, RacyLabels, WaitLabels
<1>4. IpcInv'
  BY <1>1, <1>2, <1>3, SameIpcInv
<1>5. Attached'
  BY <1>1, GotoAttached
<1>6. ObjInv'
  BY <1>1, <1>4, <1>5, ShrinkObjInv
<1>7. NoEntry
  BY <1>1, <1>3, GotoNoEntry
<1>8. Eases(Comp)
  <2>1. /\ CallOf(Comp, k', pc', c) = "none"
        /\ \A x \in Thread \ {c} : CallOf(Comp, k', pc', x) = CallOf(Comp, k, pc, x)
    BY <1>1, <1>3, MovedCalls
  <2>2. CallOf(Comp, k, pc, c) = "none"
    BY <1>2, LabelsApart, NoCall
  <2> QED BY <2>1, <2>2 DEF Eases, SameCalls
<1> QED BY <1>1, <1>6, <1>7, <1>8, EasedCompInv

\* Its critical section, which other steps may have come before.
LEMMA CompleteStep ==
  ASSUME CompInv, NEW c \in Thread, Complete(c)
  PROVE  CompInv'
<1>1. /\ Executes(c, "comp_done") /\ done' = Completed /\ UNCHANGED <<isr, obj>>
      /\ ObjInv /\ IpcInv /\ Comp \in Queue
  BY CompletionAssumption DEF Complete, CompInv, ObjInv
<1>2. c = k.current /\ k.stat[c] = "RUNNING" /\ c # Idle
  BY <1>1, IpcExecutes DEF Label
<1>3. \A l \in {"run", "sched"} : l \in Label /\ l \notin HoldLabels /\ LabelOK(c, l, c)
                                  /\ l # "suspend_body" /\ l \notin WaitLabels
  BY <1>2 DEF Label, HoldLabels, LabelOK, RacyLabels, WaitLabels
<1>4. CASE k.list[Comp] = << >>
  <2>1. k' = k /\ pc' = [pc EXCEPT ![c] = At("run", c)]
    BY <1>4 DEF Complete, Return, Goto
  <2>2. IpcInv'
    BY <1>1, <1>2, <1>3, <2>1, SameIpcInv
  <2>3. Attached' /\ NoEntry
    BY <1>1, <1>3, <2>1, GotoAttached, GotoNoEntry
  <2>4. ObjInv'
    BY <1>1, <2>1, <2>2, <2>3, ShrinkObjInv
  <2> QED BY <1>1, <1>4, <2>1, <2>3, <2>4, DoneCompInv
<1>5. CASE k.list[Comp] # << >>
  <2> DEFINE t == Head(k.list[Comp])
  <2>1. k' = rt_ipc_list_resume(k, Comp) /\ pc' = [pc EXCEPT ![c] = At("sched", c)]
    BY <1>5 DEF Complete, Goto
  <2>2. /\ Core(k', {}) /\ CurrentOK(k') /\ Resumed(k, k', {t})
        /\ {t} \in SUBSET Members(k.list[Comp]) /\ k'.list[Comp] = << >>
    BY <1>5, <2>1, DoneResumes
  <2> HIDE DEF t
  <2>3. IpcInv'
    BY <1>1, <1>2, <1>3, <2>1, <2>2, ResumedIpcInv
  <2>4. Attached' /\ NoEntry
    BY <1>1, <1>3, <2>1, GotoAttached, GotoNoEntry
  <2>5. \A q \in Queue : Members(k'.list[q]) \subseteq Members(k.list[q])
    BY <2>2 DEF Resumed
  <2>6. ObjInv'
    BY <1>1, <2>3, <2>4, <2>5, ShrinkObjInv
  <2> QED BY <1>1, <2>2, <2>4, <2>6, DoneCompInv
<1> QED BY <1>4, <1>5

\* rt_completion_done in an interrupt handler.
LEMMA IsrDoneStep ==
  ASSUME CompInv, IsrDone
  PROVE  CompInv'
<1>1. /\ done' = Completed /\ UNCHANGED <<isr, obj, pc>>
      /\ ObjInv /\ IpcInv /\ Comp \in Queue
  BY CompletionAssumption DEF IsrDone, CompInv, ObjInv
<1>2. NoEntry
  BY <1>1 DEF NoEntry, InWait
<1>3. CASE k.list[Comp] = << >>
  <2>1. k' = k
    BY <1>3 DEF IsrDone
  <2>2. ObjInv'
    BY <1>1, <2>1, UnchangedObjInv DEF ipcVars
  <2> QED BY <1>1, <1>2, <1>3, <2>1, <2>2, DoneCompInv
<1>4. CASE k.list[Comp] # << >>
  <2> DEFINE t == Head(k.list[Comp])
             u == rt_ipc_list_resume(k, Comp)
  <2>1. k' = rt_schedule(u)
    BY <1>4 DEF IsrDone
  <2>2. /\ Core(u, {}) /\ CurrentOK(u) /\ Resumed(k, u, {t})
        /\ {t} \in SUBSET Members(k.list[Comp]) /\ u.list[Comp] = << >>
    BY <1>4, DoneResumes
  <2> HIDE DEF t, u
  <2>3. IpcInv' /\ Steady(u, k', {})
    BY <1>1, <2>1, <2>2, IsrIpcInv
  <2>4. \A q \in Queue : Members(k'.list[q]) \subseteq Members(k.list[q])
    BY <2>2, <2>3 DEF Resumed, Steady
  <2>5. Attached'
    BY <1>1 DEF ObjInv, Attached
  <2>6. ObjInv'
    BY <1>1, <2>3, <2>4, <2>5, ShrinkObjInv
  <2>7. k'.list[Comp] = << >>
    <3>1. Core(k', {}) /\ Members(k'.list[Comp]) \subseteq Members(u.list[Comp])
      BY <1>1, <2>3 DEF Steady, IpcInv, IInv
    <3> QED BY <1>1, <2>2, <3>1, StaysEmpty
  <2> QED BY <1>1, <1>2, <2>6, <2>7, DoneCompInv
<1> QED BY <1>3, <1>4

\* rt_completion_init, while nobody waits.
LEMMA CompInitStep ==
  ASSUME CompInv, NEW c \in Thread, rt_completion_init(c)
  PROVE  CompInv'
<1>1. Inside(Comp) = {} /\ done' = NotDone /\ UNCHANGED <<k, isr, obj, pc>>
  BY DEF rt_completion_init
<1>2. ObjInv'
  BY <1>1, UnchangedObjInv DEF CompInv, ipcVars
<1>3. \A x \in Thread : ~ InWait(x)'
  BY <1>1 DEF CompInv, WaitCalls, InWait, Inside, WaitLabels
<1> QED BY <1>1, <1>2, <1>3, LastCompInv

\* The invariant is inductive.
LEMMA CompInvIsInductive ==
  ASSUME Polite
  PROVE  CompInv /\ [CompNext]_compVars => CompInv'
<1> SUFFICES ASSUME CompInv, [CompNext]_compVars PROVE CompInv'
  OBVIOUS
<1>1. CASE UNCHANGED compVars
  <2>1. UNCHANGED ipcVars /\ k' = k /\ pc' = pc /\ done' = done
    BY <1>1 DEF compVars, ipcVars
  <2>2. ObjInv' /\ NoEntry
    BY <2>1, UnchangedObjInv DEF CompInv, NoEntry, InWait
  <2>3. Eases(Comp)
    BY <2>1 DEF Eases, SameCalls
  <2> QED BY <2>1, <2>2, <2>3, EasedCompInv
<1>2. CASE Next /\ UNCHANGED <<obj, done>>
  BY <1>2, CompKernelStep
<1>3. ASSUME NEW c \in Thread,
             \/ BlockSchedule(c) /\ UNCHANGED done
             \/ WaitEnd(c) \/ Complete(c)
             \/ \E time \in WaitTime : rt_completion_wait(c, time)
             \/ rt_completion_done(c) \/ rt_completion_init(c)
      PROVE  CompInv'
  BY <1>3, CompScheduleStep, WaitEndStep, CompleteStep, WaitStep, DoneTestStep,
     CompInitStep
<1>4. CASE IsrDone
  BY <1>4, IsrDoneStep
<1> QED BY <1>1, <1>2, <1>3, <1>4 DEF CompNext

\* It holds at first.
LEMMA CompInitInv ==
  ASSUME IsFiniteSet(Thread)
  PROVE  CompInit => CompInv
<1> SUFFICES ASSUME CompInit PROVE CompInv
  OBVIOUS
<1>1. ObjInv /\ \A q \in Queue : k.list[q] = << >>
  BY InitObjInv DEF CompInit
<1>2. \A t \in Thread : ~ InWait(t)
  BY DEF CompInit, InitStarted, Running, At, InWait, WaitLabels
<1>3. \A t \in Thread : CallOf(Comp, k, pc, t) = "none"
  BY <1>2, NoCall DEF InWait
<1>4. done \in DoneType /\ ~ done.flag /\ done.shared = {}
  BY DEF CompInit, CompStart, NotDone, DoneType
<1> QED BY <1>1, <1>2, <1>3, <1>4, CompletionAssumption
        DEF CompInv, WaitCalls, OneListed, Members

\* A done is not used again, for any number of threads that wait and of threads
\* and interrupt handlers that call rt_completion_done, whose test of the flag
\* and critical section are two steps: nobody goes on waiting when it is done, a
\* thread that was resumed by a done finds it still there or another call has
\* met it first, and a wait that has returned leaves nothing for the next one.
THEOREM DonesAreNotReused ==
  ASSUME Polite, IsFiniteSet(Thread)
  PROVE  CompSpec => []DoneIsNotReused
<1>1. CompInv => DoneIsNotReused
  <2> SUFFICES ASSUME CompInv PROVE DoneIsNotReused
    OBVIOUS
  <2>1. \A t \in Granted(Comp) : t \in Thread /\ CallOf(Comp, k, pc, t) = "granted"
    BY CallsAre
  <2> QED BY <2>1 DEF CompInv, DoneIsNotReused
<1> QED BY <1>1, CompInitInv, CompInvIsInductive, PTL DEF CompSpec

\* If only one thread ever waits, a done ends one wait: the thread it resumes
\* finds it still there when it returns.
THEOREM DoneEndsTheWait ==
  ASSUME Polite, IsFiniteSet(Thread), SingleWaiter
  PROVE  CompSpec => [](Granted(Comp) # {} => done.flag)
<1>1. CompInv => (Granted(Comp) # {} => done.flag)
  <2> SUFFICES ASSUME CompInv, NEW t \in Granted(Comp) PROVE done.flag
    OBVIOUS
  <2>1. t \in Thread /\ CallOf(Comp, k, pc, t) = "granted"
    BY CallsAre
  <2> QED BY <2>1 DEF CompInv
<1> QED BY <1>1, CompInitInv, CompInvIsInductive, PTL DEF CompSpec

-----------------------------------------------------------------------------
(***************************************************************************)
(* The event set.  A send goes over the waiters it found; the set from     *)
(* which it serves them only shrinks, so a waiter that was passed over is  *)
(* not satisfied by what is left when the last one has been tested.        *)
(***************************************************************************)
EvInv ==
  /\ ObjInv
  /\ set \in SUBSET Bit /\ want \in [Thread -> RequestType]
  /\ \A t \in Members(k.list[Ev]) : ~ Satisfied(set, want[t])

\* A smaller set satisfies fewer requests.
LEMMA SatisfiedMono ==
  ASSUME NEW a, NEW b \in SUBSET a, NEW r, ~ Satisfied(a, r)
  PROVE  ~ Satisfied(b, r)
BY DEF Satisfied

\* A step in which nobody begins to wait and no event is added.
LEMMA ShrinkEvInv ==
  ASSUME EvInv, ObjInv', set' \in SUBSET set, want' \in [Thread -> RequestType],
         Members(k'.list[Ev]) \subseteq Members(k.list[Ev]),
         \A x \in Members(k'.list[Ev]) : want'[x] = want[x]
  PROVE  EvInv'
<1>1. \A x \in Members(k'.list[Ev]) : ~ Satisfied(set', want'[x])
  BY SatisfiedMono DEF EvInv
<1> QED BY <1>1 DEF EvInv

\* What serving a thread whose request is satisfied does.
LEMMA ServeIs ==
  ASSUME NEW e, NEW t \in Thread, e.want \in [Thread -> RequestType],
         Satisfied(e.set, e.want[t])
  PROVE  LET v == Serve(e, t)
             r == e.want[t]
         IN  /\ v.k = rt_thread_resume(e.k, t) /\ v.set \in SUBSET e.set
             /\ v.want \in [Thread -> RequestType]
             /\ \A x \in Thread \ {t} : v.want[x] = e.want[x]
             /\ Satisfied(v.want[t].bits, r) /\ v.want[t].bits \subseteq r.bits
             /\ v.want[t].bits \subseteq e.set
             /\ v.set = IF r.clear THEN e.set \ v.want[t].bits ELSE e.set
<1> DEFINE r == e.want[t]
           got == IF r.all THEN r.bits ELSE r.bits \cap e.set
           f == [r EXCEPT !.bits = got]
           w == [e.want EXCEPT ![t] = f]
           z == IF r.clear THEN e.set \ got ELSE e.set
           v == Serve(e, t)
<1>1. r \in RequestType
  OBVIOUS
<1>2. v = [k |-> rt_thread_resume(e.k, t), set |-> z, want |-> w]
  BY DEF Serve
<1>3. got \subseteq r.bits /\ got \subseteq e.set /\ Satisfied(got, r)
  BY DEF Satisfied
<1> HIDE DEF got
<1>4. f \in RequestType /\ f.bits = got
  BY <1>1, <1>3 DEF RequestType
<1> HIDE DEF f
<1>5. w \in [Thread -> RequestType] /\ w[t] = f /\ \A x \in Thread \ {t} : w[x] = e.want[x]
  BY <1>4
<1> HIDE DEF w
<1>6. z \in SUBSET e.set /\ z = IF r.clear THEN e.set \ got ELSE e.set
  OBVIOUS
<1> HIDE DEF z
<1>7. v.k = rt_thread_resume(e.k, t) /\ v.set = z /\ v.want = w
  BY <1>2
<1> QED BY <1>3, <1>4, <1>5, <1>6, <1>7

\* Without it, nothing.
LEMMA ServeNot ==
  ASSUME NEW e, NEW t, ~ Satisfied(e.set, e.want[t])
  PROVE  Serve(e, t) = e
BY DEF Serve

\* The waiters a send has resumed when its state is e.
Gone(e) == Members(k.list[Ev]) \ Members(e.k.list[Ev])

\* The events they have cleared, and that nothing else has left the set.
ClearedBy(e) == UNION {e.want[x].bits : x \in {y \in Gone(e) : want[y].clear}}

Takes(e, bits) == e.set = (set \cup bits) \ ClearedBy(e)

\* What a resumed waiter has received, and that no event went to two of them
\* that clear it.
Handed(e) ==
  /\ \A x \in Gone(e) :
       /\ Satisfied(e.want[x].bits, want[x]) /\ e.want[x].bits \subseteq want[x].bits
       /\ want[x].clear => e.want[x].bits \cap e.set = {}
  /\ \A x, y \in Gone(e) :
       x # y /\ want[x].clear /\ want[y].clear => e.want[x].bits \cap e.want[y].bits = {}

\* After n rounds of a send: the first n waiters have been tested, the others
\* still wait.
Passed(e, n, bits) ==
  /\ Core(e.k, {}) /\ CurrentOK(e.k) /\ e.k.err = k.err
  /\ Resumed(k, e.k, Gone(e))
  /\ e.set \in SUBSET Bit /\ e.want \in [Thread -> RequestType]
  /\ \A i \in DOMAIN k.list[Ev] : i > n => k.list[Ev][i] \in Members(e.k.list[Ev])
  /\ \A i \in DOMAIN k.list[Ev] :
       i <= n /\ k.list[Ev][i] \in Members(e.k.list[Ev]) =>
         ~ Satisfied(e.set, want[k.list[Ev][i]])
  /\ \A x \in Thread \ Gone(e) : e.want[x] = want[x]
  /\ Handed(e) /\ Takes(e, bits)

\* One more round.
LEMMA PassedNext ==
  ASSUME EvInv, NEW e, NEW bits, NEW n \in Nat, n + 1 \in DOMAIN k.list[Ev],
         Passed(e, n, bits)
  PROVE  Passed(Serve(e, k.list[Ev][n + 1]), n + 1, bits)
<1> DEFINE L == k.list[Ev]
           t == L[n + 1]
           v == Serve(e, t)
<1>1. Core(k, {}) /\ Ev \in Queue /\ Ev \in Head_ /\ k.list[Ev] \in Seq(Thread)
      /\ Injective(k.list[Ev])
  BY EventAssumption DEF EvInv, ObjInv, IpcInv, IInv, Core, KernelType, Head_
<1>2. L \in Seq(Thread) /\ DOMAIN L = 1 .. Len(L) /\ Len(L) \in Nat
      /\ \A i, j \in DOMAIN L : L[i] = L[j] => i = j
  BY <1>1 DEF Injective
<1>3. t \in Thread /\ t \in Members(k.list[Ev]) /\ n + 1 \in DOMAIN L
  BY <1>2 DEF Members
<1>4. /\ Core(e.k, {}) /\ CurrentOK(e.k) /\ e.k.err = k.err
      /\ Resumed(k, e.k, Gone(e))
      /\ e.set \in SUBSET Bit /\ e.want \in [Thread -> RequestType]
      /\ \A i \in DOMAIN L : i > n => L[i] \in Members(e.k.list[Ev])
      /\ \A i \in DOMAIN L :
           i <= n /\ L[i] \in Members(e.k.list[Ev]) => ~ Satisfied(e.set, want[L[i]])
      /\ \A x \in Thread \ Gone(e) : e.want[x] = want[x]
      /\ Handed(e) /\ Takes(e, bits)
  BY DEF Passed
<1>5. t \in Members(e.k.list[Ev]) /\ t \notin Gone(e) /\ e.want[t] = want[t]
  <2>1. n + 1 > n
    OBVIOUS
  <2> QED BY <1>3, <1>4, <2>1 DEF Gone
<1> HIDE DEF L, t
<1>6. CASE ~ Satisfied(e.set, e.want[t])
  <2>1. v = e
    BY <1>6, ServeNot
  <2>2. \A i \in DOMAIN L : i > n + 1 => L[i] \in Members(v.k.list[Ev])
    BY <1>2, <1>4, <2>1
  <2>3. ASSUME NEW i \in DOMAIN L, i <= n + 1, L[i] \in Members(v.k.list[Ev])
        PROVE  ~ Satisfied(v.set, want[L[i]])
    <3>1. i <= n \/ i = n + 1
      BY <1>2, <2>3
    <3> QED BY <1>4, <1>5, <1>6, <2>1, <2>3, <3>1 DEF t
  <2> QED BY <1>4, <2>1, <2>2, <2>3 DEF Passed, L, t
<1>7. CASE Satisfied(e.set, e.want[t])
  <2>1. /\ v.k = rt_thread_resume(e.k, t) /\ v.set \in SUBSET e.set
        /\ v.want \in [Thread -> RequestType]
        /\ \A x \in Thread \ {t} : v.want[x] = e.want[x]
        /\ Satisfied(v.want[t].bits, want[t]) /\ v.want[t].bits \subseteq want[t].bits
        /\ v.want[t].bits \subseteq e.set
        /\ v.set = IF want[t].clear THEN e.set \ v.want[t].bits ELSE e.set
    <3>1. t \in Thread /\ e.want \in [Thread -> RequestType] /\ Satisfied(e.set, e.want[t])
      BY <1>3, <1>4, <1>7
    <3>2. /\ v.k = rt_thread_resume(e.k, t) /\ v.set \in SUBSET e.set
          /\ v.want \in [Thread -> RequestType]
          /\ \A x \in Thread \ {t} : v.want[x] = e.want[x]
          /\ Satisfied(v.want[t].bits, e.want[t])
          /\ v.want[t].bits \subseteq e.want[t].bits
          /\ v.want[t].bits \subseteq e.set
          /\ v.set = IF e.want[t].clear THEN e.set \ v.want[t].bits ELSE e.set
      BY <3>1, ServeIs
    <3> HIDE DEF v
    <3> QED BY <1>5, <3>2
  <2> HIDE DEF v
  <2>2. e.k.stat[t] = "SUSPEND"
    BY <1>1, <1>4, <1>5, MembersAre
  <2>3. /\ Core(v.k, {}) /\ CurrentOK(v.k) /\ Resumed(e.k, v.k, {t})
        /\ v.k.err = e.k.err /\ v.k.list[Ev] = Drop(e.k.list[Ev], t)
    <3> DEFINE u == rt_thread_resume(e.k, t)
    <3>1. /\ Core(u, {}) /\ CurrentOK(u) /\ Resumed(e.k, u, {t}) /\ u.err = e.k.err
          /\ \A q \in Queue : u.list[q] = Drop(e.k.list[q], t)
      BY <1>3, <1>4, <2>2, ResumeCore
    <3> HIDE DEF u
    <3> QED BY <1>1, <2>1, <3>1 DEF u
  <2>4. Members(v.k.list[Ev]) = Members(e.k.list[Ev]) \ {t}
    <3>1. e.k.list[Ev] \in Seq(Thread) /\ Injective(e.k.list[Ev])
      BY <1>1, <1>4 DEF Core, KernelType
    <3> QED BY <2>3, <3>1, DropFacts
  <2>5. Gone(v) = Gone(e) \cup {t} /\ Gone(e) \in SUBSET Thread
    <3>1. Members(k.list[Ev]) \subseteq Thread
      BY <1>1 DEF Members
    <3> QED BY <1>3, <2>4, <3>1 DEF Gone
  <2>6. Resumed(k, v.k, Gone(v))
    <3>1. \A x \in Gone(v) : v.k.stat[x] \in Runnable
      BY <1>4, <1>5, <2>3, <2>5 DEF Resumed, Stands
    <3>2. \A x \in Thread \ Gone(v) : Stands(k, v.k, x)
      BY <1>4, <2>3, <2>5, StandsTrans DEF Resumed
    <3>3. \A h \in Queue \cup {Defunct} :
            Members(v.k.list[h]) \subseteq Members(k.list[h])
      BY <1>4, <2>3 DEF Resumed
    <3> QED BY <1>4, <2>3, <3>1, <3>2, <3>3 DEF Resumed
  <2>7. ASSUME NEW i \in DOMAIN L, i > n + 1 PROVE L[i] \in Members(v.k.list[Ev])
    <3>1. i > n /\ i # n + 1
      BY <1>2, <2>7
    <3>2. L[i] # t
      BY <1>2, <1>3, <3>1 DEF t
    <3> QED BY <1>4, <2>4, <3>1, <3>2
  <2>8. ASSUME NEW i \in DOMAIN L, i <= n + 1, L[i] \in Members(v.k.list[Ev])
        PROVE  ~ Satisfied(v.set, want[L[i]])
    <3>1. L[i] \in Members(e.k.list[Ev]) /\ L[i] # t
      BY <2>4, <2>8
    <3>2. i # n + 1
      BY <3>1 DEF t
    <3>3. i <= n
      BY <1>2, <2>8, <3>2
    <3>4. ~ Satisfied(e.set, want[L[i]])
      BY <1>4, <3>1, <3>3
    <3> QED BY <2>1, <3>4, SatisfiedMono
  <2>9. \A x \in Thread \ Gone(v) : v.want[x] = want[x]
    BY <1>4, <2>1, <2>5
  <2>10. Handed(v)
    <3>1. ASSUME NEW x \in Gone(v)
          PROVE  /\ Satisfied(v.want[x].bits, want[x])
                 /\ v.want[x].bits \subseteq want[x].bits
                 /\ want[x].clear => v.want[x].bits \cap v.set = {}
      <4>1. CASE x = t
        BY <2>1, <4>1
      <4>2. CASE x # t
        <5>1. x \in Gone(e) /\ v.want[x] = e.want[x]
          BY <2>1, <2>5, <4>2
        <5> QED BY <1>4, <2>1, <5>1 DEF Handed
      <4> QED BY <4>1, <4>2
    <3>2. ASSUME NEW x \in Gone(e), want[x].clear
          PROVE  v.want[x].bits \cap v.want[t].bits = {}
      <4>1. v.want[x] = e.want[x]
        BY <1>5, <2>1, <2>5
      <4>2. e.want[x].bits \cap e.set = {}
        BY <1>4, <3>2 DEF Handed
      <4> QED BY <2>1, <4>1, <4>2
    <3>3. ASSUME NEW x \in Gone(v), NEW y \in Gone(v), x # y, want[x].clear, want[y].clear
          PROVE  v.want[x].bits \cap v.want[y].bits = {}
      <4>1. CASE x = t
        <5>1. y \in Gone(e)
          BY <2>5, <3>3, <4>1
        <5>2. v.want[y].bits \cap v.want[t].bits = {}
          BY <3>2, <3>3, <5>1
        <5> QED BY <4>1, <5>2
      <4>2. CASE y = t
        <5>1. x \in Gone(e)
          BY <2>5, <3>3, <4>2
        <5> QED BY <3>2, <3>3, <4>2, <5>1
      <4>3. CASE x # t /\ y # t
        <5>1. x \in Gone(e) /\ y \in Gone(e)
          BY <2>5, <4>3
        <5>2. v.want[x] = e.want[x] /\ v.want[y] = e.want[y]
          BY <2>1, <2>5, <4>3, <5>1
        <5>3. e.want[x].bits \cap e.want[y].bits = {}
          BY <1>4, <3>3, <5>1 DEF Handed
        <5> QED BY <5>2, <5>3
      <4> QED BY <4>1, <4>2, <4>3
    <3> QED BY <3>1, <3>3 DEF Handed
  <2>11. v.set \in SUBSET Bit /\ v.k.err = k.err
    BY <1>4, <2>1, <2>3
  <2>12. Takes(v, bits)
    <3> DEFINE C == {y \in Gone(e) : want[y].clear}
    <3>1. {y \in Gone(v) : want[y].clear} = IF want[t].clear THEN C \cup {t} ELSE C
      BY <2>5
    <3>2. \A x \in C : v.want[x] = e.want[x]
      BY <1>5, <2>1, <2>5
    <3>3. UNION {v.want[x].bits : x \in C} = UNION {e.want[x].bits : x \in C}
      BY <3>2
    <3>4. UNION {v.want[x].bits : x \in C \cup {t}} =
            v.want[t].bits \cup UNION {v.want[x].bits : x \in C}
      OBVIOUS
    <3>5. e.set = (set \cup bits) \ UNION {e.want[x].bits : x \in C}
      BY <1>4 DEF Takes, ClearedBy
    <3> HIDE DEF C
    <3>6. CASE want[t].clear
      <4>1. ClearedBy(v) = v.want[t].bits \cup UNION {e.want[x].bits : x \in C}
        BY <3>1, <3>3, <3>4, <3>6 DEF ClearedBy
      <4> QED BY <2>1, <3>5, <3>6, <4>1 DEF Takes
    <3>7. CASE ~ want[t].clear
      <4>1. ClearedBy(v) = UNION {e.want[x].bits : x \in C}
        BY <3>1, <3>3, <3>7 DEF ClearedBy
      <4> QED BY <2>1, <3>5, <3>7, <4>1 DEF Takes
    <3> QED BY <3>6, <3>7
  <2>13. Passed(v, n + 1, bits)
    BY <2>1, <2>3, <2>6, <2>7, <2>8, <2>9, <2>10, <2>11, <2>12 DEF Passed, L
  <2> QED BY <2>13 DEF v, t, L
<1> QED BY <1>6, <1>7

\* The rounds of a send, and that there is such a function for any number.
Start(bits) == [k |-> k, set |-> set \cup bits, want |-> want]

SendRounds(g, bits, n) ==
  g = [m \in 0 .. n |-> IF m = 0 THEN Start(bits) ELSE Serve(g[m - 1], k.list[Ev][m])]

LEMMA SendRoundsExist ==
  ASSUME NEW bits, NEW n \in Nat
  PROVE  \E g : SendRounds(g, bits, n)
<1> DEFINE Bad == {m \in Nat : ~ \E g : SendRounds(g, bits, m)}
<1>1. SUFFICES ASSUME Bad # {} PROVE FALSE
  OBVIOUS
<1>2. PICK m \in Bad : \A i \in Bad : m <= i
  <2>1. Bad \in SUBSET Nat
    OBVIOUS
  <2> HIDE DEF Bad
  <2> QED BY <1>1, <2>1, SmallestExists
<1>3. m \in Nat /\ ~ \E g : SendRounds(g, bits, m)
  OBVIOUS
<1>4. CASE m = 0
  <2> DEFINE g == [i \in 0 .. 0 |-> Start(bits)]
  <2>1. g = [i \in 0 .. 0 |-> IF i = 0 THEN Start(bits)
                              ELSE Serve(g[i - 1], k.list[Ev][i])]
    OBVIOUS
  <2> QED BY <1>3, <1>4, <2>1 DEF SendRounds
<1>5. CASE m # 0
  <2>1. m - 1 \in Nat /\ m - 1 \notin Bad
    <3> HIDE DEF Bad
    <3> QED BY <1>2, <1>3, <1>5
  <2>2. PICK f : SendRounds(f, bits, m - 1)
    BY <2>1
  <2> DEFINE g == [i \in 0 .. m |-> IF i = 0 THEN Start(bits)
                                    ELSE Serve(f[i - 1], k.list[Ev][i])]
  <2>3. \A i \in 0 .. m - 1 : g[i] = f[i]
    <3>1. \A i \in 0 .. m - 1 : i \in 0 .. m
      BY <1>3
    <3> QED BY <2>2, <3>1 DEF SendRounds
  <2>4. ASSUME NEW i \in 0 .. m, i # 0 PROVE g[i - 1] = f[i - 1]
    <3>1. i - 1 \in 0 .. m - 1
      BY <1>3, <2>4
    <3> QED BY <2>3, <3>1
  <2>5. g = [i \in 0 .. m |-> IF i = 0 THEN Start(bits)
                              ELSE Serve(g[i - 1], k.list[Ev][i])]
    BY <2>4
  <2> HIDE DEF g
  <2> QED BY <1>3, <2>5 DEF SendRounds
<1> QED BY <1>4, <1>5

\* The critical section of rt_event_send has tested every waiter.
LEMMA EventPutPassed ==
  ASSUME EvInv, NEW bits \in SUBSET Bit
  PROVE  Passed(EventPut(bits), Len(k.list[Ev]), bits)
<1> DEFINE L == Len(k.list[Ev])
           g == CHOOSE f : SendRounds(f, bits, L)
           u == EventPut(bits)
<1>1. /\ Core(k, {}) /\ CurrentOK(k) /\ L \in Nat /\ DOMAIN k.list[Ev] = 1 .. L
  <2>1. Core(k, {}) /\ CurrentOK(k) /\ k.list[Ev] \in Seq(Thread)
    BY EventAssumption DEF EvInv, ObjInv, IpcInv, IInv, Core, KernelType, Head_
  <2> QED BY <2>1
<1>2. u = g[L]
  BY DEF EventPut, SendRounds, Start
<1> HIDE DEF L, u
<1>3. SendRounds(g, bits, L)
  BY <1>1, SendRoundsExist
<1> HIDE DEF g
<1> DEFINE Bad == {n \in 0 .. L : ~ Passed(g[n], n, bits)}
<1>4. Bad = {}
  <2>1. SUFFICES ASSUME Bad # {} PROVE FALSE
    OBVIOUS
  <2>2. PICK n \in Bad : \A i \in Bad : n <= i
    <3>1. Bad \in SUBSET Nat
      BY <1>1
    <3> HIDE DEF Bad
    <3> QED BY <2>1, <3>1, SmallestExists
  <2>3. n \in 0 .. L /\ ~ Passed(g[n], n, bits) /\ n \in Nat
    BY <1>1, <2>2
  <2>4. g[n] = IF n = 0 THEN Start(bits) ELSE Serve(g[n - 1], k.list[Ev][n])
    BY <1>3, <2>3 DEF SendRounds
  <2>5. CASE n = 0
    <3> DEFINE e == Start(bits)
    <3>1. e.k = k /\ e.set = set \cup bits /\ e.want = want
      BY DEF Start
    <3> HIDE DEF e
    <3>2. Gone(e) = {}
      BY <3>1 DEF Gone
    <3>3. Resumed(k, e.k, {})
      BY <3>1 DEF Resumed, Stands
    <3>4. /\ \A i \in DOMAIN k.list[Ev] : k.list[Ev][i] \in Members(e.k.list[Ev])
          /\ \A i \in DOMAIN k.list[Ev] : ~ (i <= 0)
      BY <1>1, <3>1 DEF Members
    <3>5. Handed(e) /\ Takes(e, bits)
      BY <3>1, <3>2 DEF Handed, Takes, ClearedBy
    <3>6. e.set \in SUBSET Bit /\ e.want \in [Thread -> RequestType]
      BY <3>1 DEF EvInv
    <3>7. Passed(e, 0, bits)
      BY <1>1, <3>1, <3>2, <3>3, <3>4, <3>5, <3>6 DEF Passed
    <3> QED BY <2>3, <2>4, <2>5, <3>7 DEF e
  <2>6. CASE n # 0
    <3> DEFINE m == n - 1
    <3>1. m \in 0 .. L /\ m \in Nat /\ n = m + 1 /\ m + 1 \in DOMAIN k.list[Ev] /\ m \notin Bad
      <4>1. m \in 0 .. L /\ m \in Nat /\ n = m + 1 /\ m < n /\ m + 1 \in 1 .. L
        BY <1>1, <2>3, <2>6
      <4> HIDE DEF Bad, m
      <4> QED BY <1>1, <2>2, <2>3, <4>1
    <3>2. Passed(g[m], m, bits)
      BY <3>1
    <3>3. g[n] = Serve(g[m], k.list[Ev][n])
      BY <2>4, <2>6
    <3> HIDE DEF m, Bad
    <3>4. Passed(Serve(g[m], k.list[Ev][m + 1]), m + 1, bits)
      BY <3>1, <3>2, PassedNext
    <3> QED BY <2>3, <3>1, <3>3, <3>4
  <2> QED BY <2>5, <2>6
<1>5. Passed(u, L, bits)
  BY <1>1, <1>2, <1>4
<1> QED BY <1>5 DEF u, L

\* So nobody is left waiting for events that are there.
LEMMA EventPutFacts ==
  ASSUME EvInv, NEW bits \in SUBSET Bit
  PROVE  LET e == EventPut(bits)
         IN  /\ Core(e.k, {}) /\ CurrentOK(e.k) /\ e.k.err = k.err
             /\ Resumed(k, e.k, Gone(e)) /\ Gone(e) \in SUBSET Members(k.list[Ev])
             /\ e.set \in SUBSET Bit /\ e.want \in [Thread -> RequestType]
             /\ \A t \in Members(e.k.list[Ev]) : ~ Satisfied(e.set, e.want[t])
             /\ Handed(e) /\ Takes(e, bits)
<1> DEFINE e == EventPut(bits)
           L == k.list[Ev]
<1>1. Passed(e, Len(L), bits)
  BY EventPutPassed
<1> HIDE DEF e
<1>2. Ev \in Queue /\ L \in Seq(Thread) /\ DOMAIN L = 1 .. Len(L)
  BY EventAssumption DEF EvInv, ObjInv, IpcInv, IInv, Core, KernelType, Head_
<1>3. ASSUME NEW t \in Members(e.k.list[Ev]) PROVE ~ Satisfied(e.set, e.want[t])
  <2>1. t \in Members(L)
    BY <1>1, <1>2 DEF Passed, Resumed
  <2>2. t \notin Gone(e) /\ t \in Thread
    BY <1>2, <1>3, <2>1 DEF Gone, Members
  <2>3. e.want[t] = want[t]
    BY <1>1, <2>2 DEF Passed
  <2>4. PICK i \in DOMAIN L : L[i] = t
    BY <2>1 DEF Members
  <2>5. i <= Len(L)
    BY <1>2
  <2>6. ~ Satisfied(e.set, want[L[i]])
    BY <1>1, <1>3, <2>4, <2>5 DEF Passed
  <2> QED BY <2>3, <2>4, <2>6
<1>4. Gone(e) \in SUBSET Members(k.list[Ev])
  BY DEF Gone
<1> QED BY <1>1, <1>3, <1>4 DEF Passed, e

-----------------------------------------------------------------------------
(***************************************************************************)
(* The steps: each keeps the invariant, and the calls it grants, if any,   *)
(* are those of waiters to whom a send has handed their events; these are  *)
(* all the events that leave the set in a send.                            *)
(***************************************************************************)
GrantsOnly(X) ==
  \A t \in Thread : CallOf(Ev, k', pc', t) = "granted" =>
                    CallOf(Ev, k, pc, t) = "granted" \/ t \in X

HandsOut(X) ==
  /\ \A x \in X :
       /\ Satisfied(want'[x].bits, want[x]) /\ want'[x].bits \subseteq want[x].bits
       /\ want[x].clear => want'[x].bits \cap set' = {}
  /\ \A x, y \in X :
       x # y /\ want[x].clear /\ want[y].clear => want'[x].bits \cap want'[y].bits = {}

EvStep ==
  /\ EvInv'
  /\ \E X \in SUBSET Thread :
       /\ GrantsOnly(X) /\ HandsOut(X)
       /\ X # {} => \E bits \in SentBits : Sending(bits)

\* In a send, those who are granted get what leaves the set.
LeavesTo(bits) ==
  set' = (set \cup bits) \ UNION {want'[t].bits : t \in {x \in Served : want[x].clear}}

\* The threads whose calls a step grants.
LEMMA ServedAre ==
  Served = {t \in Thread : /\ CallOf(Ev, k', pc', t) = "granted"
                           /\ CallOf(Ev, k, pc, t) # "granted"}
<1>1. Granted(Ev) = {t \in Thread : CallOf(Ev, k, pc, t) = "granted"}
  BY CallsAre
<1>2. Granted(Ev)' = {t \in Thread : CallOf(Ev, k', pc', t) = "granted"}
  BY DEF Waiting, Granted, Inside, CallOf, WaitLabels
<1> QED BY <1>1, <1>2 DEF Served

\* A step that grants nothing.
LEMMA NothingHanded ==
  ASSUME EvInv', GrantsOnly({})
  PROVE  EvStep
<1> DEFINE X == {}
<1>1. X \in SUBSET Thread /\ HandsOut(X)
  BY DEF HandsOut
<1> QED BY <1>1 DEF EvStep

\* A step that leaves the set and the requests alone and grants nothing.
LEMMA EasedEvStep ==
  ASSUME EvInv, ObjInv', Eases(Ev), UNCHANGED <<set, want>>
  PROVE  EvStep
<1>1. ObjInv /\ Ev \in Queue
  BY EventAssumption DEF EvInv
<1>2. /\ Members(k'.list[Ev]) \subseteq Members(k.list[Ev])
      /\ \A t \in Thread : CallOf(Ev, k', pc', t) = "granted" =>
                           CallOf(Ev, k, pc, t) = "granted"
  BY <1>1, EasedCalls
<1>3. EvInv'
  BY <1>2, ShrinkEvInv DEF EvInv
<1> QED BY <1>2, <1>3, NothingHanded DEF GrantsOnly

\* The call returns: its request is forgotten.
LEMMA EventReturnStep ==
  ASSUME EvInv, NEW c \in Thread, EventReturn(c)
  PROVE  EvStep
<1>1. /\ BlockEnd(c) /\ Executes(c, "ipc_end") /\ k' = k
      /\ want' = [want EXCEPT ![c] = NoRequest] /\ set' = set
      /\ ObjInv /\ Ev \in Queue /\ Core(k, {})
  BY EventAssumption DEF EventReturn, BlockEnd, EvInv, ObjInv, IpcInv, IInv
<1>2. ObjInv' /\ Eases(Ev)
  BY <1>1, BlockEndObjInv, BlockEndCalls DEF Eases
<1>3. c \notin Members(k'.list[Ev])
  <2>1. k.stat[c] = "RUNNING"
    BY <1>1, IpcExecutes DEF Label
  <2> QED BY <1>1, <2>1, NotSuspended
<1>4. /\ want' \in [Thread -> RequestType]
      /\ \A x \in Thread \ {c} : want'[x] = want[x]
  <2>1. NoRequest \in RequestType
    BY DEF NoRequest, RequestType
  <2> QED BY <1>1, <2>1 DEF EvInv
<1>5. \A x \in Members(k'.list[Ev]) : x \in Thread
  BY <1>1, MembersAre
<1>6. EvInv'
  BY <1>1, <1>2, <1>3, <1>4, <1>5, ShrinkEvInv
<1>7. GrantsOnly({})
  BY <1>1, <1>2, EasedCalls DEF GrantsOnly
<1> QED BY <1>6, <1>7, NothingHanded

\* A send in a thread or in an interrupt handler, whose effect on the lists is
\* that of EventPut.
LEMMA SentStep ==
  ASSUME EvInv, NEW bits \in SentBits, Sending(bits), ObjInv', NEW e, e = EventPut(bits),
         set' = e.set, want' = e.want,
         k'.err = e.k.err \/ \A x \in Thread : k'.err[x] = e.k.err[x],
         \A x \in Thread : x \in Members(k'.list[Ev]) <=> x \in Members(e.k.list[Ev]),
         NEW c \in Thread, pc[c].at \in Label, NEW l \in Label, NEW a,
         UNCHANGED pc \/ pc' = [pc EXCEPT ![c] = At(l, a)]
  PROVE  EvStep /\ LeavesTo(bits)
<1>1. /\ e.k.err = k.err /\ Resumed(k, e.k, Gone(e))
      /\ Gone(e) \in SUBSET Members(k.list[Ev])
      /\ e.set \in SUBSET Bit /\ e.want \in [Thread -> RequestType]
      /\ \A t \in Members(e.k.list[Ev]) : ~ Satisfied(e.set, e.want[t])
      /\ Handed(e) /\ Takes(e, bits)
  BY EventPutFacts DEF SentBits
<1>2. ObjInv /\ Ev \in Queue /\ Core(k, {}) /\ Core(k', {})
  BY EventAssumption DEF EvInv, ObjInv, IpcInv, IInv
<1>3. /\ \A x \in Members(k.list[Ev]) : x \in Thread
      /\ \A x \in Members(k'.list[Ev]) : x \in Thread
  BY <1>2, MembersAre
<1>4. EvInv'
  BY <1>1, <1>3 DEF EvInv
<1>5. HandsOut(Gone(e))
  BY <1>1 DEF HandsOut, Handed
<1>6. /\ \A x \in Thread \ {c} : pc'[x] = pc[x]
      /\ CallOf(Ev, k', pc', c) = "none"
  BY <1>2, CallerMoves
<1>7. ASSUME NEW x \in Thread \ Gone(e), CallOf(Ev, k', pc', x) = "granted"
      PROVE  CallOf(Ev, k, pc, x) = "granted"
  <2>1. x # c /\ pc'[x] = pc[x]
    BY <1>6, <1>7
  <2>2. k'.err[x] = k.err[x] /\ (x \in Members(k'.list[Ev]) <=> x \in Members(k.list[Ev]))
    BY <1>1, <1>2 DEF Resumed, Stands
  <2> QED BY <1>7, <2>1, <2>2, SameCall
<1>8. GrantsOnly(Gone(e)) /\ Gone(e) \in SUBSET Thread
  BY <1>1, <1>3, <1>7 DEF GrantsOnly
<1>9. ASSUME NEW x \in Gone(e)
      PROVE  /\ CallOf(Ev, k', pc', x) = "granted"
             /\ CallOf(Ev, k, pc, x) = "waiting"
  <2>1. /\ x \in Members(k.list[Ev]) /\ x \notin Members(e.k.list[Ev]) /\ x \in Thread
    BY <1>1, <1>3, <1>9 DEF Gone
  <2>2. pc[x].at \in WaitLabels /\ pc[x].arg = Ev /\ k.err[x] = "EOK"
    BY <1>2, <2>1 DEF ObjInv, IpcInv, WaitersOK, Linked, Clean
  <2>3. x # c
    BY <2>2, LabelsApart
  <2>4. pc'[x] = pc[x] /\ k'.err[x] = "EOK" /\ x \notin Members(k'.list[Ev])
    BY <1>1, <1>6, <2>1, <2>2, <2>3
  <2> QED BY <2>1, <2>2, <2>4 DEF CallOf
<1>10. Served = Gone(e)
  BY <1>7, <1>8, <1>9, ServedAre
<1>11. LeavesTo(bits)
  BY <1>1, <1>10 DEF LeavesTo, Takes, ClearedBy
<1> QED BY <1>4, <1>5, <1>8, <1>11 DEF EvStep

\* rt_event_send in a thread.
LEMMA SendStep ==
  ASSUME Polite, EvInv, NEW c \in Thread, NEW bits \in SentBits, rt_event_send(c, bits)
  PROVE  EvStep /\ LeavesTo(bits)
<1> DEFINE e == EventPut(bits)
<1>1. /\ Asks(c, "send", Ev) /\ k' = e.k /\ set' = e.set /\ want' = e.want
      /\ IF e.k # k THEN Goto(c, "sched", c) ELSE UNCHANGED pc
      /\ UNCHANGED <<isr, obj>> /\ ObjInv /\ IpcInv /\ Ev \in Queue
  BY EventAssumption DEF rt_event_send, EvInv, ObjInv
<1>2. /\ Core(e.k, {}) /\ CurrentOK(e.k) /\ Resumed(k, e.k, Gone(e))
      /\ Gone(e) \in SUBSET Members(k.list[Ev])
  BY EventPutFacts DEF SentBits
<1>3. e = EventPut(bits) /\ Sending(bits)
  BY DEF Sending
<1> HIDE DEF e
<1>4. pc[c].at \in Label /\ "sched" \in Label
  BY <1>1, AsksFacts DEF Label
<1>5. UNCHANGED pc \/ pc' = [pc EXCEPT ![c] = At("sched", c)]
  BY <1>1 DEF Goto
<1>6. ObjInv'
  <2>1. CASE e.k = k
    <3>1. UNCHANGED ipcVars
      BY <1>1, <2>1 DEF ipcVars
    <3> QED BY <1>1, <3>1, UnchangedObjInv
  <2>2. CASE e.k # k
    <3>1. pc' = [pc EXCEPT ![c] = At("sched", c)]
      BY <1>1, <2>2 DEF Goto
    <3> QED BY <1>1, <1>2, <3>1, ResumedObjInv
  <2> QED BY <2>1, <2>2
<1> QED BY <1>1, <1>3, <1>4, <1>5, <1>6, SentStep

\* rt_event_send in an interrupt handler.
LEMMA IsrSendStep ==
  ASSUME EvInv, NEW bits \in SentBits, IsrSend(bits)
  PROVE  EvStep /\ LeavesTo(bits)
<1> DEFINE e == EventPut(bits)
<1>1. /\ k' = (IF e.k # k THEN rt_schedule(e.k) ELSE k)
      /\ set' = e.set /\ want' = e.want
      /\ UNCHANGED <<isr, obj, pc>> /\ ObjInv /\ IpcInv /\ Ev \in Queue
  BY EventAssumption DEF IsrSend, EvInv, ObjInv
<1>2. /\ Core(e.k, {}) /\ CurrentOK(e.k) /\ Resumed(k, e.k, Gone(e))
      /\ Gone(e) \in SUBSET Members(k.list[Ev])
  BY EventPutFacts DEF SentBits
<1>3. e = EventPut(bits) /\ Sending(bits)
  BY DEF Sending
<1> HIDE DEF e
<1>4. PICK c \in Thread : pc[c].at \in Label
  <2>1. Idle \in Thread /\ Labels
    BY <1>1, ThreadAssumption DEF IpcInv, IInv
  <2> QED BY <2>1 DEF Labels, LabelOK, Label
<1>5. "run" \in Label
  BY DEF Label
<1>6. CASE e.k = k
  <2>1. k' = e.k /\ UNCHANGED ipcVars
    BY <1>1, <1>6 DEF ipcVars
  <2>2. ObjInv'
    BY <1>1, <2>1, UnchangedObjInv
  <2> QED BY <1>1, <1>3, <1>4, <1>5, <2>1, <2>2, SentStep
<1>7. CASE e.k # k
  <2>1. k' = rt_schedule(e.k)
    BY <1>1, <1>7
  <2>2. IpcInv' /\ Steady(e.k, k', {})
    BY <1>1, <1>2, <2>1, IsrIpcInv
  <2>3. \A q \in Queue : Members(k'.list[q]) \subseteq Members(k.list[q])
    BY <1>2, <2>2 DEF Resumed, Steady
  <2>4. Attached'
    BY <1>1 DEF ObjInv, Attached
  <2>5. ObjInv'
    BY <1>1, <2>2, <2>3, <2>4, ShrinkObjInv
  <2>6. \A x \in Thread : /\ k'.err[x] = e.k.err[x]
                          /\ x \in Members(k'.list[Ev]) <=> x \in Members(e.k.list[Ev])
    BY <1>1, <2>2 DEF Steady
  <2> QED BY <1>1, <1>3, <1>4, <1>5, <2>5, <2>6, SentStep
<1> QED BY <1>6, <1>7

\* rt_event_recv returns at once, or waits for what is not there.
LEMMA RecvStep ==
  ASSUME Polite, EvInv, NEW c \in Thread, NEW r \in Request, NEW time \in WaitTime,
         rt_event_recv(c, r, time)
  PROVE  EvStep
<1>1. /\ Asks(c, "recv", Ev) /\ Ev \in Queue /\ time \in Nat \cup {-1}
      /\ UNCHANGED <<isr, obj>> /\ ObjInv /\ IpcInv /\ r \in RequestType
  BY EventAssumption, IpcAssumption DEF rt_event_recv, EvInv, ObjInv
<1>2. /\ pc[c].at \in Label /\ c = k.current /\ k.stat[c] = "RUNNING"
      /\ Core(k, {}) /\ CurrentOK(k)
  BY <1>1, AsksFacts DEF IpcInv, IInv
<1>3. CASE Satisfied(set, r) \/ time = 0
  <2>1. /\ \E x \in {"EOK", "ETIMEOUT"} : k' = [k EXCEPT !.err[c] = x]
        /\ UNCHANGED <<pc, want>> /\ set' \in SUBSET set
    BY <1>3 DEF rt_event_recv
  <2>2. "EOK" \in Error /\ "ETIMEOUT" \in Error
    BY DEF Error
  <2>3. Core(k', {}) /\ CurrentOK(k') /\ Spares(k, k', c)
    BY <1>2, <2>1, <2>2, SetErrorSpares
  <2>4. ObjInv' /\ Eases(Ev)
    BY <1>1, <1>2, <2>1, <2>3, SparesObjInv, SparesCalls DEF Eases
  <2>5. /\ Members(k'.list[Ev]) \subseteq Members(k.list[Ev])
        /\ GrantsOnly({})
    BY <1>1, <2>4, EasedCalls DEF GrantsOnly
  <2>6. EvInv'
    BY <2>1, <2>4, <2>5, ShrinkEvInv DEF EvInv
  <2> QED BY <2>5, <2>6, NothingHanded
<1>4. CASE ~ Satisfied(set, r) /\ time # 0
  <2>1. /\ want' = [want EXCEPT ![c] = r] /\ k' = Block(k, Ev, c, time)
        /\ pc' = [pc EXCEPT ![c] = At("ipc_sched", Ev)] /\ set' = set
    BY <1>4 DEF rt_event_recv, Goto
  <2>2. Core(k', {}) /\ CurrentOK(k') /\ Blocks(k, k', Ev, c)
    BY <1>1, <1>2, <2>1, BlockCore
  <2>3. ObjInv'
    BY <1>1, <2>1, <2>2, BlockObjInv
  <2>4. /\ want' \in [Thread -> RequestType] /\ want'[c] = r
        /\ \A x \in Thread \ {c} : want'[x] = want[x]
    BY <1>1, <2>1 DEF EvInv
  <2>5. ASSUME NEW x \in Members(k'.list[Ev]) PROVE ~ Satisfied(set', want'[x])
    <3>1. x \in Thread
      BY <1>1, <2>2, MembersAre
    <3>2. CASE x = c
      BY <1>4, <2>1, <2>4, <3>2
    <3>3. CASE x # c
      <4>1. x \in Members(k.list[Ev])
        BY <1>1, <2>2, <3>1, <3>3 DEF Blocks, Stands
      <4> QED BY <2>1, <2>4, <3>1, <3>3, <4>1 DEF EvInv
    <3> QED BY <3>2, <3>3
  <2>6. EvInv'
    BY <2>1, <2>3, <2>4, <2>5 DEF EvInv
  <2>7. OneCall(Ev, {"none"}, "waiting")
    BY <1>1, <1>2, <2>1, <2>2, BlockCalls
  <2>8. GrantsOnly({})
    BY <2>7 DEF OneCall, GrantsOnly
  <2> QED BY <2>6, <2>8, NothingHanded
<1> QED BY <1>3, <1>4

\* rt_event_control: the waiters see an error.
LEMMA EvResetStep ==
  ASSUME Polite, EvInv, NEW c \in Thread, rt_event_control(c)
  PROVE  EvStep
<1> DEFINE X == Members(k.list[Ev])
<1>1. /\ Asks(c, "reset", Ev) /\ Ev \in Queue /\ k' = rt_ipc_list_resume_all(k, Ev)
      /\ set' = {} /\ want' = want
      /\ pc' = [pc EXCEPT ![c] = At("sched", c)] /\ UNCHANGED <<isr, obj>>
      /\ ObjInv /\ IpcInv /\ Core(k, {}) /\ CurrentOK(k)
  BY EventAssumption DEF rt_event_control, Goto, EvInv, ObjInv, IpcInv, IInv
<1>2. pc[c].at \in Label /\ "sched" \in Label
  BY <1>1, AsksFacts DEF Label
<1>3. /\ Core(k', {}) /\ CurrentOK(k') /\ Resumed(k, k', X)
      /\ \A x \in X : k'.err[x] = "ERROR"
      /\ k'.list[Ev] = << >>
  BY <1>1, ResumeAllCore
<1>4. X \in SUBSET Members(k.list[Ev])
  OBVIOUS
<1> HIDE DEF X
<1>5. ObjInv'
  BY <1>1, <1>3, <1>4, ResumedObjInv
<1>6. EvInv'
  BY <1>1, <1>3, <1>5 DEF EvInv, Members
<1>7. /\ \A x \in Thread \ {c} : pc'[x] = pc[x]
      /\ CallOf(Ev, k', pc', c) = "none"
  BY <1>1, <1>2, CallerMoves
<1>8. ASSUME NEW x \in Thread, CallOf(Ev, k', pc', x) = "granted"
      PROVE  CallOf(Ev, k, pc, x) = "granted"
  <2>1. x # c /\ pc'[x] = pc[x] /\ k'.err[x] = "EOK"
    BY <1>7, <1>8 DEF CallOf
  <2>2. x \notin X
    BY <1>3, <2>1
  <2>3. k'.err[x] = k.err[x] /\ (x \in Members(k'.list[Ev]) <=> x \in Members(k.list[Ev]))
    BY <1>1, <1>3, <2>2 DEF Resumed, Stands
  <2> QED BY <1>8, <2>1, <2>3, SameCall
<1> QED BY <1>6, <1>8, NothingHanded DEF GrantsOnly

\* rt_event_init, when all calls on the detached event set have returned.
LEMMA EvInitStep ==
  ASSUME EvInv, NEW c \in Thread, rt_event_init(c)
  PROVE  EvStep
<1>1. /\ Initialize(c, Ev) /\ set' = {} /\ want' = want /\ Ev \in Queue
      /\ UNCHANGED <<k, pc>> /\ ObjInv
  BY EventAssumption DEF rt_event_init, Initialize, EvInv
<1>2. ObjInv'
  BY <1>1, InitializeObjInv
<1>3. EvInv'
  BY <1>1, <1>2, ShrinkEvInv DEF EvInv
<1>4. GrantsOnly({})
  BY <1>1 DEF GrantsOnly
<1> QED BY <1>3, <1>4, NothingHanded

\* The steps together.
LEMMA EvSteps ==
  ASSUME Polite, EvInv, [EvNext]_evVars
  PROVE  EvStep
<1>1. ObjInv /\ Ev \in Queue
  BY EventAssumption DEF EvInv
<1>2. CASE UNCHANGED evVars
  <2>1. UNCHANGED ipcVars /\ k' = k /\ pc' = pc /\ UNCHANGED <<set, want>>
    BY <1>2 DEF evVars, ipcVars
  <2>2. ObjInv'
    BY <1>1, <2>1, UnchangedObjInv
  <2>3. Eases(Ev)
    BY <2>1 DEF Eases, SameCalls
  <2> QED BY <2>1, <2>2, <2>3, EasedEvStep
<1>3. CASE Next /\ UNCHANGED <<obj, set, want>>
  <2>1. ObjInv' /\ Eases(Ev)
    BY <1>1, <1>3, NextObjInv, NextCalls DEF Eases
  <2> QED BY <1>3, <2>1, EasedEvStep
<1>4. ASSUME NEW c \in Thread, EventReturn(c) PROVE EvStep
  BY <1>4, EventReturnStep
<1>5. ASSUME NEW c \in Thread, BlockSchedule(c) \/ ResumeAllTest(c) \/ ResumeAllNext(c),
             UNCHANGED <<set, want>>
      PROVE  EvStep
  <2>1. IpcContinue(c)
    BY <1>5 DEF IpcContinue
  <2>2. ObjInv' /\ Eases(Ev)
    BY <1>1, <2>1, ContinueEases
  <2> QED BY <1>5, <2>2, EasedEvStep
<1>6. ASSUME NEW c \in Thread, EvInvoke(c) PROVE EvStep
  <2>1. ASSUME NEW bits \in SentBits, rt_event_send(c, bits) PROVE EvStep
    BY <2>1, SendStep
  <2>2. ASSUME NEW r \in Request, NEW time \in WaitTime, rt_event_recv(c, r, time)
        PROVE  EvStep
    BY <2>2, RecvStep
  <2>3. CASE rt_event_detach(c)
    <3>1. Detach(c, Ev) /\ UNCHANGED <<set, want>>
      BY <2>3 DEF rt_event_detach
    <3>2. ObjInv' /\ Eases(Ev)
      BY <1>1, <3>1, DetachObjInv, DetachCalls DEF Eases
    <3> QED BY <3>1, <3>2, EasedEvStep
  <2> QED BY <1>6, <2>1, <2>2, <2>3, EvResetStep, EvInitStep DEF EvInvoke
<1>7. ASSUME NEW bits \in SentBits, IsrSend(bits) PROVE EvStep
  BY <1>7, IsrSendStep
<1> QED BY <1>2, <1>3, <1>4, <1>5, <1>6, <1>7 DEF EvNext

\* The invariant holds at first.
LEMMA EvInitInv ==
  ASSUME IsFiniteSet(Thread)
  PROVE  EvInit => EvInv
<1> SUFFICES ASSUME EvInit PROVE EvInv
  OBVIOUS
<1>1. ObjInv /\ \A q \in Queue : k.list[q] = << >>
  BY InitObjInv DEF EvInit
<1>2. set = {} /\ want \in [Thread -> RequestType]
  BY DEF EvInit, EvStart, NoRequest, RequestType
<1> QED BY <1>1, <1>2, EventAssumption DEF EvInv, Members

\* It is inductive.
LEMMA EvInvIsInductive ==
  ASSUME Polite
  PROVE  EvInv /\ [EvNext]_evVars => EvInv'
BY EvSteps DEF EvStep

\* No event is missed, whatever threads and interrupt handlers send, receive,
\* clear, time out, reset and detach: a thread stays in the list only while the
\* set does not satisfy its request.
THEOREM NoEventIsMissed ==
  ASSUME Polite, IsFiniteSet(Thread)
  PROVE  EvSpec => []EventNotMissed
<1>1. EvInv => EventNotMissed
  <2> SUFFICES ASSUME EvInv PROVE EventNotMissed
    OBVIOUS
  <2>1. Core(k, {}) /\ Linked(k, pc) /\ Ev \in Queue
    BY EventAssumption DEF EvInv, ObjInv, IpcInv, IInv, WaitersOK
  <2>2. \A t \in Members(k.list[Ev]) : t \in Inside(Ev)
    BY <2>1, MembersAre DEF Linked, Inside, WaitLabels
  <2> QED BY <2>2 DEF EvInv, EventNotMissed
<1> QED BY <1>1, EvInitInv, EvInvIsInductive, PTL DEF EvSpec

\* A send hands each event that is cleared to one receiver: what a resumed
\* thread gets is part of what it asked for and satisfies it, and what leaves
\* the set in a send is what the threads that clear get, each event once.
THEOREM EventsAreClearedOnce ==
  ASSUME Polite, IsFiniteSet(Thread)
  PROVE  EvSpec => EventsClearedOnce
<1> DEFINE A == LET clearing == {t \in Served : want[t].clear}
                IN  /\ \A t \in Served : Satisfied(want'[t].bits, want[t])
                                         /\ want'[t].bits \subseteq want[t].bits
                    /\ \A t, u \in clearing :
                         t # u => want'[t].bits \cap want'[u].bits = {}
                    /\ \A bits \in SentBits : Sending(bits) =>
                         set' = (set \cup bits) \ UNION {want'[t].bits : t \in clearing}
                    /\ Served # {} => \E bits \in SentBits : Sending(bits)
<1>1. EvInv /\ [EvNext]_evVars => [A]_evVars
  <2> SUFFICES ASSUME EvInv, [EvNext]_evVars PROVE A
    OBVIOUS
  <2>1. PICK X \in SUBSET Thread :
          /\ GrantsOnly(X) /\ HandsOut(X)
          /\ X # {} => \E bits \in SentBits : Sending(bits)
    BY EvSteps DEF EvStep
  <2>2. Served \subseteq X
    BY <2>1, ServedAre DEF GrantsOnly
  <2>3. \A bits \in SentBits : Sending(bits) => LeavesTo(bits)
    BY SendStep, IsrSendStep DEF Sending
  <2> QED BY <2>1, <2>2, <2>3 DEF HandsOut, LeavesTo
<1> QED BY <1>1, EvInitInv, EvInvIsInductive, PTL DEF EvSpec, EventsClearedOnce
=============================================================================
