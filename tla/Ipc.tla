-------------------------------- MODULE Ipc --------------------------------
(***************************************************************************)
(* What the IPC objects of ipc.c have in common: a suspend list, which     *)
(* threads join in FIFO or priority order and leave when the object        *)
(* resumes them or their timer fires, and the protocol of a blocking call: *)
(* the caller links itself into the list and arms its timer in one         *)
(* critical section, calls rt_schedule in the next, and when it runs again *)
(* reads thread->error to see who resumed it.                              *)
(*                                                                         *)
(* An object is a member of Queue and stands for the head of its own       *)
(* suspend list.  A blocked caller's pc names the object.                  *)
(***************************************************************************)
EXTENDS Scheduler

CONSTANTS Flag,         \* parent.flag of each object
          WaitTime,     \* the waiting times of blocking calls
          DetachTimed,  \* are objects detached that have timed waiters
          Uses          \* the pairs <<t, call>>: thread t makes this IPC call

VARIABLE obj            \* is each object live, being detached, or gone

ipcVars == <<k, isr, pc, obj>>

ASSUME IpcAssumption ==
  /\ Flag \in [Queue -> {"FIFO", "PRIO"}]
  /\ WaitTime \subseteq Nat \cup {-1}
  /\ DetachTimed \in BOOLEAN

Forever == -1           \* RT_WAITING_FOREVER; RT_WAITING_NO is 0

\* Thread t is in application code and makes the IPC call a on q.  Nobody uses
\* an object that is being detached or is gone.
Asks(t, a, q) == Executes(t, "run") /\ <<t, a>> \in Uses /\ obj[q] = "live"

-----------------------------------------------------------------------------
(***************************************************************************)
(* The state when every thread has been started and the one that gets the  *)
(* CPU first has the highest priority.                                     *)
(***************************************************************************)
StartedKernel(first) ==
  LET ready(h) == SetToSeq({t \in Thread \ {first} : InitPrio[t] = h})
  IN  [InitKernel(first) EXCEPT
         !.stat  = [t \in Thread |-> IF t = first THEN "RUNNING" ELSE "READY"],
         !.list  = [h \in Head_ |-> IF h \in Prio THEN ready(h) ELSE << >>],
         !.group = {InitPrio[t] : t \in Thread \ {first}}]

Started ==
  /\ \E first \in Thread \ {Idle} :
        /\ \A t \in Thread : InitPrio[first] <= InitPrio[t]
        /\ k = StartedKernel(first)
  /\ isr = "none"
  /\ obj = [q \in Queue |-> "live"]

InitStarted == Started /\ pc = [t \in Thread |-> Running(t)]

-----------------------------------------------------------------------------
\* Mutant: the first waiter to arrive is the last to be resumed.
InsertWaiterFirst(kk, q, t) == rt_list_insert_after(kk, q, t)

\* Mutant: priorities are not compared.
InsertWaiterLast(kk, q, t) == rt_list_insert_before(kk, q, t)

\* In priority order a thread goes before the first waiter of strictly lower
\* priority.
InsertWaiter(kk, q, t) ==
  LET later == {i \in DOMAIN kk.list[q] : kk.prio[t] < kk.prio[kk.list[q][i]]}
  IN  IF Flag[q] = "PRIO" /\ later # {}
        THEN [kk EXCEPT !.list[q] =
                InsertAt(@, CHOOSE i \in later : \A j \in later : i <= j, t)]
        ELSE rt_list_insert_before(kk, q, t)

rt_ipc_list_suspend(kk, q, t) == InsertWaiter(rt_thread_suspend(kk, t), q, t)

rt_ipc_list_resume(kk, q) == rt_thread_resume(kk, Head(kk.list[q]))

\* One round of rt_ipc_list_resume_all.
ResumeWithError(kk, q) ==
  LET t == Head(kk.list[q])
  IN  rt_thread_resume([kk EXCEPT !.err[t] = "ERROR"], t)

\* rt_ipc_list_resume_all with interrupts disabled: one round per waiter.
rt_ipc_list_resume_all(kk, q) ==
  LET round[n \in 0 .. Len(kk.list[q])] ==
        IF n = 0 THEN kk ELSE ResumeWithError(round[n - 1], q)
  IN  round[Len(kk.list[q])]

\* Mutant: the error of an earlier call is still there.
BlockKeepsError(kk, q, t, time) ==
  LET u == rt_ipc_list_suspend(kk, q, t)
  IN  IF time > 0 THEN rt_timer_start(u, t, time) ELSE u

\* The critical section in which a caller blocks: it resets its error, joins
\* the list and starts its timer unless it waits for ever.
Block(kk, q, t, time) ==
  LET u == rt_ipc_list_suspend([kk EXCEPT !.err[t] = "EOK"], q, t)
  IN  IF time > 0 THEN rt_timer_start(u, t, time) ELSE u

-----------------------------------------------------------------------------
\* The callers of a blocking call on q that have not returned, by outcome: they
\* wait, they have been given what they asked for, or they will see an error.
Inside(q) ==
  {t \in Thread : pc[t].at \in {"ipc_sched", "ipc_end"} /\ pc[t].arg = q}

Waiting(q) == {t \in Inside(q) : t \in Members(k.list[q])}

Granted(q) == {t \in Inside(q) \ Waiting(q) : k.err[t] = "EOK"}

Failed(q) == {t \in Inside(q) \ Waiting(q) : k.err[t] # "EOK"}

\* rt_schedule at the end of the first half of a blocking call.
BlockSchedule(c) ==
  /\ Executes(c, "ipc_sched")
  /\ k' = rt_schedule(k)
  /\ Goto(c, "ipc_end", pc[c].arg)
  /\ UNCHANGED <<isr, obj>>

\* The call returns thread->error.
BlockEnd(c) ==
  /\ Executes(c, "ipc_end")
  /\ Return(c)
  /\ UNCHANGED <<k, isr, obj>>

\* The detach function of a static object, the delete function of a dynamic
\* one: rt_ipc_list_resume_all with interrupts enabled, and nothing is
\* scheduled.
Detach(c, q) ==
  /\ Asks(c, "detach", q)
  /\ DetachTimed \/ \A t \in Waiting(q) : k.timer[t] = Off
  /\ obj' = [obj EXCEPT ![q] = "leaving"]
  /\ Goto(c, "ipc_test", q)
  /\ UNCHANGED <<k, isr>>

\* Mutant: the waiters stay.
ResumeAllNobody(c) ==
  /\ Executes(c, "ipc_test")
  /\ Return(c)
  /\ obj' = [obj EXCEPT ![pc[c].arg] = "none"]
  /\ UNCHANGED <<k, isr>>

\* The test of the list is not part of the critical section that takes its
\* first thread.  When the list is empty the object leaves the system.
ResumeAllTest(c) ==
  /\ Executes(c, "ipc_test")
  /\ IF k.list[pc[c].arg] = << >>
       THEN Return(c) /\ obj' = [obj EXCEPT ![pc[c].arg] = "none"]
       ELSE Goto(c, "ipc_next", pc[c].arg) /\ UNCHANGED obj
  /\ UNCHANGED <<k, isr>>

\* The first node of an empty list is the list head itself, no thread: what
\* the code does to it is not modelled.
ResumeAllNext(c) ==
  /\ Executes(c, "ipc_next")
  /\ k.list[pc[c].arg] # << >>
  /\ k' = ResumeWithError(k, pc[c].arg)
  /\ Goto(c, "ipc_test", pc[c].arg)
  /\ UNCHANGED <<isr, obj>>

\* A thread initializes or creates the object again, once all calls on it have
\* returned.
Initialize(c, q) ==
  /\ Executes(c, "run") /\ <<c, "detach">> \in Uses
  /\ obj[q] = "none" /\ Inside(q) = {}
  /\ obj' = [obj EXCEPT ![q] = "live"]
  /\ UNCHANGED <<k, isr, pc>>

IpcContinue(c) ==
  \/ BlockSchedule(c) \/ BlockEnd(c)
  \/ ResumeAllTest(c) \/ ResumeAllNext(c)

IpcLabel == {"ipc_sched", "ipc_end", "ipc_test", "ipc_next"}

\* The types of the variables the IPC objects share.
IpcTypeOK ==
  /\ k \in KernelType
  /\ isr \in {"none", "timer"}
  /\ pc \in [Thread -> [at : Label, arg : Thread] \cup [at : IpcLabel, arg : Queue]]
  /\ obj \in [Queue -> {"live", "leaving", "none"}]

-----------------------------------------------------------------------------
(***************************************************************************)
(* When an object has been detached or deleted, no thread is linked into   *)
(* the suspend list that went with it.                                     *)
(***************************************************************************)
NobodyLeftBehind == \A q \in Queue : obj[q] = "none" => k.list[q] = << >>

\* "get next suspended thread": when rt_ipc_list_resume_all takes the first
\* thread of the list, there is one.
ResumeAllFindsThread ==
  \A c \in Thread : pc[c].at = "ipc_next" => k.list[pc[c].arg] # << >>
=============================================================================
