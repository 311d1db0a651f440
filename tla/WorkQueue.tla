----------------------------- MODULE WorkQueue -----------------------------
(***************************************************************************)
(* The work queue of workqueue.c: works are submitted to a list and        *)
(* executed one after the other by a thread of the queue, which suspends   *)
(* itself when the list is empty.  Delayed works are not modelled.         *)
(*                                                                         *)
(*   wq.list      work_list                                                *)
(*   wq.current   work_current                                             *)
(*   wq.pending   the works with RT_WORK_STATE_PENDING                     *)
(*                                                                         *)
(* The work thread is at "run" in the work function, which may make the    *)
(* calls of May, and otherwise at a label of its loop.  WorkSem is the     *)
(* queue's semaphore, whose value is 0 whenever the work thread is not     *)
(* acknowledging a work.                                                   *)
(***************************************************************************)
EXTENDS Ipc

CONSTANTS WorkThread,  \* queue->work_thread
          WorkSem,     \* queue->sem
          Work,        \* the works
          NoWork       \* no current work

VARIABLE wq

wqVars == <<ipcVars, wq>>

ASSUME WorkAssumption ==
  WorkThread \in Thread \ {Idle} /\ WorkSem \in Queue /\ NoWork \notin Work

WqStart == wq = [list |-> << >>, current |-> NoWork, pending |-> {}]

\* The work thread is at the top of its loop.
WqEntry ==
  pc = [t \in Thread |-> IF t = WorkThread THEN At("wq_test", t) ELSE Running(t)]

WqInit == Started /\ WqEntry /\ WqStart

-----------------------------------------------------------------------------
(***************************************************************************)
(* The work thread.                                                        *)
(***************************************************************************)
\* The step from label l to label next of the work thread's loop.
Works(l, next) == Executes(WorkThread, l) /\ Goto(WorkThread, next, WorkThread)

\* The test of the list and what follows are not one critical section.
WorkTest ==
  /\ Works("wq_test", IF wq.list = << >> THEN "wq_suspend" ELSE "wq_take")
  /\ UNCHANGED <<k, isr, obj, wq>>

WorkSuspend ==
  /\ Works("wq_suspend", "wq_sched")
  /\ k' = rt_thread_suspend(k, WorkThread)
  /\ UNCHANGED <<isr, obj, wq>>

WorkSchedule ==
  /\ Works("wq_sched", "wq_take")
  /\ k' = rt_schedule(k)
  /\ UNCHANGED <<isr, obj, wq>>

\* The first work is taken off the list.  The first node of an empty list is
\* the list head, no work: what the code does with it is not modelled.
WorkTake ==
  /\ Works("wq_take", "run")
  /\ wq.list # << >>
  /\ wq' = [list    |-> Tail(wq.list),
            current |-> Head(wq.list),
            pending |-> wq.pending \ {Head(wq.list)}]
  /\ UNCHANGED <<k, isr, obj>>

\* The work function has returned: "clean current work".
WorkDone ==
  /\ Works("run", "wq_ack")
  /\ wq' = [wq EXCEPT !.current = NoWork]
  /\ UNCHANGED <<k, isr, obj>>

\* Mutant: the semaphore is not released.
WorkAckNobody ==
  /\ Works("wq_ack", "wq_exit")
  /\ UNCHANGED <<k, isr, obj, wq>>

\* _workqueue_work_completion: under the scheduler lock the semaphore is
\* released until it can be taken, which resumes every waiter.
WorkAck ==
  /\ Works("wq_ack", "wq_exit")
  /\ k' = FoldLeft(LAMBDA u, t : rt_ipc_list_resume(u, WorkSem), k, k.list[WorkSem])
  /\ UNCHANGED <<isr, obj, wq>>

\* rt_exit_critical unlocks the scheduler and calls it.
WorkExit ==
  /\ Works("wq_exit", "wq_test")
  /\ k' = rt_schedule(k)
  /\ UNCHANGED <<isr, obj, wq>>

WorkerStep ==
  \/ WorkTest \/ WorkSuspend \/ WorkSchedule \/ WorkTake
  \/ WorkDone \/ WorkAck \/ WorkExit

-----------------------------------------------------------------------------
(***************************************************************************)
(* The users of the queue.                                                 *)
(***************************************************************************)
UsesQueue(c, a) == c # WorkThread /\ Asks(c, a, WorkSem)

Without(w) == SelectSeq(wq.list, LAMBDA x : x # w)

\* The work goes to the end of the list; the thread is resumed if it is not
\* doing a work.
Enlist(c, w, pending) ==
  /\ wq' = [wq EXCEPT !.list = Append(Without(w), w), !.pending = @ \cup pending]
  /\ IF wq.current = NoWork THEN Goto(c, "wq_resume", c) ELSE UNCHANGED pc
  /\ UNCHANGED <<k, isr, obj>>

\* _workqueue_submit_work of a work that is not busy.
rt_workqueue_dowork(c, w) ==
  /\ UsesQueue(c, "submit")
  /\ w \notin wq.pending /\ w # wq.current
  /\ Enlist(c, w, {w})

rt_workqueue_critical_work(c, w) ==
  /\ UsesQueue(c, "critical")
  /\ w # wq.current
  /\ Enlist(c, w, {})

\* rt_thread_resume with interrupts enabled: the test, the unlinking and the
\* insertion into the ready queue are three critical sections.
ResumeWorker(c) ==
  /\ \/ /\ Executes(c, "wq_resume")
        /\ Goto(c, IF k.stat[WorkThread] = "SUSPEND" THEN "wq_unlink" ELSE "sched", c)
        /\ UNCHANGED k
     \/ /\ Executes(c, "wq_unlink") /\ Goto(c, "wq_insert", c)
        /\ k' = ResumeUnlink(k, WorkThread)
     \/ /\ Executes(c, "wq_insert") /\ Goto(c, "sched", c)
        /\ k' = rt_schedule_insert_thread(k, WorkThread)
  /\ UNCHANGED <<isr, obj, wq>>

rt_workqueue_cancel_work(c, w) ==
  /\ UsesQueue(c, "cancel")
  /\ w # wq.current
  /\ wq' = [wq EXCEPT !.list = Without(w), !.pending = @ \ {w}]
  /\ UNCHANGED <<k, isr, obj, pc>>

\* The caller waits for a work in progress.  It blocks with interrupts
\* disabled: the switch takes place when it enables them at the end, after the
\* flag is cleared, and there is nothing left to do when it runs again.
rt_workqueue_cancel_work_sync(c, w) ==
  /\ UsesQueue(c, "cancel")
  /\ IF w = wq.current
       THEN /\ k' = rt_schedule(Block(k, WorkSem, c, Forever))
            /\ wq' = [wq EXCEPT !.pending = @ \ {w}]
       ELSE /\ wq' = [wq EXCEPT !.list = Without(w), !.pending = @ \ {w}]
            /\ UNCHANGED k
  /\ UNCHANGED <<isr, obj, pc>>

\* The works are unlinked under the scheduler lock; they stay pending.
rt_workqueue_cancel_all_work(c) ==
  /\ UsesQueue(c, "cancel_all")
  /\ wq' = [wq EXCEPT !.list = << >>]
  /\ Goto(c, "sched", c)
  /\ UNCHANGED <<k, isr, obj>>

UserStep(c) ==
  \/ \E w \in Work :
       \/ rt_workqueue_dowork(c, w) \/ rt_workqueue_critical_work(c, w)
       \/ rt_workqueue_cancel_work(c, w) \/ rt_workqueue_cancel_work_sync(c, w)
  \/ ResumeWorker(c)
  \/ rt_workqueue_cancel_all_work(c)

WqNext ==
  \/ Next /\ UNCHANGED <<obj, wq>>
  \/ WorkerStep
  \/ \E c \in Thread : UserStep(c)

WqSpec == WqInit /\ [][WqNext]_wqVars

-----------------------------------------------------------------------------
Resuming == \E c \in Thread : pc[c].at \in {"wq_resume", "wq_unlink", "wq_insert"}

(***************************************************************************)
(* Nobody is forgotten: while the work thread has suspended itself for     *)
(* want of work, the list is empty or somebody is about to resume it; and  *)
(* who waits in rt_workqueue_cancel_work_sync waits for a work that is in  *)
(* progress or about to be acknowledged.  (The users have lower priorities *)
(* than the work thread.)                                                  *)
(***************************************************************************)
WorkNotForgotten ==
  /\ k.stat[WorkThread] = "SUSPEND" /\ wq.current = NoWork =>
       wq.list = << >> \/ Resuming
  /\ k.list[WorkSem] # << >> =>
       wq.current # NoWork \/ pc[WorkThread].at = "wq_ack"

(***************************************************************************)
(* "we have work to do with": when the work thread takes the first work of *)
(* the list, there is one.                                                 *)
(***************************************************************************)
WorkIsFound == Executes(WorkThread, "wq_take") => wq.list # << >>
=============================================================================
