----------------------------- MODULE Completion -----------------------------
(***************************************************************************)
(* The completion of completion.c: a thread waits until a thread or an     *)
(* interrupt handler says that something is done; a done that comes first  *)
(* is remembered in a flag.  One thread at a time can be suspended, but    *)
(* another one may call rt_completion_wait when the first has been resumed *)
(* and has not run yet.                                                    *)
(*                                                                         *)
(*   done.flag    completion->flag is RT_COMPLETED                         *)
(*   done.fresh   history: there was a done since the last wait returned   *)
(*   done.shared  history: the callers that had been resumed by a done,    *)
(*                but not returned, when another wait returned             *)
(***************************************************************************)
EXTENDS Ipc

CONSTANT Comp          \* the completion

VARIABLE done

ASSUME CompletionAssumption == Comp \in Queue

compVars == <<ipcVars, done>>

NotDone == [flag |-> FALSE, fresh |-> FALSE, shared |-> {}]

CompStart == done = NotDone

CompInit == InitStarted /\ CompStart

-----------------------------------------------------------------------------
\* "clean completed flag", and the call of c returns.
Cleaned(c) == [flag |-> FALSE, fresh |-> FALSE, shared |-> Granted(Comp) \ {c}]

\* "only one thread can suspend on complete": a call that finds the flag clear
\* asserts that the list is empty, which is up to the application.  One that
\* finds it clear and does not want to wait changes nothing.
rt_completion_wait(c, time) ==
  /\ Asks(c, "wait", Comp)
  /\ \/ /\ done.flag
        /\ done' = Cleaned(c)
        /\ UNCHANGED <<k, pc>>
     \/ /\ ~ done.flag /\ k.list[Comp] = << >> /\ time # 0
        /\ k' = Block(k, Comp, c, time)
        /\ Goto(c, "ipc_sched", Comp)
        /\ UNCHANGED done
  /\ UNCHANGED <<isr, obj>>

\* Mutant: only a wait that did not block cleans the flag.
WaitEndKeepsFlag(c) ==
  /\ Executes(c, "ipc_end")
  /\ done' = [done EXCEPT !.fresh = FALSE]
  /\ Return(c)
  /\ UNCHANGED <<k, isr, obj>>

\* The caller has been resumed, by a done or by its timer: it returns its
\* error, and cleans the flag in either case.
WaitEnd(c) ==
  /\ Executes(c, "ipc_end")
  /\ done' = Cleaned(c)
  /\ Return(c)
  /\ UNCHANGED <<k, isr, obj>>

\* rt_completion_done tests the flag before it disables interrupts.
rt_completion_done(c) ==
  /\ Asks(c, "done", Comp)
  /\ ~ done.flag
  /\ Goto(c, "comp_done", Comp)
  /\ UNCHANGED <<k, isr, obj, done>>

Completed == [done EXCEPT !.flag = TRUE, !.fresh = TRUE]

\* The critical section of rt_completion_done.
Complete(c) ==
  /\ Executes(c, "comp_done")
  /\ done' = Completed
  /\ IF k.list[Comp] = << >>
       THEN Return(c) /\ UNCHANGED k
       ELSE Goto(c, "sched", c) /\ k' = rt_ipc_list_resume(k, Comp)
  /\ UNCHANGED <<isr, obj>>

\* rt_completion_done in an interrupt handler.
IsrDone ==
  /\ isr = "none" /\ <<"isr", "done">> \in Uses /\ obj[Comp] = "live"
  /\ ~ done.flag
  /\ done' = Completed
  /\ k' = IF k.list[Comp] = << >> THEN k ELSE rt_schedule(rt_ipc_list_resume(k, Comp))
  /\ UNCHANGED <<isr, obj, pc>>

\* rt_completion_init, while nobody is in rt_completion_wait: the driver starts
\* over.
rt_completion_init(c) ==
  /\ Asks(c, "restart", Comp)
  /\ Inside(Comp) = {}
  /\ done' = NotDone
  /\ UNCHANGED <<k, isr, obj, pc>>

-----------------------------------------------------------------------------
CompNext ==
  \/ Next /\ UNCHANGED <<obj, done>>
  \/ \E c \in Thread :
       \/ BlockSchedule(c) /\ UNCHANGED done
       \/ WaitEnd(c) \/ Complete(c)
       \/ \E time \in WaitTime : rt_completion_wait(c, time)
       \/ rt_completion_done(c) \/ rt_completion_init(c)
  \/ IsrDone

CompSpec == CompInit /\ [][CompNext]_compVars

-----------------------------------------------------------------------------
(***************************************************************************)
(* A done is not used again: nobody goes on waiting when it is done, a     *)
(* thread that was resumed by a done finds it still there, unless another  *)
(* thread's wait has met it first, and a done that has ended a wait, or    *)
(* that a wait which timed out has met, does not end a later one.          *)
(***************************************************************************)
DoneIsNotReused ==
  /\ k.list[Comp] # << >> => ~ done.flag
  /\ ~ done.flag => Granted(Comp) \subseteq done.shared
  /\ done.flag => done.fresh
=============================================================================
