------------------------------ MODULE Channel ------------------------------
(***************************************************************************)
(* What the mailbox and the message queue of ipc.c share: a second suspend *)
(* list for senders that find the object full, and the functions that      *)
(* empty both lists.  Receivers is parent.suspend_thread, Senders is       *)
(* suspend_sender_thread; an object is live as long as obj[Receivers] is.  *)
(***************************************************************************)
EXTENDS Retry

CONSTANTS Receivers, Senders

ASSUME ChannelAssumption ==
  /\ Receivers \in Queue
  /\ Senders \in Queue
  /\ Receivers # Senders

BothLists == {Receivers, Senders}

\* The reset command with interrupts disabled.
ResumeBoth(kk) ==
  rt_ipc_list_resume_all(rt_ipc_list_resume_all(kk, Receivers), Senders)

\* Detaching or deleting: the receivers are resumed, then the senders.  A
\* caller that has been resumed and has not looked yet would go on using the
\* object; the application waits for it.
DetachBoth(c) ==
  /\ Asks(c, "detach", Receivers)
  /\ \A q \in BothLists :
       /\ Granted(q) = {}
       /\ DetachTimed \/ \A t \in Waiting(q) : k.timer[t] = Off
  /\ obj' = [q \in Queue |-> IF q \in BothLists THEN "leaving" ELSE obj[q]]
  /\ Goto(c, "ipc_test", Receivers)
  /\ UNCHANGED <<k, isr, wait, due>>

ReceiversResumed(c) ==
  /\ Executes(c, "ipc_test") /\ pc[c].arg = Receivers
  /\ k.list[Receivers] = << >>
  /\ obj' = [obj EXCEPT ![Receivers] = "none"]
  /\ Goto(c, "ipc_test", Senders)
  /\ UNCHANGED <<k, isr, wait, due>>

ResumeBothTest(c) ==
  \/ ReceiversResumed(c)
  \/ /\ pc[c].arg = Receivers => k.list[Receivers] # << >>
     /\ ResumeAllTest(c)
     /\ UNCHANGED <<wait, due>>

\* The object is initialized or created again.
InitializeBoth(c) ==
  /\ Executes(c, "run") /\ <<c, "detach">> \in Uses
  /\ \A q \in BothLists : obj[q] = "none" /\ Inside(q) = {}
  /\ obj' = [q \in Queue |-> IF q \in BothLists THEN "live" ELSE obj[q]]
  /\ UNCHANGED <<k, isr, pc, wait, due>>

\* The steps of a blocked caller and of a detach.
ChannelContinue(c) ==
  \/ (BlockSchedule(c) \/ ResumeAllNext(c)) /\ UNCHANGED <<wait, due>>
  \/ ResumeBothTest(c)
  \/ RetryFails(c)

\* Resume the first thread of list q, if there is one.
WakeFirst(kk, q) ==
  IF kk.list[q] # << >> THEN rt_ipc_list_resume(kk, q) ELSE kk

\* A caller is done: it schedules if it has resumed somebody.
Completes(c, q) ==
  /\ IF k.list[q] # << >> THEN Goto(c, "sched", c) ELSE Return(c)
  /\ Leaves(c)

(***************************************************************************)
(* A thread that waits to send or to receive, for the first time or again, *)
(* has its timer set to the deadline it asked for in its call: it is not   *)
(* kept longer, not even when it was resumed, was late and has to wait     *)
(* again, and does not give up earlier.                                    *)
(***************************************************************************)
TimesOutOnTime ==
  \A q \in BothLists : \A t \in Members(k.list[q]) : k.timer[t] = due[t]
=============================================================================
