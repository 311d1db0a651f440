------------------------------- MODULE Retry -------------------------------
(***************************************************************************)
(* The waiting loop of mailboxes, message queues and memory pools: a       *)
(* caller that is resumed without error looks again, because somebody else *)
(* may have been faster, and waits for what is left of its timeout if it   *)
(* has to wait again.                                                      *)
(*                                                                         *)
(*   wait[t]  the local variables timeout and tick_delta of thread t's     *)
(*            call, the latter as the ticks that have passed since it was  *)
(*            read; both are 0 outside the loop                            *)
(*   due[t]   history: the ticks until the deadline thread t asked for, or *)
(*            Forever                                                      *)
(***************************************************************************)
EXTENDS Ipc

VARIABLES wait, due

retryVars == <<ipcVars, wait, due>>

NotWaiting == [timeout |-> 0, spent |-> 0]

RetryStart ==
  /\ wait = [t \in Thread |-> NotWaiting]
  /\ due = [t \in Thread |-> 0]

RetryInit == InitStarted /\ RetryStart

\* One tick in a waiting loop.  Ticks are counted up to one more than the
\* timeout, which is as good as any larger number.
Spend(w) ==
  IF w.timeout > 0 /\ w.spent <= w.timeout THEN [w EXCEPT !.spent = @ + 1] ELSE w

Nearer(d) == IF d > 0 THEN d - 1 ELSE d

Ticks == isr = "none" /\ isr' = "timer"

\* A step of the scheduler, the thread API or the tick interrupt.
KernelStep ==
  /\ Next
  /\ wait' = IF Ticks THEN [t \in Thread |-> Spend(wait[t])] ELSE wait
  /\ due' = IF Ticks THEN [t \in Thread |-> Nearer(due[t])] ELSE due
  /\ UNCHANGED obj

\* Mutant: a late caller's timeout becomes negative, which means for ever.
RemainingNegative(w) == IF w.timeout > 0 THEN w.timeout - w.spent ELSE w.timeout

\* The recalculated timeout.
Remaining(w) ==
  CASE w.timeout > 0 /\ w.spent > w.timeout  -> 0
    [] w.timeout > 0 /\ w.spent <= w.timeout -> w.timeout - w.spent
    [] OTHER                                 -> w.timeout

\* The caller goes to sleep in list q.
Waits(c, q, time) ==
  /\ k' = Block(k, q, c, time)
  /\ Goto(c, "ipc_sched", q)
  /\ wait' = [wait EXCEPT ![c] = [timeout |-> time, spent |-> 0]]
  /\ due' = [due EXCEPT ![c] = IF pc[c].at = "run" THEN time ELSE @]

\* The caller leaves the loop.
Leaves(c) ==
  /\ wait' = [wait EXCEPT ![c] = NotWaiting]
  /\ due' = [due EXCEPT ![c] = 0]

\* The caller sees that its wait ended with an error and returns it.
RetryFails(c) ==
  /\ Executes(c, "ipc_end")
  /\ k.err[c] # "EOK"
  /\ Return(c)
  /\ Leaves(c)
  /\ UNCHANGED <<k, isr, obj>>

\* The caller has been resumed and looks again.
Again(c, q) == Executes(c, "ipc_end") /\ pc[c].arg = q /\ k.err[c] = "EOK"

RetryTypeOK ==
  /\ wait \in [Thread -> [timeout : Nat \cup {Forever}, spent : Nat]]
  /\ due \in [Thread -> Nat \cup {Forever}]
=============================================================================
