---------------------------- MODULE MCScheduler ----------------------------
(***************************************************************************)
(* Small instances of Scheduler: the idle thread at the lowest priority,   *)
(* two application threads of one priority with different time slices, and *)
(* in some runs a third one of a higher priority.                          *)
(***************************************************************************)
EXTENDS Scheduler

CONSTANTS tidle, tmain, tpeer, thigh

Three == {tidle, tmain, tpeer}
Four  == {tidle, tmain, tpeer, thigh}

PrioOf ==
  [t \in Thread |-> CASE t = tidle -> 2 [] t = thigh -> 0 [] OTHER -> 1]

TickOf == [t \in Thread |-> IF t = tmain THEN 2 ELSE 1]

\* Every application thread makes these calls.
All(calls) == (Thread \ {Idle}) \X calls

\* One thread makes these calls.
Only(t, calls) == {t} \X calls

\* Threads come and go: tmain creates and starts the others; all of them
\* sleep, yield and exit, and two of them lock the scheduler.
MayLife ==
  Only(tmain, {"create", "startup", "critical"}) \cup Only(tpeer, {"critical"})
    \cup All({"sleep", "yield", "exit"})

\* tmain suspends, resumes, reprioritizes, deletes and detaches the others;
\* nobody sleeps, so no timer makes a thread ready behind its back.
MayManage ==
  Only(tmain, {"create", "startup", "suspend", "resume", "control", "delete",
               "detach"})
    \cup All({"yield"})

\* The programs that meet the races of thread.c: tmain acts on a thread that
\* sleeps meanwhile.
MayResumeSleeper ==
  Only(tmain, {"create", "startup", "resume"}) \cup All({"sleep"})
MayDeleteSleeper ==
  Only(tmain, {"create", "startup", "delete"}) \cup All({"sleep"})
=============================================================================
