--------------------------- MODULE SemaphoreSpec ---------------------------
(***************************************************************************)
(* What a counting semaphore promises, without queues, priorities, timers  *)
(* or a scheduler.  A release hands its permit to one waiting call if      *)
(* there is one and adds it to the count otherwise; a call that has been   *)
(* given a permit succeeds, and one that has failed was given none.        *)
(***************************************************************************)
EXTENDS Naturals

CONSTANT Caller

VARIABLES count,     \* the permits nobody has
          call       \* the state of each caller's blocking call

sVars == <<count, call>>

Pending == {c \in Caller : call[c] = "waiting"}

SInit == count \in Nat /\ call = [c \in Caller |-> "none"]

\* A call that finds a permit takes it and does not wait.
Take == count > 0 /\ count' = count - 1 /\ UNCHANGED call

Wait(c) ==
  /\ count = 0
  /\ call[c] = "none"
  /\ call' = [call EXCEPT ![c] = "waiting"]
  /\ UNCHANGED count

Put == Pending = {} /\ count' = count + 1 /\ UNCHANGED call

Grant(c) ==
  /\ call[c] = "waiting"
  /\ call' = [call EXCEPT ![c] = "granted"]
  /\ UNCHANGED count

\* A waiting call times out, or the semaphore is taken away from it.
Fail(c) ==
  /\ call[c] = "waiting"
  /\ call' = [call EXCEPT ![c] = "failed"]
  /\ UNCHANGED count

Finish(c) ==
  /\ call[c] \in {"granted", "failed"}
  /\ call' = [call EXCEPT ![c] = "none"]
  /\ UNCHANGED count

\* The count is set anew, and no waiting call survives.
Reset ==
  /\ count' \in Nat
  /\ call' = [c \in Caller |-> IF c \in Pending THEN "failed" ELSE call[c]]

SNext ==
  \/ Take \/ Put \/ Reset
  \/ \E c \in Caller : Wait(c) \/ Grant(c) \/ Fail(c) \/ Finish(c)

SSpec == SInit /\ [][SNext]_sVars
=============================================================================
