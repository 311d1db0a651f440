---------------------------- MODULE MCSemaphore ----------------------------
(***************************************************************************)
(* Small instances of Semaphore: two threads of one priority, a third of a *)
(* higher one in some runs, and the idle thread, on one semaphore.         *)
(***************************************************************************)
EXTENDS Semaphore

CONSTANTS tidle, tlow, tpeer, thigh, sem

Three == {tidle, tlow, tpeer}
Four  == {tidle, tlow, tpeer, thigh}

PrioOf ==
  [t \in Thread |-> CASE t = tidle -> 2 [] t = thigh -> 0 [] OTHER -> 1]

TickOf == [t \in Thread |-> 1]

Fifo     == [q \in Queue |-> "FIFO"]
Priority == [q \in Queue |-> "PRIO"]

MaySleep == {<<tlow, "sleep">>}

\* Every thread takes and releases, tlow also resets; an interrupt releases.
UsesAll ==
  ((Thread \ {Idle}) \X {"take", "release"})
    \cup {<<tlow, "reset">>, <<"isr", "release">>}

\* The threads take, the interrupt releases, tlow detaches and initializes.
UsesTake ==
  ((Thread \ {Idle}) \X {"take"})
    \cup {<<tlow, "detach">>, <<"isr", "release">>}

\* tlow detaches the semaphore that the others take.
UsesDetach == {<<tlow, "detach">>} \cup ((Thread \ {Idle, tlow}) \X {"take"})

\* No waiting, one tick, for ever.
WaitAny == {0, 1, Forever}

WaitForever == {Forever}
=============================================================================
