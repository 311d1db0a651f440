------------------------------ MODULE MCMutex ------------------------------
(***************************************************************************)
(* Small instances of Mutex: threads of three priorities and the idle      *)
(* thread, on one mutex or two.                                            *)
(***************************************************************************)
EXTENDS Mutex

CONSTANTS tidle, tlow, tmid, thigh, ma, mb

Three == {tidle, tlow, thigh}
Four  == {tidle, tlow, tmid, thigh}

PrioOf ==
  [t \in Thread |-> CASE t = tidle -> 3 [] t = tlow -> 2
                      [] t = tmid -> 1 [] t = thigh -> 0]

TickOf == [t \in Thread |-> IF t = tlow THEN 2 ELSE 1]

Priority == [q \in Queue |-> "PRIO"]

\* Everybody sleeps, so that threads of lower priority run.
MaySleep == (Thread \ {Idle}) \X {"sleep"}

\* Everybody takes and releases; thigh also detaches and initializes.
UsesAll ==
  ((Thread \ {Idle}) \X {"take", "release"}) \cup {<<thigh, "detach">>}

UsesNested == (Thread \ {Idle}) \X {"take", "release"}

\* No waiting, one tick, for ever.
WaitAny == {0, 1, Forever}
=============================================================================
