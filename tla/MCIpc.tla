------------------------------- MODULE MCIpc -------------------------------
(***************************************************************************)
(* A small instance of the objects that are built on the suspend lists:    *)
(* two threads of different priorities and the idle thread use one object, *)
(* an event set, a mailbox, a message queue, a memory pool, a completion   *)
(* or a work queue.  Which one is chosen in the initial state; the others  *)
(* are not touched.                                                        *)
(***************************************************************************)
EXTENDS Event, Mailbox, MessageQueue, MemPool, Completion, WorkQueue

CONSTANTS tidle, tlow, thigh, ev, rq, sq, mp, cm, ws,
          Apps      \* the objects that may be chosen

VARIABLE app        \* the object that is used

Three == {tidle, tlow, thigh}

PrioOf ==
  [t \in Thread |-> CASE t = tidle -> 2 [] t = thigh -> 0 [] OTHER -> 1]

TickOf == [t \in Thread |-> 1]

Fifo == [q \in Queue |-> "FIFO"]

\* No waiting, two ticks, for ever.
WaitAny == {0, 2, Forever}

\* The thread of the higher priority sleeps, so that the other one runs.
MaySleep == {<<thigh, "sleep">>}

\* Both threads wait for a completion and complete it, as an interrupt does;
\* the thread that is not the work thread submits and cancels works.
UsesDevice ==
  ((Thread \ {Idle}) \X {"wait", "done", "restart", "submit", "critical",
                         "cancel", "cancel_all"})
    \cup {<<"isr", "done">>}

\* Both threads receive, allocate and free, tlow also sends, resets and
\* detaches, thigh sends urgent messages; an interrupt sends and frees.
UsesAll ==
  ((Thread \ {Idle}) \X {"recv", "alloc", "free"})
    \cup ({tlow} \X {"send", "reset", "detach"})
    \cup {<<thigh, "urgent">>, <<"isr", "send">>, <<"isr", "free">>}
    \cup UsesDevice

\* Clear event 1, wait for both events and clear them, wait for either.
Requests ==
  {[bits |-> {1},    all |-> FALSE, clear |-> TRUE],
   [bits |-> {1, 2}, all |-> TRUE,  clear |-> TRUE],
   [bits |-> {1, 2}, all |-> FALSE, clear |-> FALSE]}

\* What a message says is not looked at.
Symm == Permutations(Mail)

eventObject == <<set, want>>
mailObject  == <<mb, mail>>
queueObject == <<mqObject, own>>
retryObject == <<wait, due>>

ObjectsInit ==
  /\ app \in Apps
  /\ IF app = "work" THEN Started /\ WqEntry ELSE InitStarted
  /\ EvStart /\ RetryStart /\ MbStart /\ MqStart /\ MpStart /\ CompStart /\ WqStart

ObjectsNext ==
  /\ \/ /\ app = "event" /\ EvNext
        /\ UNCHANGED <<retryObject, mailObject, queueObject, pool, done, wq>>
     \/ /\ app = "mailbox" /\ MbNext
        /\ UNCHANGED <<eventObject, queueObject, pool, done, wq>>
     \/ /\ app = "queue" /\ MqNext
        /\ UNCHANGED <<eventObject, mailObject, pool, done, wq>>
     \/ /\ app = "pool" /\ MpNext
        /\ UNCHANGED <<eventObject, mailObject, queueObject, done, wq>>
     \/ /\ app = "completion" /\ CompNext
        /\ UNCHANGED <<eventObject, retryObject, mailObject, queueObject, pool, wq>>
     \/ /\ app = "work" /\ WqNext
        /\ UNCHANGED <<eventObject, retryObject, mailObject, queueObject, pool, done>>
  /\ UNCHANGED app

ObjectsSpec ==
  ObjectsInit
    /\ [][ObjectsNext]_<<retryVars, eventObject, mailObject, queueObject, pool,
                         done, wq, app>>
=============================================================================
