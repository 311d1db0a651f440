------------------------------- MODULE Mutex -------------------------------
(***************************************************************************)
(* The mutex of ipc.c: it can be taken again by its owner, it is handed    *)
(* over to the first waiter, and its owner runs with the priority of the   *)
(* highest thread that has had to wait for it until it releases the mutex. *)
(***************************************************************************)
EXTENDS Ipc

CONSTANTS Mtx,        \* the mutexes
          Nobody,     \* RT_NULL
          MaxHold     \* bound on the nesting of rt_mutex_take

VARIABLE mtx          \* the fields of each mutex

mtxVars == <<ipcVars, mtx>>

NoPrio == 255

ASSUME MutexAssumption ==
  /\ Mtx \subseteq Queue
  /\ Nobody \notin Thread
  /\ MaxHold \in 1 .. 255

Free == [value |-> 1, owner |-> Nobody, orig |-> NoPrio, hold |-> 0]

MtxInit == InitStarted /\ mtx = [m \in Mtx |-> Free]

-----------------------------------------------------------------------------
\* Thread t becomes the owner; its priority is what its release will restore.
Owned(m, t, kk) ==
  [m EXCEPT !.owner = t, !.orig = kk.prio[t], !.hold = (@ + 1) % 256]

\* Mutant: the owner's priority is left alone.
NoInherit(kk, owner, t) == kk

\* The owner inherits the priority of a thread that will wait for it.
Inherit(kk, owner, t) ==
  IF kk.prio[t] < kk.prio[owner]
    THEN ChangePriority(kk, owner, kk.prio[t])
    ELSE kk

rt_mutex_take(c, m, time) ==
  LET e == [k EXCEPT !.err[c] = "EOK"]
  IN  /\ Asks(c, "take", m)
      /\ \/ /\ mtx[m].owner = c /\ mtx[m].hold < MaxHold
            /\ mtx' = [mtx EXCEPT ![m].hold = (@ + 1) % 256]
            /\ k' = e
            /\ UNCHANGED pc
         \/ /\ mtx[m].owner # c /\ mtx[m].value > 0
            /\ mtx' = [mtx EXCEPT ![m] = Owned([mtx[m] EXCEPT !.value = @ - 1], c, k)]
            /\ k' = e
            /\ UNCHANGED pc
         \/ /\ mtx[m].owner # c /\ mtx[m].value = 0 /\ time = 0
            /\ k' = [k EXCEPT !.err[c] = "ETIMEOUT"]
            /\ UNCHANGED <<mtx, pc>>
         \/ /\ mtx[m].owner # c /\ mtx[m].value = 0 /\ time # 0
            /\ k' = Block(Inherit(k, mtx[m].owner, c), m, c, time)
            /\ Goto(c, "ipc_sched", m)
            /\ UNCHANGED mtx
      /\ UNCHANGED <<isr, obj>>

\* Mutant: the owner keeps the priority it has inherited.
RestoreNothing(kk, m) == kk

\* The owner that lets go gets back the priority it had when it took the mutex.
Restore(kk, m) ==
  IF m.orig # kk.prio[m.owner] THEN ChangePriority(kk, m.owner, m.orig) ELSE kk

\* Mutant: whoever calls rt_mutex_release releases the mutex.
MutexReleaseByAnyone(c, m) ==
  /\ Asks(c, "release", m)
  /\ mtx[m].owner # Nobody
  /\ k' = Restore(k, mtx[m])
  /\ mtx' = [mtx EXCEPT ![m] = Free]
  /\ UNCHANGED <<isr, obj, pc>>

\* rt_mutex_release.  The owner's last release restores its priority and hands
\* the mutex to the first waiter; with no waiter nothing is scheduled.
rt_mutex_release(c, m) ==
  /\ Asks(c, "release", m)
  /\ \/ /\ mtx[m].owner # c
        /\ k' = [k EXCEPT !.err[c] = "ERROR"]
        /\ UNCHANGED <<mtx, pc>>
     \/ /\ mtx[m].owner = c /\ mtx[m].hold > 1
        /\ mtx' = [mtx EXCEPT ![m].hold = @ - 1]
        /\ UNCHANGED <<k, pc>>
     \/ /\ mtx[m].owner = c /\ mtx[m].hold = 1 /\ k.list[m] = << >>
        /\ k' = Restore(k, mtx[m])
        /\ mtx' = [mtx EXCEPT ![m] = Free]
        /\ UNCHANGED pc
     \/ /\ mtx[m].owner = c /\ mtx[m].hold = 1 /\ k.list[m] # << >>
        /\ LET r == Restore(k, mtx[m])
               w == Head(k.list[m])
           IN  /\ k' = rt_ipc_list_resume(r, m)
               /\ mtx' = [mtx EXCEPT ![m] = Owned([mtx[m] EXCEPT !.hold = 0], w, r)]
        /\ Goto(c, "sched", c)
  /\ UNCHANGED <<isr, obj>>

\* rt_mutex_detach and rt_mutex_delete, of a mutex the caller owns or nobody
\* owns; rt_mutex_init and rt_mutex_create.
rt_mutex_detach(c, m) ==
  Detach(c, m) /\ mtx[m].owner \in {c, Nobody} /\ UNCHANGED mtx

rt_mutex_init(c, m) == Initialize(c, m) /\ mtx' = [mtx EXCEPT ![m] = Free]

-----------------------------------------------------------------------------
MtxInvoke(c) ==
  \E m \in Mtx :
    \/ \E time \in WaitTime : rt_mutex_take(c, m, time)
    \/ rt_mutex_release(c, m)
    \/ rt_mutex_detach(c, m) \/ rt_mutex_init(c, m)

MtxNext ==
  \/ Next /\ UNCHANGED <<obj, mtx>>
  \/ \E c \in Thread : IpcContinue(c) /\ UNCHANGED mtx
  \/ \E c \in Thread : MtxInvoke(c)

MtxSpec == MtxInit /\ [][MtxNext]_mtxVars

-----------------------------------------------------------------------------
\* The types of the variables; an owner holds the mutex at least once.
MtxTypeOK ==
  /\ IpcTypeOK
  /\ mtx \in [Mtx -> {Free} \cup [value : {0}, owner : Thread, orig : Prio,
                                  hold : 1 .. 255]]

(***************************************************************************)
(* Mutual exclusion and hand-over: rt_mutex_take has succeeded for nobody  *)
(* but the owner, the owner does not wait for its own mutex, and threads   *)
(* wait only while the mutex is owned.                                     *)
(***************************************************************************)
OwnerIsAlone ==
  \A m \in Mtx : obj[m] = "live" =>
    /\ Granted(m) \subseteq {mtx[m].owner}
    /\ mtx[m].owner \notin Members(k.list[m])
    /\ Members(k.list[m]) = Waiting(m)
    /\ mtx[m].owner = Nobody => k.list[m] = << >>

(***************************************************************************)
(* Priority inheritance: with waiters queued by priority, the owner of a   *)
(* mutex is never below a thread that waits for it.                        *)
(***************************************************************************)
OwnerInherits ==
  \A m \in Mtx : obj[m] = "live" =>
    \A t \in Waiting(m) : k.prio[mtx[m].owner] <= k.prio[t]

(***************************************************************************)
(* "change the owner thread to original priority": a thread that owns no   *)
(* mutex has the priority it was created with.                             *)
(***************************************************************************)
BoostEnds ==
  \A t \in Thread :
    (\A m \in Mtx : mtx[m].owner # t) => k.prio[t] = InitPrio[t]
=============================================================================
