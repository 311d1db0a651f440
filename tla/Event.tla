------------------------------- MODULE Event -------------------------------
(***************************************************************************)
(* The event set of ipc.c.  A thread waits for all or any of the bits it   *)
(* names, and may have the ones it receives cleared; a send tests every    *)
(* waiter in the order of the suspend list, against a set from which the   *)
(* bits of earlier waiters have already been cleared.                      *)
(*                                                                         *)
(*   set      event->set                                                   *)
(*   want[t]  thread->event_set and thread->event_info: the bits thread t  *)
(*            asked for, or has received once a send has resumed it        *)
(***************************************************************************)
EXTENDS Ipc

CONSTANTS Ev,          \* the event object
          Bit,         \* the events
          Request      \* what rt_event_recv is called with

VARIABLES set, want

evVars == <<ipcVars, set, want>>

RequestType == [bits : SUBSET Bit, all : BOOLEAN, clear : BOOLEAN]

ASSUME EventAssumption ==
  /\ Ev \in Queue
  /\ Request \subseteq RequestType
  /\ \A r \in Request : r.bits # {}

\* event_set and event_info outside rt_event_recv.
NoRequest == [bits |-> {}, all |-> FALSE, clear |-> FALSE]

EvStart == set = {} /\ want = [t \in Thread |-> NoRequest]

EvInit == InitStarted /\ EvStart

-----------------------------------------------------------------------------
\* The test of RT_EVENT_FLAG_AND and RT_EVENT_FLAG_OR.
Satisfied(s, r) == IF r.all THEN r.bits \subseteq s ELSE r.bits \cap s # {}

\* Mutant: the bits a CLEAR waiter named leave the set whether it is satisfied
\* or not.
ServeDropsBits(e, t) ==
  LET r   == e.want[t]
      got == IF r.all THEN r.bits ELSE r.bits \cap e.set
      ok  == Satisfied(e.set, r)
  IN  [k    |-> IF ok THEN rt_thread_resume(e.k, t) ELSE e.k,
       set  |-> IF r.clear THEN e.set \ r.bits ELSE e.set,
       want |-> IF ok THEN [e.want EXCEPT ![t].bits = got] ELSE e.want]

\* One round of rt_event_send's loop over the waiters.
Serve(e, t) ==
  LET r   == e.want[t]
      got == IF r.all THEN r.bits ELSE r.bits \cap e.set
  IN  IF Satisfied(e.set, r)
        THEN [k    |-> rt_thread_resume(e.k, t),
              set  |-> IF r.clear THEN e.set \ got ELSE e.set,
              want |-> [e.want EXCEPT ![t].bits = got]]
        ELSE e

\* Mutant: the loop ends with the first waiter, as for a semaphore.
EventPutFirst(bits) ==
  LET e == [k |-> k, set |-> set \cup bits, want |-> want]
  IN  IF k.list[Ev] = << >> THEN e ELSE Serve(e, Head(k.list[Ev]))

\* The critical section of rt_event_send: one round per waiter.
EventPut(bits) ==
  LET waiters == k.list[Ev]
      round[n \in 0 .. Len(waiters)] ==
        IF n = 0 THEN [k |-> k, set |-> set \cup bits, want |-> want]
                 ELSE Serve(round[n - 1], waiters[n])
  IN  round[Len(waiters)]

rt_event_send(c, bits) ==
  /\ Asks(c, "send", Ev)
  /\ LET e == EventPut(bits)
     IN  /\ k' = e.k /\ set' = e.set /\ want' = e.want
         /\ IF e.k # k THEN Goto(c, "sched", c) ELSE UNCHANGED pc
  /\ UNCHANGED <<isr, obj>>

\* rt_event_send in an interrupt handler.
IsrSend(bits) ==
  /\ isr = "none" /\ <<"isr", "send">> \in Uses /\ obj[Ev] = "live"
  /\ LET e == EventPut(bits)
     IN  /\ k' = IF e.k # k THEN rt_schedule(e.k) ELSE k
         /\ set' = e.set /\ want' = e.want
  /\ UNCHANGED <<isr, obj, pc>>

rt_event_recv(c, r, time) ==
  /\ Asks(c, "recv", Ev)
  /\ LET e == [k EXCEPT !.err[c] = "EOK"]
     IN  \/ /\ Satisfied(set, r)
            /\ set' = IF r.clear THEN set \ r.bits ELSE set
            /\ k' = e
            /\ UNCHANGED <<pc, want>>
         \/ /\ ~ Satisfied(set, r) /\ time = 0
            /\ k' = [k EXCEPT !.err[c] = "ETIMEOUT"]
            /\ UNCHANGED <<pc, set, want>>
         \/ /\ ~ Satisfied(set, r) /\ time # 0
            /\ want' = [want EXCEPT ![c] = r]
            /\ k' = Block(k, Ev, c, time)
            /\ Goto(c, "ipc_sched", Ev)
            /\ UNCHANGED set
  /\ UNCHANGED <<isr, obj>>

\* The call returns thread->error or the received bits.  event_set and
\* event_info are not read outside a call: the model forgets them.
EventReturn(c) ==
  BlockEnd(c) /\ want' = [want EXCEPT ![c] = NoRequest] /\ UNCHANGED set

\* rt_event_control with RT_IPC_CMD_RESET.
rt_event_control(c) ==
  /\ Asks(c, "reset", Ev)
  /\ k' = rt_ipc_list_resume_all(k, Ev)
  /\ set' = {}
  /\ Goto(c, "sched", c)
  /\ UNCHANGED <<isr, obj, want>>

\* rt_event_detach and rt_event_delete.
rt_event_detach(c) == Detach(c, Ev) /\ UNCHANGED <<set, want>>

\* rt_event_init and rt_event_create.
rt_event_init(c) == Initialize(c, Ev) /\ set' = {} /\ UNCHANGED want

-----------------------------------------------------------------------------
SentBits == SUBSET Bit \ {{}}

EvInvoke(c) ==
  \/ \E bits \in SentBits : rt_event_send(c, bits)
  \/ \E r \in Request, time \in WaitTime : rt_event_recv(c, r, time)
  \/ rt_event_control(c) \/ rt_event_detach(c) \/ rt_event_init(c)

EvNext ==
  \/ Next /\ UNCHANGED <<obj, set, want>>
  \/ \E c \in Thread :
       \/ EventReturn(c)
       \/ (BlockSchedule(c) \/ ResumeAllTest(c) \/ ResumeAllNext(c)) /\ UNCHANGED <<set, want>>
  \/ \E c \in Thread : EvInvoke(c)
  \/ \E bits \in SentBits : IsrSend(bits)

EvSpec == EvInit /\ [][EvNext]_evVars

-----------------------------------------------------------------------------
\* The types of the variables.
EvTypeOK == IpcTypeOK /\ set \subseteq Bit /\ want \in [Thread -> RequestType]

(***************************************************************************)
(* No event is missed: while a thread waits, the set does not satisfy its  *)
(* request, although sends, receives and timeouts of others come in        *)
(* between and a send serves several waiters at once.                      *)
(***************************************************************************)
EventNotMissed ==
  \A t \in Members(k.list[Ev]) : t \in Inside(Ev) /\ ~ Satisfied(set, want[t])

(***************************************************************************)
(* RT_EVENT_FLAG_CLEAR hands an event to one receiver: of the bits that    *)
(* are set or sent, a send takes away exactly those its CLEAR receivers    *)
(* get, and no bit goes to two of them; every resumed thread gets what it  *)
(* asked for, all of it or a part, and only a send resumes one.            *)
(***************************************************************************)
Served == Granted(Ev)' \ Granted(Ev)

Sending(bits) == IsrSend(bits) \/ \E c \in Thread : rt_event_send(c, bits)

EventsClearedOnce ==
  [][LET clearing == {t \in Served : want[t].clear}
     IN  /\ \A t \in Served : Satisfied(want'[t].bits, want[t])
                              /\ want'[t].bits \subseteq want[t].bits
         /\ \A t, u \in clearing :
              t # u => want'[t].bits \cap want'[u].bits = {}
         /\ \A bits \in SentBits : Sending(bits) =>
              set' = (set \cup bits) \ UNION {want'[t].bits : t \in clearing}
         /\ Served # {} => \E bits \in SentBits : Sending(bits)]_evVars
=============================================================================
