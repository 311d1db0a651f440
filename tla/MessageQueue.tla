---------------------------- MODULE MessageQueue ----------------------------
(***************************************************************************)
(* The message queue of ipc.c.  A sender takes a slot off the free list in *)
(* one critical section, fills it with interrupts enabled and links it     *)
(* into the queue in another; a receiver unlinks the first slot, copies it *)
(* out with interrupts enabled and then frees it.  In between the slot     *)
(* belongs to the caller.                                                  *)
(*                                                                         *)
(*   mq       msg_queue_head, msg_queue_tail, msg_queue_free and entry     *)
(*   next, data   the next pointer of each slot and its contents           *)
(*   own[t]   what thread t holds: a slot, or the message it wants to send *)
(***************************************************************************)
EXTENDS Channel

CONSTANTS Msg,          \* the messages that are sent
          NoMsg,        \* the contents of a slot that was never written
          MaxMsgs       \* mq->max_msgs

VARIABLES mq, next, data, own

mqObject == <<mq, next, data>>

mqVars == <<retryVars, mqObject, own>>

ASSUME MessageQueueAssumption ==
  /\ NoMsg \notin Msg
  /\ MaxMsgs \in Nat \ {0}

Slot == 1 .. MaxMsgs

Null == 0               \* RT_NULL

Nothing == [slot |-> Null, msg |-> NoMsg]

\* rt_mq_init links the slots into the free list, the last one first.
EmptyQueue == [head |-> Null, tail |-> Null, free |-> MaxMsgs, entry |-> 0]

MqStart ==
  /\ mq = EmptyQueue
  /\ next = [s \in Slot |-> s - 1]
  /\ data = [s \in Slot |-> NoMsg]
  /\ own = [t \in Thread |-> Nothing]

MqInit == RetryInit /\ MqStart

-----------------------------------------------------------------------------
\* A slot leaves the free list.  rt_mq_send_wait and rt_mq_urgent take it
\* before they copy the message.
TakeSlot(c, v, label) ==
  /\ mq' = [mq EXCEPT !.free = next[mq.free]]
  /\ own' = [own EXCEPT ![c] = [slot |-> mq.free, msg |-> v]]
  /\ Goto(c, label, Senders)
  /\ Leaves(c)
  /\ UNCHANGED <<k, next, data>>

\* rt_mq_send_wait from the point where interrupts are disabled.
SendSlot(c, v, time) ==
  /\ \/ mq.free # Null /\ TakeSlot(c, v, "mq_send")
     \/ /\ mq.free = Null /\ time = 0
        /\ Return(c) /\ Leaves(c)
        /\ own' = [own EXCEPT ![c] = Nothing]
        /\ UNCHANGED <<k, mqObject>>
     \/ /\ mq.free = Null /\ time # 0
        /\ Waits(c, Senders, time)
        /\ own' = [own EXCEPT ![c] = [slot |-> Null, msg |-> v]]
        /\ UNCHANGED mqObject
  /\ UNCHANGED <<isr, obj>>

rt_mq_send_wait(c, v, time) == Asks(c, "send", Receivers) /\ SendSlot(c, v, time)

MqSendAgain(c) ==
  Again(c, Senders) /\ SendSlot(c, own[c].msg, Remaining(wait[c]))

rt_mq_urgent(c, v) ==
  /\ Asks(c, "urgent", Receivers)
  /\ mq.free # Null
  /\ TakeSlot(c, v, "mq_urgent")
  /\ UNCHANGED <<isr, obj>>

\* Slot s goes to the end of queue q.
LinkLast(q, s) ==
  [mq   |-> [q EXCEPT !.tail = s, !.head = IF @ = Null THEN s ELSE @,
                      !.entry = @ + 1],
   next |-> [x \in Slot |-> IF x = s THEN Null
                            ELSE IF x = q.tail THEN s ELSE next[x]]]

\* Mutant: the tail of an empty queue is not set.
LinkFirstKeepsTail(q, s) ==
  [mq   |-> [q EXCEPT !.head = s, !.entry = @ + 1],
   next |-> [next EXCEPT ![s] = q.head]]

\* An urgent message goes to the front.
LinkFirst(q, s) ==
  [mq   |-> [q EXCEPT !.head = s, !.tail = IF @ = Null THEN s ELSE @,
                      !.entry = @ + 1],
   next |-> [next EXCEPT ![s] = q.head]]

\* The second critical section of rt_mq_send_wait and rt_mq_urgent: the message
\* has been copied.
LinkSlot(c) ==
  LET s == own[c].slot
      q == IF pc[c].at = "mq_send" THEN LinkLast(mq, s) ELSE LinkFirst(mq, s)
  IN  /\ Executes(c, "mq_send") \/ Executes(c, "mq_urgent")
      /\ mq' = q.mq /\ next' = q.next
      /\ data' = [data EXCEPT ![s] = own[c].msg]
      /\ own' = [own EXCEPT ![c] = Nothing]
      /\ k' = WakeFirst(k, Receivers)
      /\ Completes(c, Receivers)
      /\ UNCHANGED <<isr, obj>>

\* rt_mq_send in an interrupt handler: no thread runs between its two critical
\* sections.
IsrMqSend(v) ==
  LET s == mq.free
      q == LinkLast([mq EXCEPT !.free = next[s]], s)
  IN  /\ isr = "none" /\ <<"isr", "send">> \in Uses /\ obj[Receivers] = "live"
      /\ s # Null
      /\ mq' = q.mq /\ next' = q.next
      /\ data' = [data EXCEPT ![s] = v]
      /\ k' = IF k.list[Receivers] # << >> THEN rt_schedule(WakeFirst(k, Receivers))
                                           ELSE k
      /\ UNCHANGED <<isr, pc, obj, wait, due, own>>

\* Mutant: the tail still points to the slot that has been taken.
UnlinkKeepsTail == [mq EXCEPT !.head = next[mq.head], !.entry = @ - 1]

\* The first slot leaves the queue.
Unlink ==
  [mq EXCEPT !.head = next[mq.head],
             !.tail = IF @ = mq.head THEN Null ELSE @, !.entry = @ - 1]

\* rt_mq_recv from the point where interrupts are disabled.
RecvSlot(c, time) ==
  /\ \/ /\ mq.entry # 0
        /\ mq' = Unlink
        /\ own' = [own EXCEPT ![c] = [slot |-> mq.head, msg |-> NoMsg]]
        /\ Goto(c, "mq_free", Senders)
        /\ Leaves(c)
        /\ UNCHANGED <<k, next, data>>
     \/ /\ mq.entry = 0 /\ time = 0
        /\ Return(c) /\ Leaves(c)
        /\ k' = IF pc[c].at = "run" THEN k ELSE [k EXCEPT !.err[c] = "ETIMEOUT"]
        /\ UNCHANGED <<mqObject, own>>
     \/ /\ mq.entry = 0 /\ time # 0
        /\ Waits(c, Receivers, time)
        /\ UNCHANGED <<mqObject, own>>
  /\ UNCHANGED <<isr, obj>>

rt_mq_recv(c, time) == Asks(c, "recv", Receivers) /\ RecvSlot(c, time)

MqRecvAgain(c) == Again(c, Receivers) /\ RecvSlot(c, Remaining(wait[c]))

\* Mutant: nobody is told of the free slot.
FreeSlotSilently(c) ==
  /\ Executes(c, "mq_free")
  /\ next' = [next EXCEPT ![own[c].slot] = mq.free]
  /\ mq' = [mq EXCEPT !.free = own[c].slot]
  /\ own' = [own EXCEPT ![c] = Nothing]
  /\ Return(c)
  /\ Leaves(c)
  /\ UNCHANGED <<k, isr, obj, data>>

\* The message has been copied out of the slot, which becomes free; the first
\* waiting sender is resumed.
FreeSlot(c) ==
  /\ Executes(c, "mq_free")
  /\ next' = [next EXCEPT ![own[c].slot] = mq.free]
  /\ mq' = [mq EXCEPT !.free = own[c].slot]
  /\ own' = [own EXCEPT ![c] = Nothing]
  /\ k' = WakeFirst(k, Senders)
  /\ Completes(c, Senders)
  /\ UNCHANGED <<isr, obj, data>>

\* The slots that are reached from s by next, in order.
Chain(s) ==
  LET nth[n \in 0 .. MaxMsgs] ==
        IF n = 0 THEN s ELSE IF nth[n - 1] = Null THEN Null ELSE next[nth[n - 1]]
      length == Cardinality({n \in 0 .. MaxMsgs - 1 : nth[n] # Null})
  IN  [i \in 1 .. length |-> nth[i - 1]]

\* The loop of the reset: each queued slot in turn goes to the free list.
Recycled ==
  LET queued == Chain(mq.head)
      round[n \in 0 .. Len(queued)] ==
        IF n = 0
          THEN [free |-> mq.free, next |-> next]
          ELSE [free |-> queued[n],
                next |-> [round[n - 1].next EXCEPT ![queued[n]] = round[n - 1].free]]
  IN  round[Len(queued)]

\* rt_mq_control with RT_IPC_CMD_RESET.
rt_mq_control(c) ==
  /\ Asks(c, "reset", Receivers)
  /\ k' = ResumeBoth(k)
  /\ mq' = [head |-> Null, tail |-> Null, free |-> Recycled.free, entry |-> 0]
  /\ next' = Recycled.next
  /\ Goto(c, "sched", c)
  /\ UNCHANGED <<isr, obj, wait, due, data, own>>

\* rt_mq_detach and rt_mq_delete.
rt_mq_detach(c) ==
  /\ DetachBoth(c)
  /\ \A t \in Thread : own[t].slot = Null
  /\ UNCHANGED <<mqObject, own>>

\* rt_mq_init and rt_mq_create.
rt_mq_init(c) ==
  /\ InitializeBoth(c)
  /\ mq' = EmptyQueue
  /\ next' = [s \in Slot |-> s - 1]
  /\ UNCHANGED <<data, own>>

-----------------------------------------------------------------------------
MqNext ==
  \/ KernelStep /\ UNCHANGED <<mqObject, own>>
  \/ \E c \in Thread :
       \/ ChannelContinue(c) /\ UNCHANGED <<mqObject, own>>
       \/ MqSendAgain(c) \/ MqRecvAgain(c) \/ LinkSlot(c) \/ FreeSlot(c)
       \/ \E v \in Msg : \/ rt_mq_urgent(c, v)
                         \/ \E time \in WaitTime : rt_mq_send_wait(c, v, time)
       \/ \E time \in WaitTime : rt_mq_recv(c, time)
       \/ rt_mq_control(c) \/ rt_mq_detach(c) \/ rt_mq_init(c)
  \/ \E v \in Msg : IsrMqSend(v)

MqSpec == MqInit /\ [][MqNext]_mqVars

-----------------------------------------------------------------------------
HeldSlots == {own[t].slot : t \in Thread} \ {Null}

(***************************************************************************)
(* Every slot is in the queue, in the free list or held by exactly one     *)
(* caller; head, tail, entry and the links agree.                          *)
(***************************************************************************)
SlotsConserved ==
  LET linked == Chain(mq.head) \o Chain(mq.free)
      held   == {t \in Thread : own[t].slot # Null}
  IN  /\ Len(Chain(mq.head)) = mq.entry
      /\ mq.tail = IF mq.entry = 0 THEN Null ELSE Last(Chain(mq.head))
      /\ Len(linked) + Cardinality(held) = MaxMsgs
      /\ Members(linked) \cup HeldSlots = Slot

(***************************************************************************)
(* No message and no free slot goes unnoticed: receivers wait only while   *)
(* every message has a resumed receiver on its way to it, senders only     *)
(* while every free slot has a resumed sender.                             *)
(***************************************************************************)
MessageNotMissed ==
  /\ k.list[Receivers] # << >> => mq.entry <= Cardinality(Granted(Receivers))
  /\ (\E t \in Members(k.list[Senders]) : own[t].msg # NoMsg) =>
       Len(Chain(mq.free)) <= Cardinality(Granted(Senders))

QueuedMessages == [i \in 1 .. Len(Chain(mq.head)) |-> data[Chain(mq.head)[i]]]

Copying ==
  [t \in Thread |-> IF pc[t].at = "mq_free" THEN data[own[t].slot] ELSE NoMsg]

MqChannel == INSTANCE ChannelSpec WITH
               Caller <- Thread, Message <- Msg, Size <- MaxMsgs,
               Nothing <- NoMsg, queue <- QueuedMessages, got <- Copying

\* Every behaviour of the message queue is one of a bounded channel: messages
\* arrive once, in order (urgent ones first) and unchanged, although they are
\* copied while other callers run.
QueueIsChannel == MqChannel!CSpec
=============================================================================
