------------------------------ MODULE Mailbox ------------------------------
(***************************************************************************)
(* The mailbox of ipc.c: a ring of word-sized mails.  Senders that find it *)
(* full and receivers that find it empty wait and look again when they are *)
(* resumed; interrupt handlers send and receive without waiting.           *)
(*                                                                         *)
(*   mb       the mailbox: msg_pool, in_offset, out_offset and entry       *)
(*   mail[t]  the mail thread t is sending or has just received            *)
(***************************************************************************)
EXTENDS Channel

CONSTANTS Mail,         \* the values that are sent
          NoMail,       \* an entry of the pool that was never written
          MailboxSize   \* mb->size

VARIABLES mb, mail

mbVars == <<retryVars, mb, mail>>

ASSUME MailboxAssumption ==
  /\ NoMail \notin Mail
  /\ MailboxSize \in 1 .. 2^16 - 1

EmptyBox(pool) == [pool |-> pool, in |-> 0, out |-> 0, entry |-> 0]

MbStart ==
  /\ mb = EmptyBox([i \in 0 .. MailboxSize - 1 |-> NoMail])
  /\ mail = [t \in Thread |-> NoMail]

MbInit == RetryInit /\ MbStart

-----------------------------------------------------------------------------
Full == mb.entry = MailboxSize

\* Mutant: the offset is compared with the size before it is increased.
AdvanceLate(offset) == IF offset >= MailboxSize THEN 0 ELSE offset + 1

Advance(offset) == IF offset + 1 >= MailboxSize THEN 0 ELSE offset + 1

Posted(v) ==
  [mb EXCEPT !.pool[mb.in] = v, !.in = Advance(mb.in), !.entry = @ + 1]

Taken == [mb EXCEPT !.out = Advance(mb.out), !.entry = @ - 1]

\* The mail is put into the ring and the first waiting receiver is resumed.
Deposit(c, v) ==
  /\ mb' = Posted(v)
  /\ mail' = [mail EXCEPT ![c] = NoMail]
  /\ k' = WakeFirst(k, Receivers)
  /\ Completes(c, Receivers)

\* rt_mb_send_wait from the point where interrupts are disabled, in the call
\* and whenever the caller has been resumed; rt_mb_send has time 0.
SendLoop(c, v, time) ==
  /\ \/ ~ Full /\ Deposit(c, v)
     \/ /\ Full /\ time = 0
        /\ Return(c) /\ Leaves(c)
        /\ mail' = [mail EXCEPT ![c] = NoMail]
        /\ UNCHANGED <<k, mb>>
     \/ /\ Full /\ time # 0
        /\ Waits(c, Senders, time)
        /\ mail' = [mail EXCEPT ![c] = v]
        /\ UNCHANGED mb
  /\ UNCHANGED <<isr, obj>>

rt_mb_send_wait(c, v, time) == Asks(c, "send", Receivers) /\ SendLoop(c, v, time)

SendAgain(c) == Again(c, Senders) /\ SendLoop(c, mail[c], Remaining(wait[c]))

\* Mutant: no sender is told of the free entry.
WithdrawSilently(c) ==
  /\ mail' = [mail EXCEPT ![c] = mb.pool[mb.out]]
  /\ mb' = Taken
  /\ Goto(c, "mb_return", Senders)
  /\ Leaves(c)
  /\ UNCHANGED k

\* The oldest mail is taken and the first waiting sender is resumed.
Withdraw(c) ==
  /\ mail' = [mail EXCEPT ![c] = mb.pool[mb.out]]
  /\ mb' = Taken
  /\ k' = WakeFirst(k, Senders)
  /\ Goto(c, IF k.list[Senders] # << >> THEN "mb_sched" ELSE "mb_return", Senders)
  /\ Leaves(c)

\* rt_mb_recv from the point where interrupts are disabled; a caller that has
\* waited and gives up sets its error.
RecvLoop(c, time) ==
  /\ \/ mb.entry # 0 /\ Withdraw(c)
     \/ /\ mb.entry = 0 /\ time = 0
        /\ Return(c) /\ Leaves(c)
        /\ k' = IF pc[c].at = "run" THEN k ELSE [k EXCEPT !.err[c] = "ETIMEOUT"]
        /\ UNCHANGED <<mb, mail>>
     \/ /\ mb.entry = 0 /\ time # 0
        /\ Waits(c, Receivers, time)
        /\ UNCHANGED <<mb, mail>>
  /\ UNCHANGED <<isr, obj>>

rt_mb_recv(c, time) == Asks(c, "recv", Receivers) /\ RecvLoop(c, time)

RecvAgain(c) == Again(c, Receivers) /\ RecvLoop(c, Remaining(wait[c]))

RecvSchedule(c) ==
  /\ Executes(c, "mb_sched")
  /\ k' = rt_schedule(k)
  /\ Goto(c, "mb_return", Senders)
  /\ UNCHANGED <<isr, obj, wait, due, mb, mail>>

RecvReturn(c) ==
  /\ Executes(c, "mb_return")
  /\ Return(c)
  /\ mail' = [mail EXCEPT ![c] = NoMail]
  /\ UNCHANGED <<k, isr, obj, wait, due, mb>>

\* rt_mb_send in an interrupt handler.
IsrMbSend(v) ==
  /\ isr = "none" /\ <<"isr", "send">> \in Uses /\ obj[Receivers] = "live"
  /\ ~ Full
  /\ mb' = Posted(v)
  /\ k' = IF k.list[Receivers] # << >> THEN rt_schedule(WakeFirst(k, Receivers))
                                       ELSE k
  /\ UNCHANGED <<isr, pc, obj, wait, due, mail>>

\* rt_mb_control with RT_IPC_CMD_RESET.
rt_mb_control(c) ==
  /\ Asks(c, "reset", Receivers)
  /\ k' = ResumeBoth(k)
  /\ mb' = EmptyBox(mb.pool)
  /\ Goto(c, "sched", c)
  /\ UNCHANGED <<isr, obj, wait, due, mail>>

\* rt_mb_detach and rt_mb_delete.
rt_mb_detach(c) == DetachBoth(c) /\ UNCHANGED <<mb, mail>>

\* rt_mb_init and rt_mb_create.
rt_mb_init(c) ==
  InitializeBoth(c) /\ mb' = EmptyBox(mb.pool) /\ UNCHANGED mail

-----------------------------------------------------------------------------
MbNext ==
  \/ KernelStep /\ UNCHANGED <<mb, mail>>
  \/ \E c \in Thread :
       \/ ChannelContinue(c) /\ UNCHANGED <<mb, mail>>
       \/ SendAgain(c) \/ RecvAgain(c) \/ RecvSchedule(c) \/ RecvReturn(c)
       \/ \E v \in Mail, time \in WaitTime : rt_mb_send_wait(c, v, time)
       \/ \E time \in WaitTime : rt_mb_recv(c, time)
       \/ rt_mb_control(c) \/ rt_mb_detach(c) \/ rt_mb_init(c)
  \/ \E v \in Mail : IsrMbSend(v)

MbSpec == MbInit /\ [][MbNext]_mbVars

-----------------------------------------------------------------------------
(***************************************************************************)
(* No mail and no free entry goes unnoticed: receivers wait only while     *)
(* every mail in the box has a resumed receiver on its way to it, senders  *)
(* only while every free entry has a resumed sender.                       *)
(***************************************************************************)
MailNotMissed ==
  /\ k.list[Receivers] # << >> => mb.entry <= Cardinality(Granted(Receivers))
  /\ (\E t \in Members(k.list[Senders]) : mail[t] # NoMail) =>
       MailboxSize - mb.entry <= Cardinality(Granted(Senders))

\* The mails in the box, oldest first.
Contents ==
  [i \in 1 .. mb.entry |-> mb.pool[(mb.out + i - 1) % MailboxSize]]

Receiving ==
  [t \in Thread |-> IF pc[t].at \in {"mb_sched", "mb_return"} THEN mail[t]
                                                             ELSE NoMail]

MbChannel == INSTANCE ChannelSpec WITH
               Caller <- Thread, Message <- Mail, Size <- MailboxSize,
               Nothing <- NoMail, queue <- Contents, got <- Receiving

\* Every behaviour of the mailbox is one of a bounded channel: mails arrive
\* once, in order and unchanged, whatever waits, times out or is reset.
MailboxIsChannel == MbChannel!CSpec
=============================================================================
