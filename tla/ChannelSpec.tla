---------------------------- MODULE ChannelSpec ----------------------------
(***************************************************************************)
(* What a bounded channel promises: messages are handed to receivers in    *)
(* the order they were sent, urgent ones before all others, each to one    *)
(* receiver and unchanged, and none is lost unless the channel is reset.   *)
(***************************************************************************)
EXTENDS Naturals, Sequences

CONSTANTS Caller, Message, Size, Nothing

VARIABLES queue,     \* the messages in the channel
          got        \* the message each caller is receiving

cVars == <<queue, got>>

CInit == queue = << >> /\ got = [c \in Caller |-> Nothing]

CSend(m) ==
  Len(queue) < Size /\ queue' = Append(queue, m) /\ UNCHANGED got

CUrgent(m) ==
  Len(queue) < Size /\ queue' = <<m>> \o queue /\ UNCHANGED got

CReceive(c) ==
  /\ queue # << >>
  /\ got' = [got EXCEPT ![c] = Head(queue)]
  /\ queue' = Tail(queue)

CReturn(c) == got' = [got EXCEPT ![c] = Nothing] /\ UNCHANGED queue

CReset == queue' = << >> /\ UNCHANGED got

CNext ==
  \/ \E m \in Message : CSend(m) \/ CUrgent(m)
  \/ \E c \in Caller : CReceive(c) \/ CReturn(c)
  \/ CReset

CSpec == CInit /\ [][CNext]_cVars
=============================================================================
