------------------------------- MODULE Timer -------------------------------
(***************************************************************************)
(* The timers of timer.c.  Hard timers are in rt_timer_list and fire in    *)
(* the tick interrupt, soft timers are in rt_soft_timer_list and fire in   *)
(* the timer thread, which sleeps on a hard timer of its own.  Times are   *)
(* ticks modulo TickMax + 1.                                               *)
(*                                                                         *)
(* The timer thread has a higher priority than the application thread: the *)
(* application takes a step only while the timer thread is suspended.  The *)
(* tick interrupt comes between any two steps, and what it does, callbacks *)
(* included, it does with interrupts disabled.                             *)
(*                                                                         *)
(*   tick      rt_tick                                                     *)
(*   s         the timers: hard and soft are the two lists, and for each   *)
(*             timer its fields, of which there is FALSE once the timer is *)
(*             detached; thread is the state of the timer thread           *)
(*   isr       "check" while the interrupt is in rt_timer_check            *)
(*   call[a]   the call of rt_timer_start, rt_timer_stop or                *)
(*             rt_timer_control that thread a is in, and its timer; at     *)
(*             "store" the value that is to be written to its flag         *)
(*   tt        where the timer thread is, and its local variables          *)
(*                                                                         *)
(* and, for the properties only, s.due, the ticks until a started timer is *)
(* to fire, s.quiet, the timers that were stopped or detached and not      *)
(* started since, and s.blind, TRUE when the timer thread has taken a      *)
(* timeout of RT_TICK_MAX for an empty list.                               *)
(***************************************************************************)
EXTENDS Integers, Sequences, SequencesExt

CONSTANTS Hard,          \* the application's hard timers
          Soft,          \* its soft timers
          ThreadTimer,   \* the thread timer of the timer thread
          TickMax,       \* RT_TICK_MAX
          Delay,         \* the times the timers are set to
          Time,          \* Time[i]: the time timer i is initialized with
          Periodic,      \* the timers that are initialized as periodic ones
          MaxLate,       \* bound on the ticks a thread is kept from running
          Ops            \* <<a, op, i>>: the application (a = "app") or the
                         \* callback of timer a does op to timer i

VARIABLES tick, s, isr, call, tt

timerVars == <<tick, s, isr, call, tt>>

Timer == Hard \cup Soft \cup {ThreadTimer}

Half == TickMax \div 2

Nil == "nil"

ASSUME TimerAssumption ==
  /\ Hard \cap Soft = {} /\ ThreadTimer \notin Hard \cup Soft
  /\ Nil \notin Timer /\ "app" \notin Timer
  /\ TickMax \in Nat /\ MaxLate \in Nat
  /\ Time \in [Timer -> Delay] /\ Periodic \subseteq Hard \cup Soft
  /\ \A d \in Delay : d \in Nat \ {0} /\ d + MaxLate < Half
  /\ \A o \in Ops : o[3] \in Hard \cup Soft

Add(a, b) == (a + b) % (TickMax + 1)

\* a - b in rt_tick_t.
Minus(a, b) == (a - b) % (TickMax + 1)

Listed(v) == {v.hard[p] : p \in DOMAIN v.hard} \cup {v.soft[p] : p \in DOMAIN v.soft}

Thinks == [at |-> "next", val |-> 0, cur |-> 0, n |-> Nil, t |-> Nil]

NoCall == [at |-> "none", t |-> Nil]

\* The timers are initialized and the timer thread is about to look for the
\* first soft timer.
TimerInit ==
  /\ tick = 0
  /\ s = [hard |-> << >>, soft |-> << >>, thread |-> "READY",
          timeout |-> [i \in Timer |-> 0], active |-> [i \in Timer |-> FALSE],
          init |-> Time, periodic |-> [i \in Timer |-> i \in Periodic],
          there |-> [i \in Timer |-> TRUE],
          due |-> [i \in Timer |-> 0], quiet |-> [i \in Timer |-> FALSE],
          blind |-> FALSE]
  /\ isr = "none"
  /\ call = [a \in {"app", "tt"} |-> NoCall]
  /\ tt = Thinks

-----------------------------------------------------------------------------
(***************************************************************************)
(* The critical sections.                                                  *)
(***************************************************************************)
\* rt_list_remove: the node of a timer is at most once in a list.
Unlinked(l, i) ==
  IF \E q \in DOMAIN l : l[q] = i
    THEN RemoveAt(l, CHOOSE q \in DOMAIN l : l[q] = i) ELSE l

\* _rt_timer_remove.  The timeout of a timer that is in no list is forgotten:
\* it is read only when the timer thread still has a pointer to the timer.
_rt_timer_remove(v, i) ==
  [v EXCEPT !.hard = Unlinked(@, i), !.soft = Unlinked(@, i), !.due[i] = 0,
            !.timeout[i] = IF i = tt.n THEN @ ELSE 0]

Deactivated(v, i) == [v EXCEPT !.active[i] = FALSE]

\* rt_timer_start up to the first rt_hw_interrupt_enable.
StartUnlink(v, i) == Deactivated(_rt_timer_remove(v, i), i)

StartTimeout(v, i, d) ==
  [v EXCEPT !.timeout[i] = Add(tick, d), !.due[i] = d]

\* Mutant: timeouts are compared as plain numbers.
IsBeforePlain(v, i, j) == v.timeout[j] > v.timeout[i]

\* The search for the timer's place stops before j.
IsBefore(v, i, j) ==
  LET d == Minus(v.timeout[j], v.timeout[i]) IN d # 0 /\ d < Half

Place(v, l, i) ==
  LET later == {p \in DOMAIN l : IsBefore(v, i, l[p])}
      first == CHOOSE p \in later : \A q \in later : p <= q
  IN  InsertAt(l, IF later = {} THEN Len(l) + 1 ELSE first, i)

StartInsert(v, i) ==
  [v EXCEPT !.hard = IF i \in Soft THEN @ ELSE Place(v, @, i),
            !.soft = IF i \in Soft THEN Place(v, @, i) ELSE @,
            !.active[i] = TRUE]

rt_timer_stop(v, i) ==
  IF v.active[i]
    THEN [Deactivated(_rt_timer_remove(v, i), i) EXCEPT !.quiet[i] = TRUE]
    ELSE v

\* rt_thread_resume of the timer thread.
ThreadResumed(v) ==
  [rt_timer_stop(v, ThreadTimer) EXCEPT !.thread = "READY", !.blind = FALSE]

\* Mutant: only a thread that waits for no timer is resumed.
StartWakeIfIdle(v, i) ==
  IF i \in Soft /\ v.thread = "SUSPEND" /\ Len(v.soft) = 1
    THEN ThreadResumed(v) ELSE v

\* The end of rt_timer_start: a soft timer's start resumes the timer thread.
StartWake(v, i) ==
  IF i \in Soft /\ v.thread = "SUSPEND" THEN ThreadResumed(v) ELSE v

\* rt_timer_start with interrupts disabled around it, of a timer with init_tick
\* d.
rt_timer_start(v, i, d) ==
  StartWake(StartInsert(StartTimeout(StartUnlink(v, i), i, d), i), i)

\* rt_timer_control with interrupts disabled around it: the time and the kind of
\* the timer; a command changes one of them.
rt_timer_control(v, i, d, p) == [v EXCEPT !.init[i] = d, !.periodic[i] = p]

rt_timer_detach(v, i) ==
  [_rt_timer_remove(v, i) EXCEPT !.there[i] = FALSE, !.quiet[i] = TRUE]

rt_timer_init(v, i) ==
  [rt_timer_control(Deactivated(v, i), i, Time[i], i \in Periodic) EXCEPT
     !.there[i] = TRUE, !.timeout[i] = 0, !.quiet[i] = FALSE]

Passed(now, v, i) == Minus(now, v.timeout[i]) < Half

\* The application starts the timer, itself or in a callback.
Wanted(v, i) == [v EXCEPT !.quiet[i] = FALSE]

\* The calls that are one step in a thread too, a critical section or the write
\* of a word: what op may make of timer i.
AtomicOp(v, op, i) ==
  CASE op = "set_time" /\ v.there[i] ->
         {rt_timer_control(v, i, d, v.periodic[i]) : d \in Delay}
    [] op = "detach" /\ v.there[i] -> {rt_timer_detach(v, i)}
    [] op = "detach" /\ ~ v.there[i] -> {rt_timer_init(v, i)}
    [] OTHER -> {}

\* The same for the calls that a makes (see Ops).
Atomic(a, v) == UNION {AtomicOp(v, o[2], o[3]) : o \in {x \in Ops : x[1] = a}}

\* What the callback of timer a may have done by the time it returns, called
\* with interrupts disabled.
Callback(a, v) ==
  {v} \cup Atomic(a, v)
    \cup {rt_timer_start(Wanted(v, o[3]), o[3], v.init[o[3]]) :
            o \in {x \in Ops : x[1] = a /\ x[2] = "start" /\ v.there[x[3]]}}
    \cup {rt_timer_stop(v, o[3]) :
            o \in {x \in Ops : x[1] = a /\ x[2] = "stop" /\ v.there[x[3]]}}
    \cup {rt_timer_control(v, o[3], v.init[o[3]], p) :
            o \in {x \in Ops : x[1] = a /\ x[2] = "set_kind" /\ v.there[x[3]]},
            p \in BOOLEAN}

\* Mutant: a one-shot timer stays activated.
FinishKeepsActive(v, i) ==
  IF v.periodic[i] /\ v.active[i] THEN rt_timer_start(v, i, v.init[i]) ELSE v

\* Mutant: a periodic timer that its callback has stopped starts again.
FinishIgnoresStop(v, i) ==
  IF v.periodic[i] THEN rt_timer_start(v, i, v.init[i]) ELSE Deactivated(v, i)

\* After the callback in rt_timer_check: a periodic timer that is still active
\* starts again.
Finish(v, i) ==
  IF v.periodic[i] /\ v.active[i]
    THEN rt_timer_start(v, i, v.init[i])
    ELSE Deactivated(v, i)

\* rt_thread_timeout, the callback of the thread timer.
rt_thread_timeout(v) == [v EXCEPT !.thread = "READY"]

-----------------------------------------------------------------------------
(***************************************************************************)
(* The tick interrupt: rt_tick_increase, then the loop of rt_timer_check.  *)
(***************************************************************************)
Pending == {call[a].t : a \in {b \in {"app", "tt"} : call[b].at = "insert"}}

Tick ==
  /\ isr = "none"
  /\ \A i \in Timer : s.due[i] > - MaxLate
  /\ tick' = Add(tick, 1)
  /\ s' = [s EXCEPT !.due = [i \in Timer |->
             IF i \in Listed(s) \cup Pending THEN s.due[i] - 1 ELSE s.due[i]]]
  /\ isr' = "check"
  /\ UNCHANGED <<call, tt>>

HardPassed == s.hard # << >> /\ Passed(tick, s, Head(s.hard))

CheckFire ==
  /\ isr = "check"
  /\ HardPassed
  /\ LET i == Head(s.hard)
         r == _rt_timer_remove(s, i)
     IN  \/ /\ i = ThreadTimer
            /\ s' = Finish(rt_thread_timeout(r), i)
         \/ /\ i # ThreadTimer
            /\ \E v \in Callback(i, r) : s' = Finish(v, i)
  /\ UNCHANGED <<tick, isr, call, tt>>

\* Mutant: only one timer fires in a tick.
CheckEndEarly ==
  /\ isr = "check"
  /\ isr' = "none"
  /\ UNCHANGED <<tick, s, call, tt>>

CheckEnd ==
  /\ isr = "check"
  /\ ~ HardPassed
  /\ isr' = "none"
  /\ UNCHANGED <<tick, s, call, tt>>

-----------------------------------------------------------------------------
(***************************************************************************)
(* rt_timer_start, rt_timer_stop and rt_timer_control called by a thread.  *)
(* The flag of a timer is one byte: RT_TIMER_FLAG_ACTIVATED is in it with  *)
(* RT_TIMER_FLAG_PERIODIC, and rt_timer_control changes the one by writing *)
(* back the other as it has read it, with interrupts enabled.  The last    *)
(* statement of rt_timer_stop clears ACTIVATED in the same way, and would  *)
(* undo a change of kind by an interrupt; it is one step here, because     *)
(* callbacks change the kind of their own timers only, and this one is in  *)
(* no list.                                                                *)
(***************************************************************************)
Runs(a) == isr = "none" /\ s.thread = IF a = "tt" THEN "READY" ELSE "SUSPEND"

InCall(a, l) == Runs(a) /\ call[a].at = l

Goto(a, l) == call' = [call EXCEPT ![a] = IF l = "none" THEN NoCall
                                          ELSE [@ EXCEPT !.at = l]]

BeginStart(a, v, i) ==
  /\ s' = StartUnlink(v, i)
  /\ call' = [call EXCEPT ![a] = [at |-> "timeout", t |-> i]]

\* A timer that is not activated is not stopped.
BeginStop(a, i) ==
  /\ s.active[i]
  /\ call' = [call EXCEPT ![a] = [at |-> "remove", t |-> i]]
  /\ UNCHANGED s

\* RT_TIMER_CTRL_SET_ONESHOT and RT_TIMER_CTRL_SET_PERIODIC read the flag.
BeginControl(a, i, p) ==
  /\ call' = [call EXCEPT ![a] = [at |-> "store", t |-> i,
                                  active |-> s.active[i], periodic |-> p]]
  /\ UNCHANGED s

CallStep(a) ==
  LET i == call[a].t
  IN  /\ \/ /\ InCall(a, "timeout") /\ Goto(a, "insert")
            /\ s' = StartTimeout(s, i, s.init[i])
         \/ InCall(a, "insert") /\ s' = StartInsert(s, i) /\ Goto(a, "wake")
         \/ InCall(a, "wake") /\ s' = StartWake(s, i) /\ Goto(a, "none")
         \/ InCall(a, "remove") /\ s' = _rt_timer_remove(s, i) /\ Goto(a, "clear")
         \/ /\ InCall(a, "clear") /\ Goto(a, "none")
            /\ s' = [Deactivated(s, i) EXCEPT !.quiet[i] = TRUE]
         \/ /\ InCall(a, "store") /\ Goto(a, "none")
            /\ s' = [s EXCEPT !.active[i]   = call[a].active,
                              !.periodic[i] = call[a].periodic]
      /\ UNCHANGED <<tick, isr, tt>>

\* Thread a, on behalf of who, makes a call.
Begins(a, who) ==
  \/ \E o \in Ops : /\ o[1] = who /\ s.there[o[3]]
                    /\ \/ o[2] = "start" /\ BeginStart(a, Wanted(s, o[3]), o[3])
                       \/ o[2] = "stop" /\ BeginStop(a, o[3])
                       \/ /\ o[2] = "set_kind"
                          /\ \E p \in BOOLEAN : BeginControl(a, o[3], p)
  \/ s' \in Atomic(who, s) /\ UNCHANGED call

AppCalls ==
  /\ InCall("app", "none")
  /\ Begins("app", "app")
  /\ UNCHANGED <<tick, isr, tt>>

-----------------------------------------------------------------------------
(***************************************************************************)
(* The timer thread: rt_thread_timer_entry and rt_soft_timer_check.        *)
(***************************************************************************)
At(l) == InCall("tt", "none") /\ tt.at = l

FirstSoft == IF s.soft = << >> THEN Nil ELSE Head(s.soft)

\* rt_timer_list_next_timeout; RT_TICK_MAX stands for an empty list.
NextTimeout ==
  /\ At("next")
  /\ LET next == IF s.soft = << >> THEN TickMax ELSE s.timeout[Head(s.soft)]
     IN  tt' = IF next = TickMax THEN [tt EXCEPT !.at = "suspend"]
                                 ELSE [tt EXCEPT !.at = "delta", !.val = next]
  /\ UNCHANGED <<tick, s, isr, call>>

SuspendSelf ==
  /\ At("suspend")
  /\ s' = [rt_timer_stop(s, ThreadTimer) EXCEPT
             !.thread = "SUSPEND",
             !.blind  = s.soft # << >> /\ s.timeout[Head(s.soft)] = TickMax]
  /\ tt' = [Thinks EXCEPT !.at = "check"]
  /\ UNCHANGED <<tick, isr, call>>

Delta ==
  /\ At("delta")
  /\ LET d == Minus(tt.val, tick)
     IN  tt' = IF d < Half THEN [tt EXCEPT !.at = "delay", !.val = d, !.cur = tick]
                           ELSE [Thinks EXCEPT !.at = "check"]
  /\ UNCHANGED <<tick, s, isr, call>>

\* rt_thread_delay: the thread suspends itself and starts its thread timer.
\* For the properties, val keeps the ticks that were lost since Delta.
DelaySelf ==
  /\ At("delay")
  /\ s' = [rt_timer_start(Wanted(s, ThreadTimer), ThreadTimer, tt.val)
             EXCEPT !.thread = "SUSPEND"]
  /\ tt' = [Thinks EXCEPT !.at = "check", !.val = Minus(tick, tt.cur)]
  /\ UNCHANGED <<tick, isr, call>>

CheckSoft ==
  /\ At("check")
  /\ tt' = [Thinks EXCEPT !.at = "loop", !.cur = tick, !.n = FirstSoft]
  /\ UNCHANGED <<tick, s, isr, call>>

\* n->next; the node of a timer that has been removed points to itself.
Successor(i) ==
  LET l == s.soft
      p == CHOOSE q \in DOMAIN l : l[q] = i
  IN  IF i \notin Listed(s) THEN i ELSE IF p = Len(l) THEN Nil ELSE l[p + 1]

SoftPassed == tt.n # Nil /\ Passed(tt.cur, s, tt.n)

SoftFire ==
  /\ At("loop")
  /\ SoftPassed
  /\ tt' = [tt EXCEPT !.at = "callback", !.t = tt.n, !.n = Successor(tt.n)]
  /\ s' = [_rt_timer_remove(s, tt.n) EXCEPT
             !.timeout[tt.n] = IF Successor(tt.n) = tt.n THEN @ ELSE 0]
  /\ UNCHANGED <<tick, isr, call>>

\* The callback returns, having done nothing or made one call.
SoftCallback ==
  /\ At("callback")
  /\ Begins("tt", tt.t) \/ UNCHANGED <<s, call>>
  /\ tt' = [tt EXCEPT !.at = "finish"]
  /\ UNCHANGED <<tick, isr>>

SoftFinish ==
  /\ At("finish")
  /\ \/ /\ s.periodic[tt.t] /\ s.active[tt.t]
        /\ BeginStart("tt", s, tt.t)
     \/ /\ ~ (s.periodic[tt.t] /\ s.active[tt.t])
        /\ s' = Deactivated(s, tt.t)
        /\ UNCHANGED call
  /\ tt' = [tt EXCEPT !.at = "loop", !.cur = tick, !.t = Nil]
  /\ UNCHANGED <<tick, isr>>

SoftEnd ==
  /\ At("loop")
  /\ ~ SoftPassed
  /\ tt' = Thinks
  /\ UNCHANGED <<tick, s, isr, call>>

-----------------------------------------------------------------------------
TimerThread ==
  \/ NextTimeout \/ SuspendSelf \/ Delta \/ DelaySelf \/ CheckSoft
  \/ SoftFire \/ SoftCallback \/ SoftFinish \/ SoftEnd

TimerNext ==
  \/ Tick \/ CheckFire \/ CheckEnd
  \/ AppCalls \/ TimerThread
  \/ \E a \in {"app", "tt"} : CallStep(a)

TimerSpec == TimerInit /\ [][TimerNext]_timerVars

-----------------------------------------------------------------------------
(***************************************************************************)
(* The lists are in the order in which the timers are due, and the test    *)
(* that a timeout has passed is right, across the overflow of the tick and *)
(* for timers that are inserted late.                                      *)
(***************************************************************************)
TimerOrder ==
  /\ \A l \in {s.hard, s.soft} : \A p, q \in DOMAIN l :
       p < q => s.due[l[p]] <= s.due[l[q]]
  /\ \A i \in Listed(s) : Passed(tick, s, i) <=> s.due[i] <= 0

(***************************************************************************)
(* A hard timer fires in the tick it is due in: when rt_timer_check        *)
(* returns none is overdue.                                                *)
(***************************************************************************)
FiresInTime ==
  [][isr = "check" /\ isr' = "none" =>
       \A p \in DOMAIN s.hard : s.due[s.hard[p]] > 0]_timerVars

Fires(i) ==
  \/ isr = "check" /\ HardPassed /\ i = Head(s.hard)
  \/ tt.at = "loop" /\ tt'.at = "callback" /\ i = tt'.t

(***************************************************************************)
(* The callback of a timer that has been stopped is not called until the   *)
(* timer is started again: "This function will stop the timer".            *)
(***************************************************************************)
StoppedIsQuiet == [][\A i \in Timer : Fires(i) => ~ s.quiet[i]]_timerVars

(***************************************************************************)
(* A timer that is marked activated will fire: it is in its list, or is    *)
(* firing, or a call about it is under way; and a timer that is about to   *)
(* be inserted is in no list.                                              *)
(***************************************************************************)
ActiveIsListed ==
  /\ \A i \in Timer :
       s.active[i] /\ s.there[i] => \/ i \in Listed(s) \/ tt.t = i
                                    \/ \E a \in {"app", "tt"} : call[a].t = i
  /\ \A i \in Pending : i \notin Listed(s)

AppWakes == call["app"].at = "wake"

(***************************************************************************)
(* The timer thread does not oversleep: while it is suspended and a soft   *)
(* timer is started, its own timer is due no later than the first soft     *)
(* timer (but for the ticks that came while it computed the delay), unless *)
(* it took that timer's timeout for RT_TICK_MAX.                           *)
(***************************************************************************)
SoftIsAwaited ==
  s.thread = "SUSPEND" /\ s.soft # << >> /\ ~ AppWakes /\ ~ s.blind =>
    LET first == s.due[Head(s.soft)]
    IN  /\ ThreadTimer \in Listed(s)
        /\ s.due[ThreadTimer] <= (IF first > 0 THEN first ELSE 0) + tt.val

(***************************************************************************)
(* "no software timer exist, suspend self": the timer thread suspends      *)
(* itself for ever only when there is no soft timer to wait for.           *)
(***************************************************************************)
SuspendsWithoutTimer ==
  s.thread = "SUSPEND" /\ s.soft # << >> /\ ~ AppWakes =>
    ThreadTimer \in Listed(s)
=============================================================================
