----------------------------- MODULE MCServices -----------------------------
(***************************************************************************)
(* Small instances of the services that are not built on the suspend       *)
(* lists: the timers, the heap and the ring buffer.  Which one is used is  *)
(* chosen in the initial state; the others are not touched.                *)
(***************************************************************************)
EXTENDS Timer, Heap, RingBuffer

CONSTANTS h1, s1, s2,
          Services     \* the services that may be chosen

VARIABLE service       \* the service that is used

\* The application starts every timer, stops, detaches and initializes s1; the
\* callbacks of h1 and s1 restart, stop and change their own timers.
OwnOps ==
  {<<"app", "start", i>> : i \in Hard \cup Soft}
    \cup {<<"app", "stop", s1>>, <<"app", "detach", s1>>}
    \cup {<<h1, "start", h1>>, <<h1, "stop", h1>>, <<h1, "set_kind", h1>>}
    \cup {<<s1, "start", s1>>, <<s1, "stop", s1>>, <<s1, "set_time", s1>>,
          <<s1, "set_kind", s1>>}

\* The callback of a hard timer starts a soft one.
StartsSoft == {<<"app", "start", h1>>, <<h1, "start", s1>>}

\* The callback of a soft timer stops the next one.
StopsNext ==
  {<<"app", "start", s1>>, <<"app", "start", s2>>, <<s1, "stop", s2>>}

Times == [i \in Timer |-> IF i = s2 THEN 2 ELSE 1]

OneTick == [i \in Timer |-> 1]

\* Blocks shorter than, as long as and longer than the buffer.
Chunks ==
  {<< >>, <<0>>, <<1>>, <<0, 1>>, <<1, 1, 0>>, <<0, 1, 1, 0>>, <<1, 0, 0, 1, 1>>}

ServicesInit ==
  service \in Services /\ TimerInit /\ HeapInit /\ RingInit

ServicesNext ==
  /\ \/ service = "timer" /\ TimerNext /\ UNCHANGED <<heapVars, rb>>
     \/ service = "heap" /\ HeapNext /\ UNCHANGED <<timerVars, rb>>
     \/ service = "ring" /\ RingNext /\ UNCHANGED <<timerVars, heapVars>>
  /\ UNCHANGED service

ServicesSpec ==
  ServicesInit /\ [][ServicesNext]_<<timerVars, heapVars, rb, service>>
=============================================================================
