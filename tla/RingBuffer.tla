----------------------------- MODULE RingBuffer -----------------------------
(***************************************************************************)
(* The ring buffer of ringbuffer.c.  The read and the write index each     *)
(* have a mirror bit, flipped when the index passes the end of the buffer: *)
(* equal indices mean an empty buffer when the mirrors are equal and a     *)
(* full one when they differ.  The buffer has no lock; its users serialise *)
(* their calls, so a call is one step.                                     *)
(*                                                                         *)
(*   rb   the bytes, the two indices and the two mirrors; live is FALSE    *)
(*        while the buffer does not exist                                  *)
(***************************************************************************)
EXTENDS Integers, Sequences, FiniteSetsExt

CONSTANTS BufferSize,  \* buffer_size
          Byte,        \* the bytes that are written
          Chunk        \* the blocks of data that are put

VARIABLE rb

ASSUME RingAssumption ==
  /\ BufferSize \in Nat \ {0}
  /\ Chunk \subseteq Seq(Byte)

Smaller(a, b) == Min({a, b})

\* The flip of a one-bit mirror.
Flip(m) == 1 - m

\* rt_ringbuffer_reset: the bytes stay.
Emptied(b) == [b EXCEPT !.r = 0, !.rm = 0, !.w = 0, !.wm = 0]

RingInit ==
  rb = [live |-> FALSE, r |-> 0, rm |-> 0, w |-> 0, wm |-> 0,
        buf |-> [i \in 0 .. BufferSize - 1 |-> CHOOSE c \in Byte : TRUE]]

-----------------------------------------------------------------------------
data_len(b) ==
  IF b.r = b.w
    THEN IF b.rm = b.wm THEN 0 ELSE BufferSize
    ELSE IF b.w > b.r THEN b.w - b.r ELSE BufferSize - (b.r - b.w)

space_len(b) == BufferSize - data_len(b)

\* The one or two memcpy calls that write c from index i on.
Filled(buf, i, c) ==
  [k \in 0 .. BufferSize - 1 |->
     LET d == (k - i) % BufferSize IN IF d < Len(c) THEN c[d + 1] ELSE buf[k]]

\* Mutant: a block that ends at the end of the buffer does not flip the mirror.
StepLate(i, m, n) ==
  IF BufferSize - i >= n
    THEN [i |-> (i + n) % BufferSize, m |-> m]
    ELSE [i |-> n - (BufferSize - i), m |-> Flip(m)]

\* An index and its mirror after n bytes.
Step(i, m, n) ==
  IF BufferSize - i > n
    THEN [i |-> i + n, m |-> m]
    ELSE [i |-> n - (BufferSize - i), m |-> Flip(m)]

\* Writing c, which is not longer than the buffer, without regard to the
\* reader.
Write(b, c) ==
  LET s == Step(b.w, b.wm, Len(c))
  IN  [b EXCEPT !.buf = Filled(@, b.w, c), !.w = s.i, !.wm = s.m]

\* rt_ringbuffer_put, and rt_ringbuffer_putchar for one byte: what does not
\* fit is dropped.
Put(b, c) ==
  IF space_len(b) = 0 THEN b
                      ELSE Write(b, SubSeq(c, 1, Smaller(space_len(b), Len(c))))

\* rt_ringbuffer_put_force: the last BufferSize bytes of c are written; if
\* there was no space for them the reader goes to the writer, and its mirror
\* is flipped when the writer's was.
PutForce(b, c) ==
  LET n == Smaller(Len(c), BufferSize)
      p == Write(b, SubSeq(c, Len(c) - n + 1, Len(c)))
  IN  IF n <= space_len(b)
        THEN p
        ELSE [p EXCEPT !.r = p.w, !.rm = IF p.wm # b.wm THEN Flip(@) ELSE @]

\* rt_ringbuffer_putchar_force.
PutCharForce(b, c) ==
  LET p == Write(b, <<c>>)
  IN  IF space_len(b) # 0
        THEN p
        ELSE [p EXCEPT !.r = p.w, !.rm = IF p.wm # b.wm THEN Flip(@) ELSE @]

\* rt_ringbuffer_get, and rt_ringbuffer_getchar for n = 1: the bytes that are
\* copied to the caller, and the buffer afterwards.
Got(b, n) ==
  [k \in 1 .. Smaller(n, data_len(b)) |-> b.buf[(b.r + k - 1) % BufferSize]]

AfterGet(b, n) ==
  LET s == Step(b.r, b.rm, Smaller(n, data_len(b)))
  IN  IF data_len(b) = 0 THEN b ELSE [b EXCEPT !.r = s.i, !.rm = s.m]

-----------------------------------------------------------------------------
\* rt_ringbuffer_create and rt_ringbuffer_init.  What the pool holds does not
\* matter, no byte is read before it is written.
rt_ringbuffer_create == ~ rb.live /\ rb' = Emptied([rb EXCEPT !.live = TRUE])

rt_ringbuffer_destroy == rb' = [rb EXCEPT !.live = FALSE]

rt_ringbuffer_put(c) == rb' = Put(rb, c)

rt_ringbuffer_put_force(c) == rb' = PutForce(rb, c)

rt_ringbuffer_putchar_force(c) == rb' = PutCharForce(rb, c)

rt_ringbuffer_get(n) == rb' = AfterGet(rb, n)

rt_ringbuffer_reset == rb' = Emptied(rb)

RingNext ==
  \/ rt_ringbuffer_create
  \/ /\ rb.live
     /\ \/ \E c \in Chunk : rt_ringbuffer_put(c) \/ rt_ringbuffer_put_force(c)
        \/ \E c \in Byte : rt_ringbuffer_putchar_force(c)
        \/ \E n \in 0 .. BufferSize + 1 : rt_ringbuffer_get(n)
        \/ rt_ringbuffer_reset
        \/ rt_ringbuffer_destroy

RingSpec == RingInit /\ [][RingNext]_rb

-----------------------------------------------------------------------------
\* The bytes between the indices, oldest first.
Stored(b) ==
  [k \in 1 .. data_len(b) |-> b.buf[(b.r + k - 1) % BufferSize]]

Oldest(s, n) == SubSeq(s, 1, Smaller(n, Len(s)))

Newest(s, n) == SubSeq(s, Len(s) - Smaller(n, Len(s)) + 1, Len(s))

(***************************************************************************)
(* In every state the program reaches, each operation does to the stored   *)
(* bytes what it does to a queue of BufferSize bytes: a put appends what   *)
(* fits, a forced character pushes out the oldest byte of a full buffer,   *)
(* a forced block keeps the newest bytes when it fits or when the writer   *)
(* is in the other mirror, and a get takes from the front.  The hazards    *)
(* are a block that ends at the very end of the buffer, a full buffer      *)
(* taken for an empty one, and a block that wraps.                         *)
(***************************************************************************)
RingIsQueue ==
  rb.live =>
    /\ \A c \in Chunk :
         /\ Stored(Put(rb, c)) = Oldest(Stored(rb) \o c, BufferSize)
         /\ (Len(c) <= space_len(rb) \/ rb.rm # rb.wm) =>
              Stored(PutForce(rb, c)) = Newest(Stored(rb) \o c, BufferSize)
    /\ \A c \in Byte :
         Stored(PutCharForce(rb, c)) = Newest(Stored(rb) \o <<c>>, BufferSize)
    /\ \A n \in 0 .. BufferSize + 1 :
         /\ Got(rb, n) = Oldest(Stored(rb), n)
         /\ Stored(rb) = Got(rb, n) \o Stored(AfterGet(rb, n))

(***************************************************************************)
(* "When the buffer is full, it will discard the old data": after a forced *)
(* put the buffer has the last BufferSize of the bytes it had and those    *)
(* that were put.                                                          *)
(***************************************************************************)
ForceDiscardsOld ==
  rb.live => \A c \in Chunk :
    Stored(PutForce(rb, c)) = Newest(Stored(rb) \o c, BufferSize)
=============================================================================
