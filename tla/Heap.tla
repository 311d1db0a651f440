-------------------------------- MODULE Heap --------------------------------
(***************************************************************************)
(* The small-memory heap of mem.c.  Memory is a chain of blocks in address *)
(* order, each behind a header with the offsets of its neighbours; a free  *)
(* block is split when it is much larger than what is asked for, and       *)
(* merged with its neighbours when it is freed.  Every operation holds     *)
(* heap_sem, so it is one step; a reallocation that has to move is three   *)
(* such operations, and other threads use the heap in between.             *)
(*                                                                         *)
(*   hdr      the headers in the chain, by offset; what was the header of  *)
(*            a block that has been merged is ordinary memory again        *)
(*   lfree    the offset of lfree                                          *)
(*   usedMem  used_mem                                                     *)
(*   has[t]   the blocks the application threads have, and the size each   *)
(*            was asked for                                                *)
(*   move[t]  the block that thread t has copied to a new one and is yet   *)
(*            to free in rt_realloc, or NoMove                             *)
(*                                                                         *)
(* Offsets and sizes are in words of RT_ALIGN_SIZE bytes.                  *)
(***************************************************************************)
EXTENDS Integers, FiniteSets, FiniteSetsExt, Functions

CONSTANTS Task,        \* the threads that use the heap
          MemSize,     \* mem_size_aligned
          HeaderSize,  \* SIZEOF_STRUCT_MEM
          MinSize,     \* MIN_SIZE_ALIGNED
          Sizes        \* the sizes that are asked for

VARIABLES hdr, lfree, usedMem, has, move

heapVars == <<hdr, lfree, usedMem, has, move>>

ASSUME HeapAssumption ==
  /\ HeaderSize \in Nat \ {0}
  /\ MinSize \in Nat \ {0}
  /\ MemSize \in Nat /\ MemSize >= MinSize
  /\ Sizes \subseteq Nat \ {0}

heap_end == MemSize + HeaderSize       \* the offset of heap_end

NoMove == -1

\* f with the value v at a new point p.
With(f, p, v) == [x \in DOMAIN f \cup {p} |-> IF x = p THEN v ELSE f[x]]

Header(next, prev, used) == [next |-> next, prev |-> prev, used |-> used]

\* rt_system_heap_init: one free block and the sentinel.
HeapInit ==
  /\ hdr = [p \in {0, heap_end} |-> IF p = 0 THEN Header(heap_end, 0, FALSE)
                                            ELSE Header(heap_end, heap_end, TRUE)]
  /\ lfree = 0
  /\ usedMem = 0
  /\ has = [t \in Task |-> << >>]
  /\ move = [t \in Task |-> NoMove]

-----------------------------------------------------------------------------
DataSize(h, p) == h[p].next - (p + HeaderSize)

\* The loop of rt_malloc: the lowest free block from lfree on that is large
\* enough.  The loop ends at MemSize - size, so that a perfect fit at the very
\* end is not considered.
Fits(size) ==
  {p \in DOMAIN hdr : /\ p >= lfree /\ p < MemSize - size
                      /\ ~ hdr[p].used /\ DataSize(hdr, p) >= size}

\* Mutant: the block behind still takes p for its neighbour.
SplitNoPrev(h, p, q) ==
  With([h EXCEPT ![p].next = q], q, Header(h[p].next, p, FALSE))

\* A new header at q splits block p; the sentinel's prev is not maintained.
Split(h, p, q) ==
  LET s == With([h EXCEPT ![p].next = q], q, Header(h[p].next, p, FALSE))
  IN  IF h[p].next # heap_end THEN [s EXCEPT ![h[p].next].prev = q] ELSE s

\* Mutant: the header of the remainder is not accounted for.
CarveTight(p, size) ==
  IF DataSize(hdr, p) >= size + MinSize
    THEN [Split(hdr, p, p + size) EXCEPT ![p].used = TRUE]
    ELSE [hdr EXCEPT ![p].used = TRUE]

\* Block p is used; the remainder becomes a block of its own if it can hold
\* MinSize.
Carve(p, size) ==
  IF DataSize(hdr, p) >= size + HeaderSize + MinSize
    THEN [Split(hdr, p, p + HeaderSize + size) EXCEPT ![p].used = TRUE]
    ELSE [hdr EXCEPT ![p].used = TRUE]

\* The lowest block from p on that is not used, or the sentinel.
NextFree(h, p) == Min({q \in DOMAIN h : q >= p /\ (~ h[q].used \/ q = heap_end)})

AtLeastMin(size) == IF size < MinSize THEN MinSize ELSE size

\* rt_malloc of size words when it succeeds, in block p.
MallocAt(p, size) ==
  LET h == Carve(p, size)
  IN  /\ hdr' = h
      /\ lfree' = IF p = lfree THEN NextFree(h, lfree) ELSE lfree
      /\ usedMem' = usedMem + h[p].next - p

CanMalloc(size) == size <= MemSize /\ Fits(AtLeastMin(size)) # {}

rt_malloc(t, size) ==
  /\ move[t] = NoMove
  /\ CanMalloc(size)
  /\ LET p == Min(Fits(AtLeastMin(size)))
     IN  /\ MallocAt(p, AtLeastMin(size))
         /\ has' = [has EXCEPT ![t] = With(@, p, size)]
  /\ UNCHANGED move

\* plug_holes merges the free block p with a free block behind it, and then
\* with a free block before it.
plug_holes(h, l, p) ==
  LET n       == h[p].next
      forward == n # p /\ ~ h[n].used /\ n # heap_end
      merged == IF forward
              THEN [Restrict(h, DOMAIN h \ {n}) EXCEPT
                      ![p].next = h[n].next, ![h[n].next].prev = p]
              ELSE h
      l1 == IF forward /\ l = n THEN p ELSE l
      q        == merged[p].prev
      backward == q # p /\ ~ merged[q].used
      both == IF backward
              THEN [Restrict(merged, DOMAIN merged \ {p}) EXCEPT
                      ![q].next = merged[p].next, ![merged[p].next].prev = q]
              ELSE merged
      l2 == IF backward /\ l1 = p THEN q ELSE l1
  IN  [hdr |-> both, lfree |-> l2]

\* The part of rt_free under heap_sem.
Release(p) ==
  LET l == IF p < lfree THEN p ELSE lfree
      f == plug_holes([hdr EXCEPT ![p].used = FALSE], l, p)
  IN  /\ hdr' = f.hdr
      /\ lfree' = f.lfree
      /\ usedMem' = usedMem - (hdr[p].next - p)

rt_free(t, p) ==
  /\ move[t] = NoMove
  /\ p \in DOMAIN has[t]
  /\ Release(p)
  /\ has' = [has EXCEPT ![t] = Restrict(@, DOMAIN @ \ {p})]
  /\ UNCHANGED move

\* rt_realloc to a size that leaves room for another block: the end of the
\* block is split off and becomes free; lfree is not lowered to it.
Shrink(t, p, size) ==
  /\ move[t] = NoMove
  /\ p \in DOMAIN has[t]
  /\ size + HeaderSize + MinSize < DataSize(hdr, p)
  /\ LET q == p + HeaderSize + size
         f == plug_holes(Split(hdr, p, q), lfree, q)
     IN  hdr' = f.hdr /\ lfree' = f.lfree
  /\ usedMem' = usedMem - (DataSize(hdr, p) - size)
  /\ has' = [has EXCEPT ![t][p] = size]
  /\ UNCHANGED move

\* rt_realloc to any other size, but not the block's own: a new block is
\* allocated, the contents are copied and the old block is freed; when there is
\* no new block nothing changes.  The test of the size and the allocation are
\* one step, because no other thread changes the size of a block that is used.
Move(t, p, size) ==
  /\ move[t] = NoMove
  /\ p \in DOMAIN has[t]
  /\ size # DataSize(hdr, p)
  /\ ~ size + HeaderSize + MinSize < DataSize(hdr, p)
  /\ CanMalloc(size)
  /\ LET q == Min(Fits(AtLeastMin(size)))
     IN  /\ MallocAt(q, AtLeastMin(size))
         /\ move' = [move EXCEPT ![t] = p]
         /\ has' = [has EXCEPT ![t] = With(@, q, size)]

MoveFree(t) ==
  /\ move[t] # NoMove
  /\ Release(move[t])
  /\ has' = [has EXCEPT ![t] = Restrict(@, DOMAIN @ \ {move[t]})]
  /\ move' = [move EXCEPT ![t] = NoMove]

-----------------------------------------------------------------------------
HeapNext ==
  \E t \in Task :
    \/ \E size \in Sizes :
         \/ rt_malloc(t, size)
         \/ \E p \in DOMAIN has[t] : Shrink(t, p, size) \/ Move(t, p, size)
    \/ \E p \in DOMAIN has[t] : rt_free(t, p)
    \/ MoveFree(t)

HeapSpec == HeapInit /\ [][HeapNext]_heapVars

-----------------------------------------------------------------------------
(***************************************************************************)
(* The blocks tile the heap: each begins where the one before ends, knows  *)
(* both neighbours, and has room for its header.  "if not we have 2 unused *)
(* structs in a row, plug_holes should have take care of this": of two     *)
(* neighbours at least one is used.  lfree is a free block or the end of   *)
(* the heap, never a header that has been merged away.                     *)
(***************************************************************************)
BlocksTile ==
  /\ {0, heap_end} \subseteq DOMAIN hdr
  /\ \A p \in DOMAIN hdr \ {heap_end} :
       /\ hdr[p].next = Min({q \in DOMAIN hdr : q > p})
       /\ hdr[p].next >= p + HeaderSize
       /\ hdr[p].next # heap_end => hdr[hdr[p].next].prev = p
       /\ hdr[p].used \/ hdr[hdr[p].next].used
  /\ hdr[0].prev = 0 /\ hdr[heap_end].used /\ hdr[heap_end].next = heap_end
  /\ lfree \in DOMAIN hdr /\ (~ hdr[lfree].used \/ lfree = heap_end)

(***************************************************************************)
(* A block an application thread has is its own and as large as it asked   *)
(* for, whatever the others allocate, free and move meanwhile; the blocks  *)
(* that are marked used are those the threads have, none is lost; and      *)
(* used_mem is the sum of these blocks.                                    *)
(***************************************************************************)
Given == UNION {DOMAIN has[t] : t \in Task}

BlocksAreOwned ==
  /\ \A t \in Task : \A p \in DOMAIN has[t] :
       /\ DataSize(hdr, p) >= has[t][p]
       /\ \A u \in Task \ {t} : p \notin DOMAIN has[u]
  /\ Given = {p \in DOMAIN hdr \ {heap_end} : hdr[p].used}
  /\ usedMem = MapThenSumSet(LAMBDA p : hdr[p].next - p, Given)

\* "pointer to the lowest free block": rt_malloc searches from there on.
LfreeIsLowest == \A p \in DOMAIN hdr : ~ hdr[p].used => lfree <= p
=============================================================================
