--------------------------- MODULE StorageProofs ----------------------------
(***************************************************************************)
(* Proofs about the small-memory heap and the ring buffer, for any sizes.  *)
(* The blocks tile the heap, and every block a thread has is its own,      *)
(* large enough and accounted for. The indices and mirrors of the ring     *)
(* buffer stay consistent, and every operation does to the stored bytes    *)
(* what it does to a queue.                                                *)
(***************************************************************************)
EXTENDS Heap, RingBuffer, FiniteSetTheorems, SequenceTheorems,
        WellFoundedInduction, TLAPS

(***************************************************************************)
(* The chain of headers h, with each link in both directions and without   *)
(* Min: the next block is the nearest one, and every block but the first   *)
(* has a block before it.                                                  *)
(***************************************************************************)
HeaderType == [next : Int, prev : Int, used : BOOLEAN]

Links(h, p) ==
  /\ h[p].next \in DOMAIN h
  /\ h[p].next >= p + HeaderSize
  /\ \A q \in DOMAIN h : q > p => h[p].next <= q
  /\ h[p].next # heap_end => h[h[p].next].prev = p

LinksBack(h, p) ==
  /\ h[p].prev \in DOMAIN h \ {heap_end}
  /\ h[h[p].prev].next = p

Chain(h) ==
  /\ h \in [DOMAIN h -> HeaderType]
  /\ DOMAIN h \subseteq 0 .. heap_end
  /\ {0, heap_end} \subseteq DOMAIN h
  /\ \A p \in DOMAIN h \ {heap_end} : Links(h, p)
  /\ \A p \in DOMAIN h \ {0, heap_end} : LinksBack(h, p)
  /\ h[0].prev = 0 /\ h[heap_end].used /\ h[heap_end].next = heap_end

\* Of two neighbours at least one is used; those at x are exempt.
NoHolesBut(h, x) ==
  \A p \in DOMAIN h \ {heap_end} :
    h[p].used \/ h[h[p].next].used \/ p = x \/ h[p].next = x

NoHoles(h) ==
  \A p \in DOMAIN h \ {heap_end} : h[p].used \/ h[h[p].next].used

\* l is a block in the chain that is free, or the end of the heap.
FreeOrEnd(h, l) == l \in DOMAIN h /\ (~ h[l].used \/ l = heap_end)

-----------------------------------------------------------------------------
\* A non-empty set of naturals has a least element, so the loop of rt_malloc
\* that looks for the next free block ends.
LEMMA LeastExists ==
  ASSUME NEW G \in SUBSET Nat, G # {}
  PROVE  /\ Min(G) \in G
         /\ \A q \in G : Min(G) <= q
<1> DEFINE R == OpToRel(<, Nat)
<1>1. IsWellFoundedOn(R, Nat)
  BY NatLessThanWellFounded
<1>2. \A x, y \in Nat : <<x, y>> \in R <=> x < y
  BY DEF OpToRel
<1> HIDE DEF R
<1>3. PICK x \in G : \A y \in G : <<y, x>> \notin R
  BY <1>1, WFMin
<1>4. ASSUME NEW q \in G PROVE x <= q
  <2>1. x \in Nat /\ q \in Nat
    OBVIOUS
  <2>2. ~ (q < x)
    BY <1>2, <1>3, <2>1
  <2> QED BY <2>1, <2>2
<1>5. \E y \in G : \A q \in G : y <= q
  BY <1>4
<1> QED BY <1>5 DEF Min

\* Min is the element below all others.
LEMMA MinIs ==
  ASSUME NEW G \in SUBSET Int, NEW m \in G, \A q \in G : m <= q
  PROVE  Min(G) = m
<1>1. Min(G) \in G /\ \A q \in G : Min(G) <= q
  BY DEF Min
<1>2. Min(G) <= m /\ m <= Min(G) /\ m \in Int /\ Min(G) \in Int
  BY <1>1
<1> QED BY <1>2

-----------------------------------------------------------------------------
\* The offsets are integers and the sentinel is the last of them.
LEMMA Offsets ==
  ASSUME NEW h, Chain(h)
  PROVE  /\ heap_end \in Nat /\ HeaderSize \in Nat /\ HeaderSize > 0 /\ heap_end > 0
         /\ \A p \in DOMAIN h : /\ p \in Nat /\ p <= heap_end
                                /\ h[p] \in HeaderType
                                /\ h[p].next \in Int /\ h[p].prev \in Int
                                /\ h[p].used \in BOOLEAN
                                /\ h[p] = Header(h[p].next, h[p].prev, h[p].used)
BY HeapAssumption DEF Chain, heap_end, HeaderType, Header

(***************************************************************************)
(* Split: a header at q, with room for itself before the next block, makes *)
(* a free block of what follows q.                                         *)
(***************************************************************************)
SplitAt(h, s, p, q) ==
  /\ Chain(s)
  /\ q \notin DOMAIN h /\ q # heap_end
  /\ DOMAIN s = DOMAIN h \cup {q}
  /\ ~ s[q].used /\ s[q].next = h[p].next /\ s[q].prev = p
  /\ s[p].next = q
  /\ \A x \in DOMAIN h : /\ s[x].used = h[x].used
                         /\ x # p => s[x].next = h[x].next

\* Split does what SplitAt says.
LEMMA SplitChain ==
  ASSUME NEW h, Chain(h), NEW p \in DOMAIN h \ {heap_end}, NEW q \in Int,
         p + HeaderSize <= q, q + HeaderSize <= h[p].next
  PROVE  SplitAt(h, Split(h, p, q), p, q)
<1> DEFINE s == Split(h, p, q)
           n == h[p].next
<1>1. /\ heap_end \in Nat /\ HeaderSize \in Nat /\ HeaderSize > 0 /\ heap_end > 0
      /\ \A x \in DOMAIN h : /\ x \in Nat /\ x <= heap_end /\ h[x] \in HeaderType
                             /\ h[x].next \in Int /\ h[x].prev \in Int
                             /\ h[x].used \in BOOLEAN
  BY Offsets
<1>2. Links(h, p)
  BY DEF Chain
<1>3. /\ n \in DOMAIN h /\ n \in Int /\ p \in Nat /\ p < q /\ q < n /\ n <= heap_end
  BY <1>1, <1>2 DEF Links
<1>4. q \notin DOMAIN h /\ q # heap_end
  BY <1>2, <1>3, <1>1 DEF Links
<1>5. /\ s \in [DOMAIN h \cup {q} -> HeaderType]
      /\ s[q] = Header(n, p, FALSE)
      /\ s[p] = Header(q, h[p].prev, h[p].used)
      /\ n # heap_end => s[n] = Header(h[n].next, q, h[n].used)
      /\ n = heap_end => s[n] = h[n]
      /\ \A x \in DOMAIN h : x \notin {p, n} => s[x] = h[x]
  <2> DEFINE e == [h EXCEPT ![p].next = q]
             w == With(e, q, Header(n, p, FALSE))
  <2>1. /\ e \in [DOMAIN h -> HeaderType]
        /\ e[p] = Header(q, h[p].prev, h[p].used)
        /\ \A x \in DOMAIN h : x # p => e[x] = h[x]
    BY <1>1, <1>3, Offsets DEF Chain, Header, HeaderType
  <2>2. /\ w \in [DOMAIN h \cup {q} -> HeaderType]
        /\ w[q] = Header(n, p, FALSE)
        /\ \A x \in DOMAIN h : w[x] = e[x]
    BY <1>1, <1>3, <1>4, <2>1 DEF With, Header, HeaderType
  <2>3. s = IF n # heap_end THEN [w EXCEPT ![n].prev = q] ELSE w
    BY DEF Split
  <2> HIDE DEF e, w, s
  <2>4. w[n] = Header(h[n].next, h[n].prev, h[n].used)
    BY <1>3, <2>1, <2>2, Offsets
  <2>5. CASE n = heap_end
    BY <2>5, <1>3, <1>4, <2>1, <2>2, <2>3
  <2>6. CASE n # heap_end
    <3>1. s \in [DOMAIN h \cup {q} -> HeaderType]
      BY <2>6, <2>2, <2>3, <2>4, <1>1, <1>3 DEF Header, HeaderType
    <3>2. s[n] = Header(h[n].next, q, h[n].used)
      BY <2>6, <2>2, <2>3, <2>4, <1>3 DEF Header
    <3>3. \A x \in DOMAIN h \cup {q} : x # n => s[x] = w[x]
      BY <2>6, <2>2, <2>3
    <3>4. n # p /\ n # q /\ p # q /\ p \in DOMAIN h
      BY <1>3, <1>4
    <3>5. s[q] = Header(n, p, FALSE) /\ s[p] = Header(q, h[p].prev, h[p].used)
      BY <3>3, <3>4, <2>1, <2>2
    <3>6. \A x \in DOMAIN h : x \notin {p, n} => s[x] = h[x]
      BY <3>3, <2>1, <2>2
    <3> QED BY <2>6, <3>1, <3>2, <3>5, <3>6
  <2> QED BY <2>5, <2>6
<1> HIDE DEF s
<1>6. DOMAIN s = DOMAIN h \cup {q}
  BY <1>5
<1>7. /\ ~ s[q].used /\ s[q].next = n /\ s[q].prev = p /\ s[p].next = q
      /\ \A x \in DOMAIN h : /\ s[x].used = h[x].used
                             /\ x # p => s[x].next = h[x].next
                             /\ x \notin {n} => s[x].prev = h[x].prev
      /\ n # heap_end => s[n].prev = q
      /\ n = heap_end => s[n].prev = h[n].prev
  BY <1>1, <1>3, <1>4, <1>5 DEF Header, HeaderType
<1>8. Chain(s)
  <2>1. DOMAIN s \subseteq 0 .. heap_end /\ {0, heap_end} \subseteq DOMAIN s
    BY <1>1, <1>3, <1>6 DEF Chain
  <2>2. ASSUME NEW x \in DOMAIN s \ {heap_end} PROVE Links(s, x)
    <3>1. CASE x = p
      BY <3>1, <1>1, <1>2, <1>3, <1>6, <1>7 DEF Links
    <3>2. CASE x = q
      BY <3>2, <1>1, <1>2, <1>3, <1>4, <1>6, <1>7 DEF Links
    <3>3. CASE x \notin {p, q}
      <4>1. Links(h, x) /\ x \in DOMAIN h /\ x \in Nat
        BY <3>3, <1>1, <1>6 DEF Chain
      <4>2. s[x].next = h[x].next
        BY <1>7, <3>3, <4>1
      <4>3. h[x].next # n \/ n = heap_end
        BY <4>1, <1>2, <3>3 DEF Links
      <4>4. \A y \in DOMAIN s : y > x => s[x].next <= y
        BY <4>1, <4>2, <1>1, <1>2, <1>3, <1>6, <3>3 DEF Links
      <4>5. h[x].next # heap_end => s[h[x].next].prev = x
        BY <4>1, <4>3, <1>7 DEF Links
      <4> QED BY <4>1, <4>2, <4>4, <4>5, <1>6 DEF Links
    <3> QED BY <3>1, <3>2, <3>3
  <2>3. ASSUME NEW x \in DOMAIN s \ {0, heap_end} PROVE LinksBack(s, x)
    <3>1. CASE x = q
      BY <3>1, <1>3, <1>4, <1>6, <1>7 DEF LinksBack
    <3>2. CASE x = n
      BY <3>2, <1>3, <1>4, <1>6, <1>7 DEF LinksBack
    <3>3. CASE x \notin {q, n}
      <4>1. LinksBack(h, x) /\ x \in DOMAIN h
        BY <3>3, <1>6 DEF Chain
      <4> QED BY <3>3, <4>1, <1>6, <1>7 DEF LinksBack
    <3> QED BY <3>1, <3>2, <3>3
  <2>4. s[0].prev = 0 /\ s[heap_end].used /\ s[heap_end].next = heap_end
    BY <1>1, <1>3, <1>7 DEF Chain
  <2> QED BY <1>5, <1>6, <2>1, <2>2, <2>3, <2>4 DEF Chain
<1> QED BY <1>4, <1>6, <1>7, <1>8 DEF s, SplitAt

\* Marking a block used or free leaves the chain as it is.
Marked(h, p, b) == [h EXCEPT ![p].used = b]

\* The chain of headers stays as it is, whatever the mark.
LEMMA MarkChain ==
  ASSUME NEW h, Chain(h), NEW p \in DOMAIN h \ {heap_end}, NEW b \in BOOLEAN
  PROVE  /\ Chain(Marked(h, p, b)) /\ DOMAIN Marked(h, p, b) = DOMAIN h
         /\ \A x \in DOMAIN h :
              /\ Marked(h, p, b)[x].next = h[x].next
              /\ x # p => Marked(h, p, b)[x].used = h[x].used
         /\ Marked(h, p, b)[p].used = b
<1> DEFINE g == Marked(h, p, b)
<1>1. \A x \in DOMAIN h : h[x] \in HeaderType
  BY Offsets
<1>2. /\ g \in [DOMAIN h -> HeaderType]
      /\ \A x \in DOMAIN h : x # p => g[x] = h[x]
  BY <1>1 DEF Chain, HeaderType, Marked
<1>3. g[p].next = h[p].next /\ g[p].prev = h[p].prev /\ g[p].used = b
  BY <1>1 DEF HeaderType, Marked
<1> HIDE DEF g
<1>4. \A x \in DOMAIN h : g[x].next = h[x].next /\ g[x].prev = h[x].prev
  BY <1>2, <1>3
<1>5. DOMAIN g = DOMAIN h
  BY <1>2
<1>6. \A x \in DOMAIN h \ {heap_end} : Links(h, x) => Links(g, x)
  BY <1>4, <1>5 DEF Links
<1>7. \A x \in DOMAIN h \ {0, heap_end} : LinksBack(h, x) => LinksBack(g, x)
  BY <1>4, <1>5 DEF LinksBack
<1>8. g[heap_end].used = h[heap_end].used
  BY <1>2 DEF Chain
<1>9. Chain(g)
  BY <1>2, <1>4, <1>5, <1>6, <1>7, <1>8 DEF Chain
<1> QED BY <1>2, <1>3, <1>4, <1>5, <1>9 DEF g

\* Marking a block used.
LEMMA MarkUsed ==
  ASSUME NEW h, Chain(h), NEW p \in DOMAIN h \ {heap_end}
  PROVE  /\ Chain(Marked(h, p, TRUE)) /\ DOMAIN Marked(h, p, TRUE) = DOMAIN h
         /\ \A x \in DOMAIN h :
              /\ Marked(h, p, TRUE)[x].next = h[x].next
              /\ x # p => Marked(h, p, TRUE)[x].used = h[x].used
         /\ Marked(h, p, TRUE)[p].used
<1> DEFINE b == TRUE
<1>1. b \in BOOLEAN
  OBVIOUS
<1> HIDE DEF b
<1>2. /\ Chain(Marked(h, p, b)) /\ DOMAIN Marked(h, p, b) = DOMAIN h
      /\ \A x \in DOMAIN h :
           /\ Marked(h, p, b)[x].next = h[x].next
           /\ x # p => Marked(h, p, b)[x].used = h[x].used
      /\ Marked(h, p, b)[p].used = b
  BY <1>1, MarkChain
<1> QED BY <1>2 DEF b

\* Marking a block free.
LEMMA MarkFree ==
  ASSUME NEW h, Chain(h), NEW p \in DOMAIN h \ {heap_end}
  PROVE  /\ Chain(Marked(h, p, FALSE)) /\ DOMAIN Marked(h, p, FALSE) = DOMAIN h
         /\ \A x \in DOMAIN h :
              /\ Marked(h, p, FALSE)[x].next = h[x].next
              /\ x # p => Marked(h, p, FALSE)[x].used = h[x].used
         /\ ~ Marked(h, p, FALSE)[p].used
<1> DEFINE b == FALSE
<1>1. b \in BOOLEAN /\ ~ b
  OBVIOUS
<1> HIDE DEF b
<1>2. /\ Chain(Marked(h, p, b)) /\ DOMAIN Marked(h, p, b) = DOMAIN h
      /\ \A x \in DOMAIN h :
           /\ Marked(h, p, b)[x].next = h[x].next
           /\ x # p => Marked(h, p, b)[x].used = h[x].used
      /\ Marked(h, p, b)[p].used = b
  BY <1>1, MarkChain
<1> QED BY <1>1, <1>2 DEF b

(***************************************************************************)
(* The step of plug_holes: block p swallows the block n behind it.         *)
(***************************************************************************)
Merge(h, p, n) ==
  [Restrict(h, DOMAIN h \ {n}) EXCEPT
     ![p].next = h[n].next, ![h[n].next].prev = p]

\* The chain without the header of n is a chain still.
LEMMA MergeChain ==
  ASSUME NEW h, Chain(h), NEW p \in DOMAIN h \ {heap_end}, NEW n,
         n = h[p].next, n # heap_end
  PROVE  LET g == Merge(h, p, n)
         IN  /\ Chain(g)
             /\ n \in DOMAIN h /\ n # p
             /\ DOMAIN g = DOMAIN h \ {n}
             /\ g[p].next = h[n].next
             /\ \A x \in DOMAIN g : /\ g[x].used = h[x].used
                                    /\ x # p => g[x].next = h[x].next
             /\ g[p].prev = h[p].prev
<1> DEFINE g == Merge(h, p, n)
           m == h[n].next
<1>1. /\ heap_end \in Nat /\ HeaderSize \in Nat /\ HeaderSize > 0 /\ heap_end > 0
      /\ \A x \in DOMAIN h : /\ x \in Nat /\ x <= heap_end /\ h[x] \in HeaderType
                             /\ h[x].next \in Int /\ h[x].prev \in Int
                             /\ h[x].used \in BOOLEAN
  BY Offsets
<1>2. Links(h, p) /\ n \in DOMAIN h
  BY DEF Chain, Links
<1>3. Links(h, n)
  BY <1>2 DEF Chain
<1>4. /\ m \in DOMAIN h /\ p \in Nat /\ n \in Nat /\ m \in Nat /\ p < n /\ n < m
      /\ p + HeaderSize <= n /\ n + HeaderSize <= m /\ m <= heap_end
  BY <1>1, <1>2, <1>3 DEF Links
<1>5. /\ g \in [DOMAIN h \ {n} -> HeaderType]
      /\ g[p] = Header(m, h[p].prev, h[p].used)
      /\ g[m] = Header(h[m].next, p, h[m].used)
      /\ \A x \in DOMAIN h \ {n} : x \notin {p, m} => g[x] = h[x]
  <2> DEFINE r == Restrict(h, DOMAIN h \ {n})
             e == [r EXCEPT ![p].next = m]
  <2>1. /\ r \in [DOMAIN h \ {n} -> HeaderType]
        /\ \A x \in DOMAIN h \ {n} : r[x] = h[x]
    BY <1>1 DEF Restrict
  <2>2. g = [e EXCEPT ![m].prev = p]
    BY DEF Merge
  <2> HIDE DEF r
  <2>3. r[p] = Header(h[p].next, h[p].prev, h[p].used)
    BY <2>1, <1>2, <1>4, Offsets
  <2>4. /\ e \in [DOMAIN h \ {n} -> HeaderType]
        /\ e[p] = Header(m, h[p].prev, h[p].used)
        /\ \A x \in DOMAIN h \ {n} : x # p => e[x] = h[x]
    BY <1>1, <1>4, <2>1, <2>3 DEF Header, HeaderType
  <2> HIDE DEF e, g
  <2>5. e[m] = Header(h[m].next, h[m].prev, h[m].used)
    BY <2>4, <1>4, Offsets
  <2>6. g \in [DOMAIN h \ {n} -> HeaderType]
    <3>1. e[m] \in HeaderType /\ p \in Int
      BY <1>1, <1>4, <2>4
    <3>2. \A x \in HeaderType : [x EXCEPT !.prev = p] \in HeaderType
      BY <3>1 DEF HeaderType
    <3>3. g = [e EXCEPT ![m] = [e[m] EXCEPT !.prev = p]]
      BY <2>2
    <3> QED BY <2>4, <3>1, <3>2, <3>3
  <2>7. g[m] = Header(h[m].next, p, h[m].used)
    BY <2>2, <2>4, <2>5, <1>4 DEF Header
  <2>8. \A x \in DOMAIN h \ {n} : x # m => g[x] = e[x]
    BY <2>2, <2>4
  <2> QED BY <2>4, <2>6, <2>7, <2>8, <1>4
<1> HIDE DEF g
<1>6. DOMAIN g = DOMAIN h \ {n}
  BY <1>5
<1>7. /\ g[p].next = m
      /\ \A x \in DOMAIN g : /\ g[x].used = h[x].used
                             /\ x # p => g[x].next = h[x].next
                             /\ x # m => g[x].prev = h[x].prev
      /\ g[m].prev = p
  BY <1>1, <1>2, <1>4, <1>5, <1>6 DEF Header, HeaderType
<1>8. Chain(g)
  <2>1. DOMAIN g \subseteq 0 .. heap_end /\ {0, heap_end} \subseteq DOMAIN g
    BY <1>1, <1>4, <1>6 DEF Chain
  <2>2. ASSUME NEW x \in DOMAIN g \ {heap_end} PROVE Links(g, x)
    <3>1. CASE x = p
      BY <3>1, <1>1, <1>2, <1>3, <1>4, <1>6, <1>7 DEF Links
    <3>2. CASE x # p
      <4>1. Links(h, x) /\ x \in DOMAIN h /\ x \in Nat
        BY <3>2, <1>1, <1>6 DEF Chain
      <4>2. g[x].next = h[x].next
        BY <1>7, <3>2
      <4>3. h[x].next # n
        BY <4>1, <1>2, <3>2 DEF Links
      <4>4. h[x].next # m \/ m = heap_end
        BY <4>1, <1>3, <1>6 DEF Links
      <4>5. h[x].next # heap_end => g[h[x].next].prev = x
        BY <4>1, <4>3, <4>4, <1>6, <1>7 DEF Links
      <4> QED BY <4>1, <4>2, <4>3, <4>5, <1>6 DEF Links
    <3> QED BY <3>1, <3>2
  <2>3. ASSUME NEW x \in DOMAIN g \ {0, heap_end} PROVE LinksBack(g, x)
    <3>1. CASE x = m
      BY <3>1, <1>1, <1>2, <1>4, <1>6, <1>7 DEF LinksBack
    <3>2. CASE x # m
      <4>1. LinksBack(h, x) /\ x \in DOMAIN h /\ x # n
        BY <3>2, <1>6 DEF Chain
      <4>2. g[x].prev = h[x].prev
        BY <3>2, <1>7
      <4>3. h[x].prev # n /\ h[x].prev # p
        BY <4>1, <3>2 DEF LinksBack
      <4> QED BY <4>1, <4>2, <4>3, <1>6, <1>7 DEF LinksBack
    <3> QED BY <3>1, <3>2
  <2>4. g[0].prev = 0 /\ g[heap_end].used /\ g[heap_end].next = heap_end
    BY <1>1, <1>4, <1>6, <1>7 DEF Chain
  <2> QED BY <1>5, <1>6, <2>1, <2>2, <2>3, <2>4 DEF Chain
<1> QED BY <1>2, <1>4, <1>6, <1>7, <1>8 DEF g

(***************************************************************************)
(* plug_holes: a block x that has just become free is merged with its free *)
(* neighbours, after which no two free blocks are neighbours, lfree is in  *)
(* the chain, and no used block has changed.                               *)
(***************************************************************************)
SameUsed(g, h) ==
  /\ \A y \in DOMAIN h : h[y].used =>
       y \in DOMAIN g /\ g[y].used /\ g[y].next = h[y].next
  /\ \A y \in DOMAIN g : g[y].used => y \in DOMAIN h /\ h[y].used

\* plug_holes merges the block x with free neighbours: afterwards no two free
\* blocks are neighbours, and the used blocks are untouched.
LEMMA PlugHoles ==
  ASSUME NEW h, Chain(h), NEW x \in DOMAIN h \ {heap_end}, ~ h[x].used,
         NoHolesBut(h, x), NEW l, FreeOrEnd(h, l)
  PROVE  LET f == plug_holes(h, l, x)
         IN  /\ Chain(f.hdr) /\ NoHoles(f.hdr) /\ FreeOrEnd(f.hdr, f.lfree)
             /\ SameUsed(f.hdr, h)
<1> DEFINE n        == h[x].next
           forward  == n # x /\ ~ h[n].used /\ n # heap_end
           merged   == IF forward THEN Merge(h, x, n) ELSE h
           l1       == IF forward /\ l = n THEN x ELSE l
           q        == merged[x].prev
           backward == q # x /\ ~ merged[q].used
           both     == IF backward THEN Merge(merged, q, x) ELSE merged
           l2       == IF backward /\ l1 = x THEN q ELSE l1
<1>1. plug_holes(h, l, x) = [hdr |-> both, lfree |-> l2]
  BY DEF plug_holes, Merge
<1>2. /\ heap_end \in Nat /\ HeaderSize \in Nat /\ HeaderSize > 0 /\ heap_end > 0
      /\ \A y \in DOMAIN h : y \in Nat /\ y <= heap_end
  BY Offsets
<1>3. Links(h, x) /\ n \in DOMAIN h /\ n > x
  BY <1>2 DEF Chain, Links
<1>4. /\ Chain(merged) /\ x \in DOMAIN merged /\ ~ merged[x].used
      /\ DOMAIN merged \subseteq DOMAIN h
      /\ SameUsed(merged, h)
      /\ merged[merged[x].next].used
      /\ NoHolesBut(merged, x)
      /\ FreeOrEnd(merged, l1)
  <2>1. CASE forward
    <3>1. /\ Chain(merged) /\ DOMAIN merged = DOMAIN h \ {n}
          /\ merged[x].next = h[n].next
          /\ \A y \in DOMAIN merged : /\ merged[y].used = h[y].used
                                      /\ y # x => merged[y].next = h[y].next
      <4>1. merged = Merge(h, x, n) /\ n # heap_end /\ n = h[x].next
        BY <2>1
      <4> HIDE DEF merged, n
      <4> QED BY <4>1, MergeChain
    <3> HIDE DEF merged
    <3>2. Links(h, n)
      BY <1>3, <2>1 DEF Chain
    <3>3. h[n].next \in DOMAIN h /\ h[n].next > n
      BY <1>2, <1>3, <3>2 DEF Links
    <3>4. h[h[n].next].used
      BY <1>2, <1>3, <2>1, <3>3 DEF NoHolesBut
    <3>5. \A y \in DOMAIN merged \ {heap_end} : merged[y].next \in DOMAIN merged
      BY <3>1 DEF Chain, Links
    <3>6. NoHolesBut(merged, x)
      BY <3>1, <3>5 DEF NoHolesBut
    <3>7. FreeOrEnd(merged, l1)
      BY <1>3, <2>1, <3>1 DEF FreeOrEnd
    <3>8. SameUsed(merged, h)
      BY <2>1, <3>1 DEF SameUsed
    <3> QED BY <1>2, <1>3, <3>1, <3>3, <3>4, <3>6, <3>7, <3>8
  <2>2. CASE ~ forward
    <3>1. merged = h /\ l1 = l
      BY <2>2
    <3>2. h[n].used
      BY <1>2, <1>3, <2>2 DEF Chain
    <3> HIDE DEF merged, l1
    <3> QED BY <3>1, <3>2, <1>3 DEF SameUsed
  <2> QED BY <2>1, <2>2
<1> HIDE DEF merged, l1
<1>5. ASSUME NEW y \in DOMAIN merged \ {heap_end}, merged[y].next = x
      PROVE  y = q /\ q # x
  <2>1. Links(merged, y)
    BY <1>4 DEF Chain
  <2>2. y \in Nat /\ x > y
    BY <1>2, <1>4, <1>5, <2>1 DEF Links
  <2> QED BY <1>4, <1>5, <2>1, <2>2 DEF Links
<1>6. CASE backward
  <2>1. q \in DOMAIN merged \ {heap_end} /\ merged[q].next = x
    <3>1. x # 0
      BY <1>4, <1>6 DEF Chain
    <3> QED BY <3>1, <1>4 DEF Chain, LinksBack
  <2>2. /\ Chain(both) /\ DOMAIN both = DOMAIN merged \ {x}
        /\ both[q].next = merged[x].next
        /\ \A y \in DOMAIN both : /\ both[y].used = merged[y].used
                                  /\ y # q => both[y].next = merged[y].next
    <3>1. both = Merge(merged, q, x) /\ x # heap_end /\ Chain(merged)
      BY <1>4, <1>6
    <3> HIDE DEF both, q
    <3> QED BY <2>1, <3>1, MergeChain
  <2> HIDE DEF both
  <2>3. \A y \in DOMAIN both \ {heap_end} : both[y].next \in DOMAIN both
    BY <2>2 DEF Chain, Links
  <2>4. NoHoles(both)
    <3>1. ASSUME NEW y \in DOMAIN both \ {heap_end}
          PROVE  both[y].used \/ both[both[y].next].used
      <4>1. CASE y = q
        BY <4>1, <2>2, <2>3, <1>4, <1>6, <2>1
      <4>2. CASE y # q
        BY <4>2, <2>2, <2>3, <1>4 DEF NoHolesBut
      <4> QED BY <4>1, <4>2
    <3> QED BY <3>1 DEF NoHoles
  <2>5. FreeOrEnd(both, l2)
    BY <1>4, <1>6, <2>1, <2>2 DEF FreeOrEnd
  <2>6. SameUsed(both, merged)
    BY <1>4, <1>6, <2>2 DEF SameUsed
  <2>7. SameUsed(both, h)
    BY <1>4, <2>6 DEF SameUsed
  <2> QED BY <1>1, <2>2, <2>4, <2>5, <2>7
<1>7. CASE ~ backward
  <2>1. both = merged /\ l2 = l1
    BY <1>7
  <2>2. NoHoles(merged)
    BY <1>4, <1>5, <1>7 DEF NoHoles, NoHolesBut
  <2> QED BY <1>1, <1>4, <2>1, <2>2
<1> QED BY <1>6, <1>7

-----------------------------------------------------------------------------
(***************************************************************************)
(* The sum of block sizes that used_mem stands for.  MapThenSumSet is      *)
(* defined by a recursive function on the subsets of its argument.  The    *)
(* lemmas show that the function exists and that the sum does not depend   *)
(* on the order in which the blocks are taken; each is proved by looking   *)
(* at a smallest set for which it would be false.                          *)
(***************************************************************************)
Size(h, p) == h[p].next - p

SumOf(h, S) == MapThenSumSet(LAMBDA p : h[p].next - p, S)

Pick(s) == CHOOSE x \in s : TRUE

\* g adds up the sizes of the blocks in each of the sets D.
Sums(g, h, D) ==
  g = [s \in D |-> IF s = {} THEN 0
                            ELSE Size(h, Pick(s)) + g[s \ {Pick(s)}]]

\* SumOf is such a sum.
LEMMA SumOfIs ==
  ASSUME NEW h, NEW S
  PROVE  SumOf(h, S) = (CHOOSE g : Sums(g, h, SUBSET S))[S]
BY DEF SumOf, MapThenSumSet, MapThenFoldSet, Sums, Size, Pick

\* Of the sets that have some property, one loses it whichever element is
\* taken out.
LEMMA SmallestSet ==
  ASSUME NEW U, IsFiniteSet(U), NEW B \in SUBSET (SUBSET U), B # {}
  PROVE  \E s \in B : IsFiniteSet(s) /\ \A x \in s : s \ {x} \notin B
<1> DEFINE N == {Cardinality(s) : s \in B}
<1>1. \A s \in B : IsFiniteSet(s) /\ Cardinality(s) \in Nat
  BY FS_Subset, FS_CardinalityType
<1>2. N \in SUBSET Nat /\ N # {}
  BY <1>1
<1>3. Min(N) \in N /\ \A n \in N : Min(N) <= n
  BY <1>2, LeastExists
<1>4. PICK s \in B : Cardinality(s) = Min(N)
  BY <1>3
<1>5. ASSUME NEW x \in s, s \ {x} \in B PROVE FALSE
  <2>1. Cardinality(s \ {x}) = Cardinality(s) - 1
    BY <1>1, FS_RemoveElement
  <2>2. Cardinality(s) <= Cardinality(s \ {x})
    BY <1>3, <1>4, <1>5
  <2> QED BY <1>1, <2>1, <2>2
<1> QED BY <1>1, <1>5

\* The function behind the sum exists: it exists for the sets of at most n
\* elements, for every n.
LEMMA SumsExist ==
  ASSUME NEW h, NEW U, IsFiniteSet(U), \A p \in U : Size(h, p) \in Int
  PROVE  \E g \in [SUBSET U -> Int] : Sums(g, h, SUBSET U)
<1> DEFINE D(n) == {s \in SUBSET U : Cardinality(s) <= n}
           Bad  == {n \in Nat : ~ \E g \in [D(n) -> Int] : Sums(g, h, D(n))}
<1>1. \A s \in SUBSET U : IsFiniteSet(s) /\ Cardinality(s) \in Nat
  BY FS_Subset, FS_CardinalityType
<1>2. \A s \in SUBSET U : s # {} => Pick(s) \in s
  BY DEF Pick
<1>3. Bad = {}
  <2> SUFFICES ASSUME Bad # {} PROVE FALSE
    OBVIOUS
  <2> DEFINE n == Min(Bad)
  <2>1. n \in Bad /\ n \in Nat /\ \A m \in Bad : n <= m
    BY LeastExists
  <2> HIDE DEF n
  <2>2. CASE n = 0
    <3> DEFINE g == [s \in D(0) |-> 0]
    <3>1. \A s \in D(0) : s = {}
      BY <1>1, FS_EmptySet
    <3>2. g \in [D(0) -> Int] /\ Sums(g, h, D(0))
      <4>1. g = [s \in D(0) |-> IF s = {} THEN 0
                               ELSE Size(h, Pick(s)) + g[s \ {Pick(s)}]]
        BY <3>1, Zenon
      <4>2. g \in [D(0) -> Int]
        OBVIOUS
      <4> HIDE DEF g, D
      <4> QED BY <4>1, <4>2 DEF Sums
    <3> QED BY <2>1, <2>2, <3>2
  <2>3. CASE n # 0
    <3>1. n - 1 \in Nat /\ n - 1 \notin Bad
      <4> HIDE DEF Bad
      <4> QED BY <2>1, <2>3
    <3>2. PICK f \in [D(n - 1) -> Int] : Sums(f, h, D(n - 1))
      BY <3>1
    <3> DEFINE g == [s \in D(n) |-> IF s = {} THEN 0
                                  ELSE Size(h, Pick(s)) + f[s \ {Pick(s)}]]
    <3>3. ASSUME NEW s \in D(n), s # {} PROVE s \ {Pick(s)} \in D(n - 1)
      <4>1. Cardinality(s \ {Pick(s)}) = Cardinality(s) - 1
        BY <1>1, <1>2, <3>3, FS_RemoveElement
      <4> QED BY <1>1, <2>1, <4>1
    <3>4. g \in [D(n) -> Int]
      <4>1. ASSUME NEW s \in D(n), s # {}
            PROVE  Size(h, Pick(s)) + f[s \ {Pick(s)}] \in Int
        <5>1. Size(h, Pick(s)) \in Int
          BY <1>2, <4>1
        <5>2. f[s \ {Pick(s)}] \in Int
          BY <3>2, <3>3, <4>1
        <5> QED BY <5>1, <5>2
      <4> QED BY <4>1
    <3>5. D(n - 1) \subseteq D(n)
      BY <1>1, <2>1
    <3>6. \A s \in D(n - 1) : g[s] = f[s]
      <4> HIDE DEF D
      <4> QED BY <3>2, <3>5 DEF Sums
    <3>7. Sums(g, h, D(n))
      <4>1. \A s \in D(n) : s # {} => g[s \ {Pick(s)}] = f[s \ {Pick(s)}]
        BY <3>3, <3>6
      <4> HIDE DEF D
      <4> QED BY <4>1 DEF Sums
    <3> QED BY <2>1, <3>4, <3>7
  <2> QED BY <2>2, <2>3
<1>4. Cardinality(U) \in Nat /\ D(Cardinality(U)) = SUBSET U
  BY FS_Subset, FS_CardinalityType
<1>5. \E g \in [D(Cardinality(U)) -> Int] : Sums(g, h, D(Cardinality(U)))
  <2> HIDE DEF D
  <2> QED BY <1>3, <1>4
<1> HIDE DEF D
<1> QED BY <1>4, <1>5, Zenon

\* Two such functions agree on the sets they share.
LEMMA SumsAgree ==
  ASSUME NEW h, NEW V, IsFiniteSet(V), NEW U \in SUBSET V,
         NEW f, Sums(f, h, SUBSET U), NEW g, Sums(g, h, SUBSET V)
  PROVE  f[U] = g[U]
<1> DEFINE Bad == {s \in SUBSET U : f[s] # g[s]}
<1>1. IsFiniteSet(U)
  BY FS_Subset
<1>2. SUFFICES ASSUME Bad # {} PROVE FALSE
  OBVIOUS
<1>3. PICK s \in Bad : \A x \in s : s \ {x} \notin Bad
  BY <1>1, <1>2, SmallestSet
<1>4. s # {} => Pick(s) \in s
  BY DEF Pick
<1>5. f[s] = IF s = {} THEN 0 ELSE Size(h, Pick(s)) + f[s \ {Pick(s)}]
  BY DEF Sums
<1>6. g[s] = IF s = {} THEN 0 ELSE Size(h, Pick(s)) + g[s \ {Pick(s)}]
  BY DEF Sums
<1>7. s # {} => f[s \ {Pick(s)}] = g[s \ {Pick(s)}]
  BY <1>3, <1>4
<1> QED BY <1>5, <1>6, <1>7

\* The sum of no blocks is 0; a sum is the size of one block and the sum of the
\* others.
LEMMA SumPicks ==
  ASSUME NEW h, NEW S, IsFiniteSet(S), \A p \in S : Size(h, p) \in Int
  PROVE  /\ SumOf(h, S) \in Int
         /\ S = {} => SumOf(h, S) = 0
         /\ S # {} => SumOf(h, S) = Size(h, Pick(S)) + SumOf(h, S \ {Pick(S)})
<1> DEFINE G(T) == CHOOSE g : Sums(g, h, SUBSET T)
<1>1. ASSUME NEW T \in SUBSET S
      PROVE  SumOf(h, T) = G(T)[T] /\ Sums(G(T), h, SUBSET T) /\ G(T)[T] \in Int
  <2>1. IsFiniteSet(T) /\ \A p \in T : Size(h, p) \in Int
    BY FS_Subset
  <2>2. PICK g \in [SUBSET T -> Int] : Sums(g, h, SUBSET T)
    BY <2>1, SumsExist
  <2>3. Sums(G(T), h, SUBSET T)
    BY <2>2
  <2>4. SumOf(h, T) = G(T)[T]
    BY SumOfIs
  <2> HIDE DEF G
  <2>5. g[T] = G(T)[T]
    BY <2>1, <2>2, <2>3, SumsAgree
  <2> QED BY <2>2, <2>3, <2>4, <2>5
<1> HIDE DEF G
<1>2. G(S)[S] = IF S = {} THEN 0 ELSE Size(h, Pick(S)) + G(S)[S \ {Pick(S)}]
  BY <1>1 DEF Sums
<1>3. ASSUME S # {}
      PROVE  G(S)[S \ {Pick(S)}] = G(S \ {Pick(S)})[S \ {Pick(S)}]
  <2> DEFINE T == S \ {Pick(S)}
  <2>1. T \in SUBSET S /\ S \in SUBSET S
    OBVIOUS
  <2> HIDE DEF T
  <2>2. Sums(G(T), h, SUBSET T) /\ Sums(G(S), h, SUBSET S)
    BY <1>1, <2>1
  <2>3. G(T)[T] = G(S)[T]
    BY <2>1, <2>2, SumsAgree
  <2> QED BY <2>3 DEF T
<1> QED BY <1>1, <1>2, <1>3

\* Whichever block is taken out.
LEMMA SumRemoves ==
  ASSUME NEW h, NEW S, IsFiniteSet(S), \A p \in S : Size(h, p) \in Int, NEW x \in S
  PROVE  SumOf(h, S) = Size(h, x) + SumOf(h, S \ {x})
<1> DEFINE Bad == {s \in SUBSET S :
                     \E y \in s : SumOf(h, s) # Size(h, y) + SumOf(h, s \ {y})}
<1>1. SUFFICES ASSUME Bad # {} PROVE FALSE
  OBVIOUS
<1>2. PICK s \in Bad : \A y \in s : s \ {y} \notin Bad
  BY <1>1, SmallestSet
<1>3. PICK y \in s : SumOf(h, s) # Size(h, y) + SumOf(h, s \ {y})
  OBVIOUS
<1> DEFINE c == Pick(s)
<1>4. c \in s /\ s \in SUBSET S
  BY <1>3 DEF Pick
<1> HIDE DEF c
<1>5. \A T \in SUBSET S : IsFiniteSet(T) /\ SumOf(h, T) \in Int
  BY FS_Subset, SumPicks
<1>6. SumOf(h, s) = Size(h, c) + SumOf(h, s \ {c})
  BY <1>3, <1>4, <1>5, SumPicks DEF c
<1>7. y # c
  BY <1>3, <1>6
<1>8. SumOf(h, s \ {c}) = Size(h, y) + SumOf(h, (s \ {c}) \ {y})
  BY <1>2, <1>4, <1>7
<1>9. SumOf(h, s \ {y}) = Size(h, c) + SumOf(h, (s \ {y}) \ {c})
  BY <1>2, <1>4, <1>7
<1>10. (s \ {c}) \ {y} = (s \ {y}) \ {c}
  OBVIOUS
<1>11. Size(h, y) \in Int /\ Size(h, c) \in Int /\ SumOf(h, (s \ {y}) \ {c}) \in Int
  BY <1>4, <1>5
<1>12. SumOf(h, (s \ {c}) \ {y}) = SumOf(h, (s \ {y}) \ {c})
  BY <1>10
<1> QED BY <1>3, <1>6, <1>8, <1>9, <1>11, <1>12

\* The sum depends on the sizes only.
LEMMA SumFrame ==
  ASSUME NEW h, NEW g, NEW S, IsFiniteSet(S), \A p \in S : Size(h, p) \in Int,
         \A p \in S : Size(g, p) = Size(h, p)
  PROVE  SumOf(g, S) = SumOf(h, S)
<1> DEFINE Bad == {s \in SUBSET S : SumOf(g, s) # SumOf(h, s)}
<1>1. SUFFICES ASSUME Bad # {} PROVE FALSE
  OBVIOUS
<1>2. PICK s \in Bad : \A y \in s : s \ {y} \notin Bad
  BY <1>1, SmallestSet
<1>3. /\ IsFiniteSet(s) /\ s \in SUBSET S
      /\ \A p \in s : Size(h, p) \in Int /\ Size(g, p) \in Int
  BY FS_Subset
<1>4. s # {} => Pick(s) \in s
  BY DEF Pick
<1>5. /\ s = {} => SumOf(h, s) = 0
      /\ s # {} => SumOf(h, s) = Size(h, Pick(s)) + SumOf(h, s \ {Pick(s)})
  BY <1>3, SumPicks
<1>6. /\ s = {} => SumOf(g, s) = 0
      /\ s # {} => SumOf(g, s) = Size(g, Pick(s)) + SumOf(g, s \ {Pick(s)})
  BY <1>3, SumPicks
<1> QED BY <1>2, <1>3, <1>4, <1>5, <1>6

-----------------------------------------------------------------------------
(***************************************************************************)
(* The inductive invariant.  The chain is well formed; the threads' blocks *)
(* are the used ones; used_mem is their sum.                               *)
(***************************************************************************)
Used(h) == {p \in DOMAIN h \ {heap_end} : h[p].used}

WellFormed(h, l) == Chain(h) /\ NoHoles(h) /\ FreeOrEnd(h, l)

Owns(h, o) ==
  /\ DOMAIN o = Task
  /\ \A t \in Task : \A p \in DOMAIN o[t] :
       /\ o[t][p] \in Nat /\ DataSize(h, p) >= o[t][p]
       /\ \A u \in Task \ {t} : p \notin DOMAIN o[u]
  /\ UNION {DOMAIN o[t] : t \in Task} = Used(h)

Moving(o, m) ==
  /\ DOMAIN m = Task
  /\ \A t \in Task : m[t] # NoMove => m[t] \in DOMAIN o[t]

HeapInv ==
  /\ WellFormed(hdr, lfree)
  /\ Owns(hdr, has)
  /\ Moving(has, move)
  /\ usedMem = SumOf(hdr, Used(hdr))

\* The used blocks are finitely many and have sizes, so their sum is defined.
LEMMA UsedFinite ==
  ASSUME NEW h, Chain(h)
  PROVE  /\ IsFiniteSet(Used(h))
         /\ \A p \in DOMAIN h : Size(h, p) \in Int
         /\ SumOf(h, Used(h)) \in Int
<1>1. /\ heap_end \in Nat
      /\ \A p \in DOMAIN h : p \in Nat /\ p <= heap_end /\ h[p].next \in Int
  BY Offsets
<1>2. IsFiniteSet(0 .. heap_end) /\ Used(h) \in SUBSET (0 .. heap_end)
  BY <1>1, FS_Interval DEF Used
<1>3. IsFiniteSet(Used(h))
  BY <1>2, FS_Subset
<1>4. \A p \in DOMAIN h : Size(h, p) \in Int
  BY <1>1 DEF Size
<1>5. \A p \in Used(h) : Size(h, p) \in Int
  BY <1>4 DEF Used
<1> QED BY <1>3, <1>4, <1>5, SumPicks

\* A block joins the used ones: the sum grows by its size.
LEMMA SumAdds ==
  ASSUME NEW h, Chain(h), NEW g, Chain(g), NEW p, p \notin Used(h),
         Used(g) = Used(h) \cup {p},
         \A x \in Used(h) : g[x].next = h[x].next
  PROVE  SumOf(g, Used(g)) = SumOf(h, Used(h)) + (g[p].next - p)
<1>1. /\ IsFiniteSet(Used(h)) /\ SumOf(h, Used(h)) \in Int
      /\ \A x \in Used(h) : Size(h, x) \in Int
  BY UsedFinite DEF Used
<1>2. /\ IsFiniteSet(Used(g))
      /\ \A x \in Used(g) : Size(g, x) \in Int
  BY UsedFinite DEF Used
<1>3. p \in Used(g) /\ Used(g) \ {p} = Used(h)
  OBVIOUS
<1>4. SumOf(g, Used(g)) = Size(g, p) + SumOf(g, Used(h))
  BY <1>2, <1>3, SumRemoves
<1>5. SumOf(g, Used(h)) = SumOf(h, Used(h))
  <2>1. \A x \in Used(h) : Size(g, x) = Size(h, x)
    BY DEF Size
  <2> HIDE DEF Used
  <2> QED BY <1>1, <2>1, SumFrame
<1>6. Size(g, p) \in Int /\ Size(g, p) = g[p].next - p
  BY <1>2, <1>3 DEF Size
<1> QED BY <1>1, <1>4, <1>5, <1>6

\* A block leaves the used ones: the sum shrinks by its size.
LEMMA SumDrops ==
  ASSUME NEW h, Chain(h), NEW g, Chain(g), NEW p \in Used(h),
         Used(g) = Used(h) \ {p},
         \A x \in Used(g) : g[x].next = h[x].next
  PROVE  SumOf(g, Used(g)) = SumOf(h, Used(h)) - (h[p].next - p)
<1>1. /\ IsFiniteSet(Used(g)) /\ SumOf(g, Used(g)) \in Int
      /\ \A x \in Used(g) : Size(g, x) \in Int
  BY UsedFinite DEF Used
<1>2. SumOf(h, Used(h)) = Size(h, p) + SumOf(h, Used(g))
  <2>1. IsFiniteSet(Used(h)) /\ \A x \in Used(h) : Size(h, x) \in Int
    BY UsedFinite DEF Used
  <2>2. SumOf(h, Used(h)) = Size(h, p) + SumOf(h, Used(h) \ {p})
    BY <2>1, SumRemoves
  <2> QED BY <2>2
<1>3. SumOf(h, Used(g)) = SumOf(g, Used(g))
  <2>1. \A x \in Used(g) : Size(h, x) = Size(g, x)
    BY DEF Size
  <2> HIDE DEF Used
  <2> QED BY <1>1, <2>1, SumFrame
<1>4. Size(h, p) \in Int /\ Size(h, p) = h[p].next - p
  BY UsedFinite DEF Size, Used
<1> QED BY <1>1, <1>2, <1>3, <1>4

-----------------------------------------------------------------------------
\* The loop that moves lfree on ends at a free block or at the sentinel.
LEMMA NextFreeFacts ==
  ASSUME NEW h, Chain(h), NEW l \in DOMAIN h
  PROVE  FreeOrEnd(h, NextFree(h, l))
<1> DEFINE Q == {q \in DOMAIN h : q >= l /\ (~ h[q].used \/ q = heap_end)}
<1>1. Q \in SUBSET Nat /\ heap_end \in Q
  BY Offsets DEF Chain
<1>2. Min(Q) \in Q
  BY <1>1, LeastExists
<1> QED BY <1>2 DEF NextFree, FreeOrEnd

(***************************************************************************)
(* rt_malloc in a block p that fits: the block becomes used, is as large   *)
(* as asked for, and no used block has changed.                            *)
(***************************************************************************)
LEMMA MallocFacts ==
  ASSUME WellFormed(hdr, lfree), usedMem = SumOf(hdr, Used(hdr)),
         NEW size \in Nat, NEW p \in Fits(size), MallocAt(p, size)
  PROVE  /\ WellFormed(hdr', lfree')
         /\ p \in Nat /\ p \notin Used(hdr) /\ Used(hdr') = Used(hdr) \cup {p}
         /\ \A x \in Used(hdr) : hdr'[x].next = hdr[x].next
         /\ DataSize(hdr', p) >= size
         /\ usedMem' = SumOf(hdr', Used(hdr'))
<1> DEFINE n == hdr[p].next
           q == p + HeaderSize + size
           h == Carve(p, size)
<1>1. /\ Chain(hdr) /\ NoHoles(hdr) /\ FreeOrEnd(hdr, lfree)
  BY DEF WellFormed
<1>2. /\ heap_end \in Nat /\ HeaderSize \in Nat /\ HeaderSize > 0 /\ MinSize \in Nat
      /\ \A x \in DOMAIN hdr : /\ x \in Nat /\ x <= heap_end /\ hdr[x].next \in Int
                                /\ hdr[x] \in HeaderType
      /\ MemSize \in Nat /\ heap_end = MemSize + HeaderSize
  BY <1>1, Offsets, HeapAssumption DEF heap_end
<1>3. /\ p \in DOMAIN hdr \ {heap_end} /\ ~ hdr[p].used
      /\ DataSize(hdr, p) >= size
  BY <1>2 DEF Fits
<1>4. Links(hdr, p) /\ n \in DOMAIN hdr /\ hdr[n].used /\ n > p
  BY <1>1, <1>2, <1>3 DEF Chain, Links, NoHoles
<1>5. \A x \in Used(hdr) : x \in DOMAIN hdr /\ x # p
  BY <1>3 DEF Used
<1>6. /\ Chain(h) /\ NoHoles(h) /\ DOMAIN hdr \subseteq DOMAIN h
      /\ h[p].used /\ Used(h) = Used(hdr) \cup {p}
      /\ \A x \in DOMAIN hdr : x # p => /\ h[x].next = hdr[x].next
                                        /\ h[x].used = hdr[x].used
      /\ h[p].next - (p + HeaderSize) >= size
  <2>1. CASE DataSize(hdr, p) >= size + HeaderSize + MinSize
    <3> DEFINE s == Split(hdr, p, q)
    <3>1. q \in Int /\ p + HeaderSize <= q /\ q + HeaderSize <= n
      BY <1>2, <1>3, <2>1 DEF DataSize
    <3>2. /\ Chain(s) /\ q \notin DOMAIN hdr /\ q # heap_end
          /\ DOMAIN s = DOMAIN hdr \cup {q}
          /\ ~ s[q].used /\ s[q].next = n /\ s[p].next = q
          /\ \A x \in DOMAIN hdr : /\ s[x].used = hdr[x].used
                                   /\ x # p => s[x].next = hdr[x].next
      <4>1. SplitAt(hdr, s, p, q)
        BY <1>1, <1>3, <3>1, SplitChain
      <4> QED BY <4>1 DEF SplitAt
    <3>3. h = Marked(s, p, TRUE) /\ p \in DOMAIN s \ {heap_end}
      BY <2>1, <1>3, <3>2 DEF Carve, Marked
    <3> HIDE DEF s, h
    <3>4. /\ Chain(h) /\ DOMAIN h = DOMAIN s
          /\ \A x \in DOMAIN s : h[x].next = s[x].next /\ (x # p => h[x].used = s[x].used)
          /\ h[p].used
      <4>1. Chain(s) /\ p \in DOMAIN s \ {heap_end}
        BY <3>2, <3>3
      <4> QED BY <3>3, <4>1, MarkUsed
    <3>5. NoHoles(h)
      <4>1. ASSUME NEW x \in DOMAIN h \ {heap_end} PROVE h[x].used \/ h[h[x].next].used
        <5>1. CASE x = p
          BY <5>1, <3>4
        <5>2. CASE x = q
          BY <5>2, <3>2, <3>4, <1>4, <1>3
        <5>3. CASE x \notin {p, q}
          <6>1. hdr[x].used \/ hdr[hdr[x].next].used
            BY <5>3, <3>2, <3>4, <1>1 DEF NoHoles
          <6>2. hdr[x].next \in DOMAIN hdr
            BY <5>3, <3>2, <3>4, <1>1 DEF Chain, Links
          <6> QED BY <5>3, <6>1, <6>2, <3>2, <3>4
        <5> QED BY <5>1, <5>2, <5>3
      <4> QED BY <4>1 DEF NoHoles
    <3>6. Used(h) = Used(hdr) \cup {p}
      BY <3>2, <3>4, <1>3 DEF Used
    <3> QED BY <3>1, <3>2, <3>4, <3>5, <3>6, <1>2, <1>3
  <2>2. CASE ~ (DataSize(hdr, p) >= size + HeaderSize + MinSize)
    <3>1. h = Marked(hdr, p, TRUE)
      BY <2>2 DEF Carve, Marked
    <3> HIDE DEF h
    <3>2. /\ Chain(h) /\ DOMAIN h = DOMAIN hdr
          /\ \A x \in DOMAIN hdr : h[x].next = hdr[x].next
                                   /\ (x # p => h[x].used = hdr[x].used)
          /\ h[p].used
      BY <3>1, <1>1, <1>3, MarkUsed
    <3>3. NoHoles(h)
      <4>1. \A x \in DOMAIN hdr : hdr[x].used => h[x].used
        BY <3>2
      <4>2. \A x \in DOMAIN hdr \ {heap_end} : hdr[x].next \in DOMAIN hdr
        BY <1>1 DEF Chain, Links
      <4> QED BY <3>2, <4>1, <4>2, <1>1 DEF NoHoles
    <3>4. Used(h) = Used(hdr) \cup {p}
      BY <3>2, <1>3 DEF Used
    <3>5. h[p].next - (p + HeaderSize) >= size
      BY <3>2, <1>3 DEF DataSize
    <3> QED BY <3>2, <3>3, <3>4, <3>5
  <2> QED BY <2>1, <2>2
<1>7. /\ hdr' = h
      /\ lfree' = IF p = lfree THEN NextFree(h, lfree) ELSE lfree
      /\ usedMem' = usedMem + h[p].next - p
  BY DEF MallocAt
<1> HIDE DEF h
<1>8. FreeOrEnd(hdr', lfree')
  <2>1. CASE p = lfree
    BY <2>1, <1>3, <1>6, <1>7, NextFreeFacts
  <2>2. CASE p # lfree
    BY <2>2, <1>1, <1>6, <1>7 DEF FreeOrEnd
  <2> QED BY <2>1, <2>2
<1>9. p \notin Used(hdr) /\ \A x \in Used(hdr) : h[x].next = hdr[x].next
  BY <1>3, <1>5, <1>6 DEF Used
<1>10. SumOf(h, Used(h)) = SumOf(hdr, Used(hdr)) + (h[p].next - p)
  <2>1. Chain(hdr) /\ Chain(h) /\ Used(h) = Used(hdr) \cup {p}
    BY <1>1, <1>6
  <2> QED BY ZenonT(60), <1>9, <2>1, SumAdds
<1>11. SumOf(hdr, Used(hdr)) \in Int /\ h[p].next \in Int /\ p \in Nat
  BY <1>1, <1>2, <1>3, <1>6, UsedFinite, Offsets
<1>12. usedMem' = SumOf(hdr', Used(hdr'))
  <2>1. usedMem' = SumOf(h, Used(h))
    BY <1>7, <1>10, <1>11
  <2> QED BY <2>1, <1>7
<1> QED BY <1>6, <1>7, <1>8, <1>9, <1>11, <1>12 DEF WellFormed, DataSize

(***************************************************************************)
(* rt_free of a used block: it is no longer used, and no other used block  *)
(* has changed.                                                            *)
(***************************************************************************)
LEMMA ReleaseFacts ==
  ASSUME WellFormed(hdr, lfree), usedMem = SumOf(hdr, Used(hdr)),
         NEW p \in Used(hdr), Release(p)
  PROVE  /\ WellFormed(hdr', lfree')
         /\ Used(hdr') = Used(hdr) \ {p}
         /\ \A x \in Used(hdr) \ {p} : hdr'[x].next = hdr[x].next
         /\ usedMem' = SumOf(hdr', Used(hdr'))
<1> DEFINE l == IF p < lfree THEN p ELSE lfree
           h == Marked(hdr, p, FALSE)
           f == plug_holes(h, l, p)
<1>1. Chain(hdr) /\ NoHoles(hdr) /\ FreeOrEnd(hdr, lfree)
  BY DEF WellFormed
<1>2. p \in DOMAIN hdr \ {heap_end} /\ hdr[p].used
  BY DEF Used
<1>3. hdr' = f.hdr /\ lfree' = f.lfree /\ usedMem' = usedMem - (hdr[p].next - p)
  BY DEF Release, Marked
<1>4. /\ Chain(h) /\ DOMAIN h = DOMAIN hdr /\ ~ h[p].used
      /\ \A x \in DOMAIN hdr : /\ h[x].next = hdr[x].next
                               /\ x # p => h[x].used = hdr[x].used
  BY <1>1, <1>2, MarkFree
<1> HIDE DEF h
<1>5. NoHolesBut(h, p)
  <2>1. \A x \in DOMAIN hdr \ {heap_end} : hdr[x].next \in DOMAIN hdr
    BY <1>1 DEF Chain, Links
  <2> QED BY <1>1, <1>4, <2>1 DEF NoHoles, NoHolesBut
<1>6. FreeOrEnd(h, l)
  BY <1>1, <1>2, <1>4 DEF FreeOrEnd
<1>7. Chain(f.hdr) /\ NoHoles(f.hdr) /\ FreeOrEnd(f.hdr, f.lfree) /\ SameUsed(f.hdr, h)
  <2> HIDE DEF l
  <2>1. p \in DOMAIN h \ {heap_end}
    BY <1>2, <1>4
  <2> QED BY <1>4, <1>5, <1>6, <2>1, PlugHoles
<1> HIDE DEF f
<1>8. Chain(hdr') /\ WellFormed(hdr', lfree') /\ SameUsed(hdr', h)
  BY <1>3, <1>7 DEF WellFormed
<1>9. Used(hdr') = Used(hdr) \ {p}
  BY <1>4, <1>8 DEF SameUsed, Used
<1>10. \A x \in Used(hdr) \ {p} : hdr'[x].next = hdr[x].next
  BY <1>4, <1>8 DEF SameUsed, Used
<1>11. usedMem' = SumOf(hdr', Used(hdr'))
  <2>1. \A x \in Used(hdr') : hdr'[x].next = hdr[x].next
    BY <1>9, <1>10
  <2>2. SumOf(hdr', Used(hdr')) = SumOf(hdr, Used(hdr)) - (hdr[p].next - p)
    BY <1>1, <1>8, <1>9, <2>1, SumDrops
  <2> QED BY <1>3, <2>2
<1> QED BY <1>8, <1>9, <1>10, <1>11

\* A block that stays used changes its size.
LEMMA SumChanges ==
  ASSUME NEW h, Chain(h), NEW g, Chain(g), NEW p \in Used(h), Used(g) = Used(h),
         \A x \in Used(h) \ {p} : g[x].next = h[x].next
  PROVE  SumOf(g, Used(g)) = SumOf(h, Used(h)) + (g[p].next - h[p].next)
<1> DEFINE R == Used(h) \ {p}
<1>1. IsFiniteSet(Used(h)) /\ \A x \in Used(h) : Size(h, x) \in Int
  BY UsedFinite DEF Used
<1>2. \A x \in Used(h) : Size(g, x) \in Int
  BY UsedFinite DEF Used
<1>3. SumOf(h, Used(h)) = Size(h, p) + SumOf(h, R)
  BY <1>1, SumRemoves
<1>4. SumOf(g, Used(h)) = Size(g, p) + SumOf(g, R)
  <2> DEFINE U == Used(h)
  <2>1. IsFiniteSet(U) /\ p \in U /\ \A x \in U : Size(g, x) \in Int
    BY <1>1, <1>2
  <2> HIDE DEF U
  <2>2. SumOf(g, U) = Size(g, p) + SumOf(g, U \ {p})
    BY <2>1, SumRemoves
  <2> QED BY <2>2 DEF U
<1>5. IsFiniteSet(R)
  BY <1>1, FS_RemoveElement
<1>6. /\ \A x \in R : Size(g, x) = Size(h, x)
      /\ \A x \in R : Size(h, x) \in Int
  BY <1>1 DEF Size
<1> HIDE DEF R
<1>7. SumOf(g, R) = SumOf(h, R) /\ SumOf(h, R) \in Int
  <2>1. SumOf(g, R) = SumOf(h, R)
    BY <1>5, <1>6, SumFrame
  <2>2. SumOf(h, R) \in Int
    BY <1>5, <1>6, SumPicks
  <2> QED BY <2>1, <2>2
<1>8. /\ h[p].next \in Int /\ g[p].next \in Int /\ p \in Int
      /\ Size(h, p) = h[p].next - p /\ Size(g, p) = g[p].next - p
  BY Offsets DEF Size, Used
<1> QED BY <1>3, <1>4, <1>7, <1>8

(***************************************************************************)
(* rt_realloc to a smaller size: the block stays used and keeps the size   *)
(* that is asked for; no other used block has changed.                     *)
(***************************************************************************)
LEMMA ShrinkFacts ==
  ASSUME WellFormed(hdr, lfree), usedMem = SumOf(hdr, Used(hdr)),
         NEW t, NEW p \in Used(hdr), NEW size \in Nat, Shrink(t, p, size)
  PROVE  /\ WellFormed(hdr', lfree')
         /\ Used(hdr') = Used(hdr)
         /\ \A x \in Used(hdr) \ {p} : hdr'[x].next = hdr[x].next
         /\ DataSize(hdr', p) = size
         /\ usedMem' = SumOf(hdr', Used(hdr'))
<1> DEFINE q == p + HeaderSize + size
           s == Split(hdr, p, q)
           f == plug_holes(s, lfree, q)
<1>1. Chain(hdr) /\ NoHoles(hdr) /\ FreeOrEnd(hdr, lfree)
  BY DEF WellFormed
<1>2. p \in DOMAIN hdr \ {heap_end} /\ hdr[p].used
  BY DEF Used
<1>3. /\ HeaderSize \in Nat /\ MinSize \in Nat /\ p \in Nat /\ hdr[p].next \in Int
  BY <1>1, <1>2, Offsets, HeapAssumption
<1>4. /\ size + HeaderSize + MinSize < DataSize(hdr, p)
      /\ hdr' = f.hdr /\ lfree' = f.lfree
      /\ usedMem' = usedMem - (DataSize(hdr, p) - size)
  BY DEF Shrink
<1>5. q \in Int /\ p + HeaderSize <= q /\ q + HeaderSize <= hdr[p].next
  BY <1>3, <1>4 DEF DataSize
<1>6. /\ Chain(s) /\ q \notin DOMAIN hdr /\ q # heap_end
      /\ DOMAIN s = DOMAIN hdr \cup {q}
      /\ ~ s[q].used /\ s[q].next = hdr[p].next /\ s[p].next = q
      /\ \A x \in DOMAIN hdr : /\ s[x].used = hdr[x].used
                               /\ x # p => s[x].next = hdr[x].next
  <2> HIDE DEF q, s
  <2>1. s = Split(hdr, p, q)
    BY DEF s
  <2>2. Chain(hdr) /\ p \in DOMAIN hdr \ {heap_end}
    BY <1>1, <1>2
  <2>3. q \in Int /\ p + HeaderSize <= q /\ q + HeaderSize <= hdr[p].next
    BY <1>5
  <2>4. SplitAt(hdr, Split(hdr, p, q), p, q)
    BY <2>2, <2>3, SplitChain
  <2> QED BY <2>1, <2>4 DEF SplitAt
<1> HIDE DEF s
<1>7. NoHolesBut(s, q)
  <2>1. \A x \in DOMAIN hdr \ {heap_end} : hdr[x].next \in DOMAIN hdr
    BY <1>1 DEF Chain, Links
  <2> HIDE DEF q
  <2> QED BY <1>1, <1>2, <1>6, <2>1 DEF NoHoles, NoHolesBut
<1>8. FreeOrEnd(s, lfree)
  BY <1>1, <1>6 DEF FreeOrEnd
<1>9. Chain(f.hdr) /\ NoHoles(f.hdr) /\ FreeOrEnd(f.hdr, f.lfree) /\ SameUsed(f.hdr, s)
  <2>1. q \in DOMAIN s \ {heap_end} /\ ~ s[q].used /\ Chain(s)
    BY <1>6
  <2> HIDE DEF q
  <2> QED BY <1>7, <1>8, <2>1, PlugHoles
<1> HIDE DEF f
<1>10. Chain(hdr') /\ WellFormed(hdr', lfree') /\ SameUsed(hdr', s)
  BY <1>4, <1>9 DEF WellFormed
<1>11. Used(hdr') = Used(hdr)
  <2> HIDE DEF q
  <2> QED BY <1>6, <1>10 DEF SameUsed, Used
<1>12. hdr'[p].next = q /\ \A x \in Used(hdr) \ {p} : hdr'[x].next = hdr[x].next
  <2> HIDE DEF q
  <2> QED BY <1>2, <1>6, <1>10 DEF SameUsed, Used
<1>13. DataSize(hdr', p) = size
  BY <1>3, <1>12 DEF DataSize
<1>14. usedMem' = SumOf(hdr', Used(hdr'))
  <2>1. SumOf(hdr', Used(hdr')) = SumOf(hdr, Used(hdr)) + (hdr'[p].next - hdr[p].next)
    BY <1>1, <1>10, <1>11, <1>12, SumChanges
  <2>2. SumOf(hdr, Used(hdr)) \in Int
    BY <1>1, UsedFinite
  <2>3. usedMem' = SumOf(hdr, Used(hdr)) + (q - hdr[p].next)
    BY <1>3, <1>4, <2>2 DEF DataSize
  <2> QED BY <1>12, <2>1, <2>3
<1> QED BY <1>10, <1>11, <1>12, <1>13, <1>14

-----------------------------------------------------------------------------
(***************************************************************************)
(* The steps of the specification.                                         *)
(***************************************************************************)
\* Initially there is one free block and the sentinel.
LEMMA InitHeapInv == HeapInit => HeapInv
<1> SUFFICES ASSUME HeapInit PROVE HeapInv
  OBVIOUS
<1>1. /\ heap_end \in Nat /\ HeaderSize \in Nat /\ HeaderSize > 0 /\ heap_end > 0
      /\ heap_end >= HeaderSize
  BY HeapAssumption DEF heap_end
<1>2. /\ DOMAIN hdr = {0, heap_end} /\ hdr \in [DOMAIN hdr -> HeaderType]
      /\ hdr[0] = Header(heap_end, 0, FALSE)
      /\ hdr[heap_end] = Header(heap_end, heap_end, TRUE)
  BY <1>1 DEF HeapInit, Header, HeaderType
<1>3. /\ hdr[0].next = heap_end /\ hdr[0].prev = 0 /\ ~ hdr[0].used
      /\ hdr[heap_end].next = heap_end /\ hdr[heap_end].used
  BY <1>2 DEF Header
<1>4. Chain(hdr)
  <2>1. /\ heap_end >= 0 + HeaderSize
        /\ \A q \in {0, heap_end} : q > 0 => heap_end <= q
    BY <1>1
  <2>2. Links(hdr, 0)
    BY <1>1, <1>2, <1>3, <2>1 DEF Links
  <2>3. DOMAIN hdr \ {heap_end} = {0} /\ DOMAIN hdr \ {0, heap_end} = {}
    BY <1>1, <1>2
  <2>4. DOMAIN hdr \subseteq 0 .. heap_end
    BY <1>1, <1>2
  <2> QED BY <1>2, <1>3, <2>2, <2>3, <2>4 DEF Chain
<1>5. NoHoles(hdr) /\ FreeOrEnd(hdr, lfree)
  BY <1>2, <1>3 DEF NoHoles, FreeOrEnd, HeapInit
<1>6. Used(hdr) = {}
  BY <1>2, <1>3 DEF Used
<1>7. Owns(hdr, has) /\ Moving(has, move)
  <2>1. DOMAIN has = Task /\ DOMAIN move = Task
        /\ \A t \in Task : DOMAIN has[t] = {} /\ move[t] = NoMove
    BY DEF HeapInit
  <2> QED BY <1>6, <2>1 DEF Owns, Moving
<1>8. usedMem = SumOf(hdr, Used(hdr))
  <2>1. SumOf(hdr, Used(hdr)) = 0
    BY <1>4, <1>6, UsedFinite, SumPicks
  <2> QED BY <2>1 DEF HeapInit
<1> QED BY <1>4, <1>5, <1>7, <1>8 DEF HeapInv, WellFormed

\* A thread's blocks are used, and an unchanged header means an unchanged size.
LEMMA OwnedUsed ==
  ASSUME NEW h, NEW o, Owns(h, o), NEW t \in Task, NEW p \in DOMAIN o[t]
  PROVE  p \in Used(h)
BY DEF Owns

\* The size of a block is a matter of its own header.
LEMMA SameDataSize ==
  ASSUME NEW h, NEW g, NEW x, g[x].next = h[x].next
  PROVE  DataSize(g, x) = DataSize(h, x)
BY DEF DataSize

\* Thread t is given the block p.
LEMMA OwnsMore ==
  ASSUME NEW h, NEW o, Owns(h, o), NEW g, NEW t \in Task, NEW p, NEW size \in Nat,
         p \notin Used(h), Used(g) = Used(h) \cup {p},
         \A x \in Used(h) : g[x].next = h[x].next, DataSize(g, p) >= size
  PROVE  Owns(g, [o EXCEPT ![t] = With(@, p, size)])
<1> DEFINE n == [o EXCEPT ![t] = With(@, p, size)]
<1>1. /\ DOMAIN o = Task
      /\ \A u \in Task : \A x \in DOMAIN o[u] : x \in Used(h) /\ x # p
  BY OwnedUsed DEF Owns
<1>2. /\ DOMAIN n = Task
      /\ DOMAIN n[t] = DOMAIN o[t] \cup {p} /\ n[t][p] = size
      /\ \A x \in DOMAIN o[t] : n[t][x] = o[t][x]
      /\ \A u \in Task : u # t => n[u] = o[u]
  BY <1>1 DEF With
<1> HIDE DEF n
<1>3. \A u \in Task : \A x \in DOMAIN o[u] :
        n[u][x] = o[u][x] /\ DataSize(g, x) = DataSize(h, x)
  BY <1>1, <1>2, SameDataSize
<1>4. ASSUME NEW u \in Task, NEW x \in DOMAIN n[u]
      PROVE  /\ n[u][x] \in Nat /\ DataSize(g, x) >= n[u][x]
             /\ \A v \in Task \ {u} : x \notin DOMAIN n[v]
  <2>1. CASE x = p
    <3>1. u = t
      BY <2>1, <1>1, <1>2
    <3> QED BY <2>1, <3>1, <1>1, <1>2
  <2>2. CASE x # p
    <3>1. x \in DOMAIN o[u]
      BY <2>2, <1>2
    <3>2. o[u][x] \in Nat /\ DataSize(h, x) >= o[u][x]
      BY <3>1 DEF Owns
    <3>3. \A v \in Task \ {u} : x \notin DOMAIN o[v]
      BY <3>1 DEF Owns
    <3>4. \A v \in Task \ {u} : x \notin DOMAIN n[v]
      BY <2>2, <3>3, <1>2
    <3> QED BY <3>1, <3>2, <3>4, <1>3
  <2> QED BY <2>1, <2>2
<1>5. ASSUME NEW x
      PROVE  (\E u \in Task : x \in DOMAIN n[u]) <=> x \in Used(g)
  <2>1. (\E u \in Task : x \in DOMAIN n[u]) <=>
          (\E u \in Task : x \in DOMAIN o[u]) \/ x = p
    BY <1>2
  <2>2. (\E u \in Task : x \in DOMAIN o[u]) <=> x \in Used(h)
    BY DEF Owns
  <2> QED BY <2>1, <2>2
<1>6. UNION {DOMAIN n[u] : u \in Task} = Used(g)
  BY <1>5
<1> QED BY <1>2, <1>4, <1>6 DEF Owns, n

\* Thread t gives the block p back.
LEMMA OwnsLess ==
  ASSUME NEW h, NEW o, Owns(h, o), NEW g, NEW t \in Task, NEW p \in DOMAIN o[t],
         Used(g) = Used(h) \ {p}, \A x \in Used(g) : g[x].next = h[x].next
  PROVE  Owns(g, [o EXCEPT ![t] = Restrict(@, DOMAIN @ \ {p})])
<1> DEFINE n == [o EXCEPT ![t] = Restrict(@, DOMAIN @ \ {p})]
<1>1. /\ DOMAIN o = Task
      /\ \A u \in Task : \A x \in DOMAIN o[u] : x \in Used(h)
      /\ \A u \in Task \ {t} : p \notin DOMAIN o[u]
  BY OwnedUsed DEF Owns
<1>2. /\ DOMAIN n = Task
      /\ DOMAIN n[t] = DOMAIN o[t] \ {p}
      /\ \A x \in DOMAIN n[t] : n[t][x] = o[t][x]
      /\ \A u \in Task : u # t => n[u] = o[u]
  BY <1>1 DEF Restrict
<1> HIDE DEF n
<1>3. ASSUME NEW u \in Task, NEW x \in DOMAIN n[u]
      PROVE  /\ n[u][x] \in Nat /\ DataSize(g, x) >= n[u][x]
             /\ \A v \in Task \ {u} : x \notin DOMAIN n[v]
  <2>1. x \in DOMAIN o[u] /\ n[u][x] = o[u][x] /\ x # p
    BY <1>1, <1>2
  <2>2. o[u][x] \in Nat /\ DataSize(h, x) >= o[u][x]
    BY <2>1 DEF Owns
  <2>3. \A v \in Task \ {u} : x \notin DOMAIN o[v]
    BY <2>1 DEF Owns
  <2>4. DataSize(g, x) = DataSize(h, x)
    BY <1>1, <2>1, SameDataSize
  <2> QED BY <1>2, <2>1, <2>2, <2>3, <2>4
<1>4. ASSUME NEW x
      PROVE  (\E u \in Task : x \in DOMAIN n[u]) <=> x \in Used(g)
  <2>1. (\E u \in Task : x \in DOMAIN n[u]) <=>
          (\E u \in Task : x \in DOMAIN o[u]) /\ x # p
    BY <1>1, <1>2
  <2>2. (\E u \in Task : x \in DOMAIN o[u]) <=> x \in Used(h)
    BY DEF Owns
  <2> QED BY <2>1, <2>2
<1>5. UNION {DOMAIN n[u] : u \in Task} = Used(g)
  BY <1>4
<1> QED BY <1>2, <1>3, <1>5 DEF Owns, n

\* Thread t keeps the block p with another size.
LEMMA OwnsSize ==
  ASSUME NEW h, NEW o, Owns(h, o), NEW g, NEW t \in Task, NEW p \in DOMAIN o[t],
         NEW size \in Nat, Used(g) = Used(h), DataSize(g, p) >= size,
         \A x \in Used(h) \ {p} : g[x].next = h[x].next
  PROVE  Owns(g, [o EXCEPT ![t][p] = size])
<1> DEFINE n == [o EXCEPT ![t][p] = size]
<1>1. /\ DOMAIN o = Task
      /\ \A u \in Task : \A x \in DOMAIN o[u] : x \in Used(h)
      /\ \A u \in Task \ {t} : p \notin DOMAIN o[u]
  BY OwnedUsed DEF Owns
<1>2. /\ DOMAIN n = Task
      /\ \A u \in Task : DOMAIN n[u] = DOMAIN o[u]
      /\ n[t][p] = size
      /\ \A x \in DOMAIN o[t] : x # p => n[t][x] = o[t][x]
      /\ \A u \in Task : u # t => n[u] = o[u]
  BY <1>1
<1> HIDE DEF n
<1>3. ASSUME NEW u \in Task, NEW x \in DOMAIN n[u]
      PROVE  /\ n[u][x] \in Nat /\ DataSize(g, x) >= n[u][x]
             /\ \A v \in Task \ {u} : x \notin DOMAIN n[v]
  <2>1. x \in DOMAIN o[u]
    BY <1>2
  <2>2. \A v \in Task \ {u} : x \notin DOMAIN n[v]
    BY <2>1, <1>2 DEF Owns
  <2>3. CASE x = p
    BY <1>1, <1>2, <2>1, <2>2, <2>3
  <2>4. CASE x # p
    <3>1. DataSize(g, x) = DataSize(h, x)
      BY <1>1, <2>1, <2>4, SameDataSize
    <3>2. n[u][x] = o[u][x]
      BY <1>2, <2>1, <2>4
    <3>3. o[u][x] \in Nat /\ DataSize(h, x) >= o[u][x]
      BY <2>1 DEF Owns
    <3> QED BY <2>2, <3>1, <3>2, <3>3
  <2> QED BY <2>3, <2>4
<1>4. UNION {DOMAIN n[u] : u \in Task} = UNION {DOMAIN o[u] : u \in Task}
  BY <1>2
<1>5. UNION {DOMAIN n[u] : u \in Task} = Used(g)
  BY <1>4 DEF Owns
<1> QED BY <1>2, <1>3, <1>5 DEF Owns, n

\* rt_malloc takes the lowest block that fits.
LEMMA FitsFacts ==
  ASSUME WellFormed(hdr, lfree), NEW size \in Sizes, CanMalloc(size)
  PROVE  /\ AtLeastMin(size) \in Nat /\ AtLeastMin(size) >= size /\ size \in Nat
         /\ Min(Fits(AtLeastMin(size))) \in Fits(AtLeastMin(size))
<1>1. AtLeastMin(size) \in Nat /\ AtLeastMin(size) >= size /\ size \in Nat
  BY HeapAssumption DEF AtLeastMin
<1>2. \A p \in DOMAIN hdr : p \in Nat
  BY Offsets DEF WellFormed
<1>3. Fits(AtLeastMin(size)) \in SUBSET Nat /\ Fits(AtLeastMin(size)) # {}
  BY <1>2 DEF Fits, CanMalloc
<1> QED BY <1>1, <1>3, LeastExists

\* rt_malloc, when a block fits, gives the caller a block that was free.
LEMMA MallocInv ==
  ASSUME HeapInv, NEW t \in Task, NEW size \in Sizes, CanMalloc(size),
         NEW p, p = Min(Fits(AtLeastMin(size))), MallocAt(p, AtLeastMin(size)),
         has' = [has EXCEPT ![t] = With(@, p, size)]
  PROVE  /\ WellFormed(hdr', lfree') /\ Owns(hdr', has')
         /\ usedMem' = SumOf(hdr', Used(hdr'))
         /\ \A u \in Task : DOMAIN has[u] \subseteq DOMAIN has'[u]
<1> DEFINE s == AtLeastMin(size)
<1>1. WellFormed(hdr, lfree) /\ usedMem = SumOf(hdr, Used(hdr)) /\ Owns(hdr, has)
  BY DEF HeapInv
<1>2. s \in Nat /\ s >= size /\ size \in Nat /\ p \in Fits(s) /\ MallocAt(p, s)
  BY <1>1, FitsFacts
<1> HIDE DEF s
<1>3. /\ WellFormed(hdr', lfree')
      /\ p \in Nat /\ p \notin Used(hdr) /\ Used(hdr') = Used(hdr) \cup {p}
      /\ \A x \in Used(hdr) : hdr'[x].next = hdr[x].next
      /\ DataSize(hdr', p) >= s
      /\ usedMem' = SumOf(hdr', Used(hdr'))
  BY <1>1, <1>2, MallocFacts
<1>4. DataSize(hdr', p) >= size
  <2>1. p \in DOMAIN hdr' /\ Chain(hdr')
    BY <1>3 DEF Used, WellFormed
  <2>2. hdr'[p].next \in Int /\ HeaderSize \in Nat
    BY <2>1, Offsets
  <2> QED BY <1>2, <1>3, <2>2 DEF DataSize
<1>5. Owns(hdr', has')
  BY <1>1, <1>2, <1>3, <1>4, OwnsMore
<1>6. \A u \in Task : DOMAIN has[u] \subseteq DOMAIN has'[u]
  BY <1>1 DEF Owns, With
<1> QED BY <1>3, <1>5, <1>6

\* rt_free of a block the caller has been given.
LEMMA ReleaseInv ==
  ASSUME HeapInv, NEW t \in Task, NEW p \in DOMAIN has[t], Release(p),
         has' = [has EXCEPT ![t] = Restrict(@, DOMAIN @ \ {p})]
  PROVE  /\ WellFormed(hdr', lfree') /\ Owns(hdr', has')
         /\ usedMem' = SumOf(hdr', Used(hdr'))
         /\ \A u \in Task : u # t => has'[u] = has[u]
<1>1. WellFormed(hdr, lfree) /\ usedMem = SumOf(hdr, Used(hdr)) /\ Owns(hdr, has)
  BY DEF HeapInv
<1>2. p \in Used(hdr)
  BY <1>1, OwnedUsed
<1>3. /\ WellFormed(hdr', lfree')
      /\ Used(hdr') = Used(hdr) \ {p}
      /\ \A x \in Used(hdr) \ {p} : hdr'[x].next = hdr[x].next
      /\ usedMem' = SumOf(hdr', Used(hdr'))
  BY <1>1, <1>2, ReleaseFacts
<1>4. Owns(hdr', has')
  BY <1>1, <1>3, OwnsLess
<1>5. \A u \in Task : u # t => has'[u] = has[u]
  BY <1>1 DEF Owns
<1> QED BY <1>3, <1>4, <1>5

(***************************************************************************)
(* Every operation keeps the invariant.                                    *)
(***************************************************************************)
LEMMA NextHeapInv == HeapInv /\ [HeapNext]_heapVars => HeapInv'
<1> SUFFICES ASSUME HeapInv, [HeapNext]_heapVars PROVE HeapInv'
  OBVIOUS
<1>1. /\ WellFormed(hdr, lfree) /\ usedMem = SumOf(hdr, Used(hdr)) /\ Owns(hdr, has)
      /\ DOMAIN move = Task /\ Moving(has, move)
  BY DEF HeapInv, Moving
<1>2. ASSUME NEW t \in Task, NEW size \in Sizes, rt_malloc(t, size)
      PROVE  HeapInv'
  <2> DEFINE p == Min(Fits(AtLeastMin(size)))
  <2>1. /\ CanMalloc(size) /\ MallocAt(p, AtLeastMin(size))
        /\ has' = [has EXCEPT ![t] = With(@, p, size)] /\ move' = move
    BY <1>2 DEF rt_malloc
  <2>2. p = Min(Fits(AtLeastMin(size)))
    OBVIOUS
  <2> HIDE DEF p
  <2>3. /\ WellFormed(hdr', lfree') /\ Owns(hdr', has')
        /\ usedMem' = SumOf(hdr', Used(hdr'))
        /\ \A u \in Task : DOMAIN has[u] \subseteq DOMAIN has'[u]
    BY <2>1, <2>2, MallocInv
  <2>4. Moving(has', move')
    BY <1>1, <2>1, <2>3 DEF Moving
  <2> QED BY <2>3, <2>4 DEF HeapInv
<1>3. ASSUME NEW t \in Task, NEW size \in Sizes, NEW q \in DOMAIN has[t],
             Move(t, q, size)
      PROVE  HeapInv'
  <2> DEFINE p == Min(Fits(AtLeastMin(size)))
  <2>1. /\ CanMalloc(size) /\ MallocAt(p, AtLeastMin(size))
        /\ has' = [has EXCEPT ![t] = With(@, p, size)]
        /\ move' = [move EXCEPT ![t] = q]
    BY <1>3 DEF Move
  <2>2. p = Min(Fits(AtLeastMin(size)))
    OBVIOUS
  <2> HIDE DEF p
  <2>3. /\ WellFormed(hdr', lfree') /\ Owns(hdr', has')
        /\ usedMem' = SumOf(hdr', Used(hdr'))
        /\ \A u \in Task : DOMAIN has[u] \subseteq DOMAIN has'[u]
    BY <2>1, <2>2, MallocInv
  <2>4. Moving(has', move')
    BY <1>1, <1>3, <2>1, <2>3 DEF Moving
  <2> QED BY <2>3, <2>4 DEF HeapInv
<1>4. ASSUME NEW t \in Task, NEW p \in DOMAIN has[t], rt_free(t, p)
      PROVE  HeapInv'
  <2>1. /\ move[t] = NoMove /\ Release(p) /\ move' = move
        /\ has' = [has EXCEPT ![t] = Restrict(@, DOMAIN @ \ {p})]
    BY <1>4 DEF rt_free
  <2>2. /\ WellFormed(hdr', lfree') /\ Owns(hdr', has')
        /\ usedMem' = SumOf(hdr', Used(hdr'))
        /\ \A u \in Task : u # t => has'[u] = has[u]
    BY <2>1, ReleaseInv
  <2>3. Moving(has', move')
    BY <1>1, <2>1, <2>2 DEF Moving
  <2> QED BY <2>2, <2>3 DEF HeapInv
<1>5. ASSUME NEW t \in Task, MoveFree(t) PROVE HeapInv'
  <2> DEFINE p == move[t]
  <2>1. /\ p # NoMove /\ Release(p) /\ move' = [move EXCEPT ![t] = NoMove]
        /\ has' = [has EXCEPT ![t] = Restrict(@, DOMAIN @ \ {p})]
    BY <1>5 DEF MoveFree
  <2>2. p \in DOMAIN has[t]
    BY <1>1, <2>1 DEF Moving
  <2> HIDE DEF p
  <2>3. /\ WellFormed(hdr', lfree') /\ Owns(hdr', has')
        /\ usedMem' = SumOf(hdr', Used(hdr'))
        /\ \A u \in Task : u # t => has'[u] = has[u]
    BY <2>1, <2>2, ReleaseInv
  <2>4. Moving(has', move')
    BY <1>1, <2>1, <2>3 DEF Moving
  <2> QED BY <2>3, <2>4 DEF HeapInv
<1>6. ASSUME NEW t \in Task, NEW size \in Sizes, NEW p \in DOMAIN has[t],
             Shrink(t, p, size)
      PROVE  HeapInv'
  <2>1. has' = [has EXCEPT ![t][p] = size] /\ move' = move /\ size \in Nat
    BY <1>6, HeapAssumption DEF Shrink
  <2>2. p \in Used(hdr)
    BY <1>1, OwnedUsed
  <2>3. /\ WellFormed(hdr', lfree') /\ Used(hdr') = Used(hdr)
        /\ \A x \in Used(hdr) \ {p} : hdr'[x].next = hdr[x].next
        /\ DataSize(hdr', p) = size
        /\ usedMem' = SumOf(hdr', Used(hdr'))
    BY <1>1, <1>6, <2>1, <2>2, ShrinkFacts
  <2>4. DataSize(hdr', p) >= size
    BY <2>1, <2>3
  <2>5. Owns(hdr', has')
    BY <1>1, <2>1, <2>3, <2>4, OwnsSize
  <2>6. Moving(has', move')
    BY <1>1, <2>1 DEF Moving, Owns
  <2> QED BY <2>3, <2>5, <2>6 DEF HeapInv
<1>7. CASE UNCHANGED heapVars
  BY <1>7 DEF heapVars, HeapInv
<1> QED BY <1>2, <1>3, <1>4, <1>5, <1>6, <1>7 DEF HeapNext

\* The invariant says what the blocks look like.
LEMMA HeapInvTiles == HeapInv => BlocksTile
<1> SUFFICES ASSUME HeapInv PROVE BlocksTile
  OBVIOUS
<1>1. Chain(hdr) /\ NoHoles(hdr) /\ FreeOrEnd(hdr, lfree)
  BY DEF HeapInv, WellFormed
<1>2. \A p \in DOMAIN hdr : p \in Nat
  BY <1>1, Offsets
<1>3. ASSUME NEW p \in DOMAIN hdr \ {heap_end}
      PROVE  /\ hdr[p].next = Min({q \in DOMAIN hdr : q > p})
             /\ hdr[p].next >= p + HeaderSize
             /\ hdr[p].next # heap_end => hdr[hdr[p].next].prev = p
             /\ hdr[p].used \/ hdr[hdr[p].next].used
  <2> DEFINE Q == {q \in DOMAIN hdr : q > p}
  <2>1. Links(hdr, p)
    BY <1>1 DEF Chain
  <2>2. Q \in SUBSET Int /\ hdr[p].next \in Q /\ \A q \in Q : hdr[p].next <= q
    BY <1>1, <1>2, <2>1, Offsets DEF Links
  <2>3. Min(Q) = hdr[p].next
    BY <2>2, MinIs
  <2> QED BY <1>1, <2>1, <2>3 DEF Links, NoHoles
<1> QED BY <1>1, <1>3 DEF BlocksTile, Chain, FreeOrEnd

\* The used blocks are those the tasks have.
LEMMA HeapInvOwned == HeapInv => BlocksAreOwned
BY DEF HeapInv, Owns, BlocksAreOwned, Given, Used, SumOf

(***************************************************************************)
(* The blocks tile the heap in every state the operations reach: no header *)
(* is lost or overlapped, neighbours know each other, two free blocks are  *)
(* never neighbours, and lfree is a header of the chain.                   *)
(***************************************************************************)
THEOREM BlocksAlwaysTile == HeapSpec => []BlocksTile
<1>1. HeapInv /\ [HeapNext]_heapVars => HeapInv'
  BY NextHeapInv
<1> QED BY <1>1, InitHeapInv, HeapInvTiles, PTL DEF HeapSpec

(***************************************************************************)
(* No two threads are given the same block, every block is as large as it  *)
(* was asked for, no block is lost, and used_mem is the sum of the blocks  *)
(* that are given out, whatever is allocated, freed and moved.             *)
(***************************************************************************)
THEOREM BlocksAlwaysOwned == HeapSpec => []BlocksAreOwned
<1>1. HeapInv /\ [HeapNext]_heapVars => HeapInv'
  BY NextHeapInv
<1> QED BY <1>1, InitHeapInv, HeapInvOwned, PTL DEF HeapSpec

-----------------------------------------------------------------------------
(***************************************************************************)
(* The ring buffer.                                                        *)
(***************************************************************************)

\* What a cell of the buffer holds.
Cell == Byte \cup {CHOOSE c \in Byte : TRUE}

Index == 0 .. BufferSize - 1

RingType ==
  [live : BOOLEAN, r : Index, rm : {0, 1}, w : Index, wm : {0, 1},
   buf : [Index -> Cell]]

(***************************************************************************)
(* The inductive invariant: in the same mirror the writer is not behind    *)
(* the reader, in the other one it is not ahead of it.                     *)
(***************************************************************************)
RingOK(b) ==
  /\ b \in RingType
  /\ b.rm = b.wm => b.r <= b.w
  /\ b.rm # b.wm => b.w <= b.r

\* An index that has passed the end of the buffer at most once.
Wrap(x) == IF x < BufferSize THEN x ELSE x - BufferSize

-----------------------------------------------------------------------------
\* The remainders that occur are subtractions.
LEMMA WrapIs ==
  ASSUME NEW x \in Nat, x < 2 * BufferSize
  PROVE  x % BufferSize = Wrap(x) /\ Wrap(x) \in Index
BY RingAssumption DEF Wrap, Index

\* The remainder of a difference of two indices.
LEMMA BackIs ==
  ASSUME NEW x \in Int, -BufferSize < x, x < BufferSize
  PROVE  x % BufferSize = IF x < 0 THEN x + BufferSize ELSE x
BY RingAssumption

\* Smaller is the minimum of two numbers.
LEMMA SmallerIs ==
  ASSUME NEW x \in Int, NEW y \in Int
  PROVE  Smaller(x, y) = IF x <= y THEN x ELSE y
<1>1. PICK z \in {x, y} : \A q \in {x, y} : z <= q
  OBVIOUS
<1>2. Min({x, y}) \in {x, y} /\ \A q \in {x, y} : Min({x, y}) <= q
  BY <1>1 DEF Min
<1> QED BY <1>2 DEF Smaller

\* The fields of a buffer have their types.
LEMMA Fields ==
  ASSUME NEW b, RingOK(b)
  PROVE  /\ BufferSize \in Nat /\ BufferSize > 0
         /\ b.r \in Nat /\ b.r < BufferSize /\ b.w \in Nat /\ b.w < BufferSize
         /\ b.rm \in {0, 1} /\ b.wm \in {0, 1}
         /\ b.buf \in [Index -> Cell]
BY RingAssumption DEF RingOK, RingType, Index

\* data_len is the distance from the reader to the writer.
LEMMA Lengths ==
  ASSUME NEW b, RingOK(b)
  PROVE  /\ data_len(b) \in Nat /\ data_len(b) <= BufferSize
         /\ space_len(b) \in Nat /\ space_len(b) = BufferSize - data_len(b)
         /\ b.rm = b.wm => data_len(b) = b.w - b.r
         /\ b.rm # b.wm => data_len(b) = BufferSize - (b.r - b.w)
<1>1. /\ BufferSize \in Nat /\ BufferSize > 0
      /\ b.r \in Nat /\ b.r < BufferSize /\ b.w \in Nat /\ b.w < BufferSize
  BY Fields
<1>2. /\ b.rm = b.wm => b.r <= b.w
      /\ b.rm # b.wm => b.w <= b.r
  BY DEF RingOK
<1>3. /\ b.rm = b.wm => data_len(b) = b.w - b.r
      /\ b.rm # b.wm => data_len(b) = BufferSize - (b.r - b.w)
  BY <1>1, <1>2 DEF data_len
<1>4. data_len(b) \in Nat /\ data_len(b) <= BufferSize
  BY <1>1, <1>2, <1>3
<1> QED BY <1>1, <1>3, <1>4 DEF space_len

\* The stored bytes are a sequence.
LEMMA StoredIs ==
  ASSUME NEW b, RingOK(b)
  PROVE  /\ Stored(b) \in Seq(Cell) /\ Len(Stored(b)) = data_len(b)
         /\ \A k \in 1 .. data_len(b) : Stored(b)[k] = b.buf[Wrap(b.r + k - 1)]
<1>1. /\ BufferSize \in Nat /\ b.r \in Nat /\ b.r < BufferSize
      /\ b.buf \in [Index -> Cell]
      /\ data_len(b) \in Nat /\ data_len(b) <= BufferSize
  BY Fields, Lengths
<1>2. ASSUME NEW k \in 1 .. data_len(b)
      PROVE  /\ b.buf[(b.r + k - 1) % BufferSize] = b.buf[Wrap(b.r + k - 1)]
             /\ b.buf[Wrap(b.r + k - 1)] \in Cell
  <2>1. b.r + k - 1 \in Nat /\ b.r + k - 1 < 2 * BufferSize
    BY <1>1
  <2> QED BY <1>1, <2>1, WrapIs
<1>3. Stored(b) \in [1 .. data_len(b) -> Cell]
  BY <1>2 DEF Stored
<1>4. Stored(b) \in Seq(Cell) /\ Len(Stored(b)) = data_len(b)
  BY <1>1, <1>3
<1> QED BY <1>2, <1>4 DEF Stored

(***************************************************************************)
(* Two sequences with the same elements are the same.                      *)
(***************************************************************************)
LEMMA SameSeq ==
  ASSUME NEW V, NEW s \in Seq(V), NEW t \in Seq(V), Len(s) = Len(t),
         \A i \in 1 .. Len(s) : s[i] = t[i]
  PROVE  s = t
BY SeqEqual

\* An index and its mirror after n bytes.
LEMMA StepIs ==
  ASSUME NEW i \in Index, NEW m, NEW n \in Nat, n <= BufferSize
  PROVE  /\ Step(i, m, n).i = Wrap(i + n) /\ Wrap(i + n) \in Index
         /\ Step(i, m, n).m = IF i + n < BufferSize THEN m ELSE Flip(m)
BY RingAssumption DEF Step, Wrap, Index

\* Writing moves the writer and changes the bytes it passes, no others.
LEMMA WriteIs ==
  ASSUME NEW b, RingOK(b), NEW c \in Seq(Cell), Len(c) <= BufferSize
  PROVE  LET p == Write(b, c)
         IN  /\ p \in RingType /\ p.live = b.live
             /\ p.r = b.r /\ p.rm = b.rm
             /\ p.w = Wrap(b.w + Len(c))
             /\ p.wm = IF b.w + Len(c) < BufferSize THEN b.wm ELSE Flip(b.wm)
             /\ \A j \in 1 .. Len(c) : p.buf[Wrap(b.w + j - 1)] = c[j]
             /\ \A j \in Len(c) .. BufferSize - 1 :
                  p.buf[Wrap(b.w + j)] = b.buf[Wrap(b.w + j)]
<1> DEFINE s == Step(b.w, b.wm, Len(c))
           f == Filled(b.buf, b.w, c)
           p == Write(b, c)
<1>1. /\ BufferSize \in Nat /\ BufferSize > 0 /\ Index = 0 .. BufferSize - 1
      /\ b.w \in Nat /\ b.w < BufferSize /\ b.w \in Index
      /\ b.wm \in {0, 1} /\ b.buf \in [Index -> Cell] /\ b \in RingType
  BY Fields DEF RingOK, RingType, Index
<1>2. Len(c) \in Nat /\ \A j \in 1 .. Len(c) : c[j] \in Cell
  OBVIOUS
<1>3. /\ s.i = Wrap(b.w + Len(c)) /\ s.i \in Index
      /\ s.m = IF b.w + Len(c) < BufferSize THEN b.wm ELSE Flip(b.wm)
  BY <1>1, <1>2, StepIs
<1>4. s.m \in {0, 1}
  BY <1>1, <1>3 DEF Flip
<1>5. ASSUME NEW k \in Index
      PROVE  /\ (k - b.w) % BufferSize = IF k < b.w THEN k - b.w + BufferSize
                                                    ELSE k - b.w
             /\ (k - b.w) % BufferSize \in Nat
  <2> DEFINE x == k - b.w
  <2>1. x \in Int /\ -BufferSize < x /\ x < BufferSize /\ (x < 0 <=> k < b.w)
    BY <1>1
  <2> HIDE DEF x
  <2>2. x % BufferSize = IF x < 0 THEN x + BufferSize ELSE x
    BY <2>1, BackIs
  <2>3. x % BufferSize \in Nat
    BY <1>1, <2>1, <2>2
  <2> QED BY <2>1, <2>2, <2>3 DEF x
<1>6. /\ f \in [Index -> Cell]
      /\ \A k \in Index : f[k] = IF (k - b.w) % BufferSize < Len(c)
                                   THEN c[((k - b.w) % BufferSize) + 1] ELSE b.buf[k]
  <2>1. f = [k \in Index |-> IF (k - b.w) % BufferSize < Len(c)
                              THEN c[((k - b.w) % BufferSize) + 1] ELSE b.buf[k]]
    BY <1>1 DEF Filled
  <2>2. ASSUME NEW k \in Index, (k - b.w) % BufferSize < Len(c)
        PROVE  c[((k - b.w) % BufferSize) + 1] \in Cell
    <3> DEFINE d == (k - b.w) % BufferSize
    <3>1. d \in Nat /\ d < Len(c)
      BY <1>5, <2>2
    <3> HIDE DEF d
    <3>2. d + 1 \in 1 .. Len(c)
      BY <1>2, <3>1
    <3>3. c[d + 1] \in Cell
      BY <1>2, <3>2
    <3> QED BY <3>3 DEF d
  <2>3. \A k \in Index : b.buf[k] \in Cell
    BY <1>1
  <2> HIDE DEF f
  <2> QED BY <2>1, <2>2, <2>3
<1>7. ASSUME NEW j \in 0 .. BufferSize - 1
      PROVE  Wrap(b.w + j) \in Index /\ (Wrap(b.w + j) - b.w) % BufferSize = j
  <2>1. CASE b.w + j < BufferSize
    <3> DEFINE k == b.w + j
    <3>1. Wrap(b.w + j) = k /\ k \in Index /\ ~ (k < b.w) /\ k - b.w = j
      BY <1>1, <2>1 DEF Wrap
    <3> HIDE DEF k
    <3>2. (k - b.w) % BufferSize = k - b.w
      BY <1>5, <3>1
    <3> QED BY <3>1, <3>2
  <2>2. CASE ~ (b.w + j < BufferSize)
    <3> DEFINE k == b.w + j - BufferSize
    <3>1. Wrap(b.w + j) = k /\ k \in Index /\ k < b.w /\ k - b.w + BufferSize = j
      BY <1>1, <2>2 DEF Wrap
    <3> HIDE DEF k
    <3>2. (k - b.w) % BufferSize = k - b.w + BufferSize
      BY <1>5, <3>1
    <3> QED BY <3>1, <3>2
  <2> QED BY <2>1, <2>2
<1>8. \A j \in 1 .. Len(c) : f[Wrap(b.w + j - 1)] = c[j]
  <2>1. ASSUME NEW j \in 1 .. Len(c) PROVE f[Wrap(b.w + j - 1)] = c[j]
    <3>1. j - 1 \in 0 .. BufferSize - 1 /\ b.w + (j - 1) = b.w + j - 1
      BY <1>1, <1>2
    <3>2. /\ Wrap(b.w + j - 1) \in Index
          /\ (Wrap(b.w + j - 1) - b.w) % BufferSize = j - 1
      BY <1>7, <3>1
    <3> QED BY <1>2, <1>6, <3>1, <3>2
  <2> QED BY <2>1
<1>9. \A j \in Len(c) .. BufferSize - 1 : f[Wrap(b.w + j)] = b.buf[Wrap(b.w + j)]
  <2>1. ASSUME NEW j \in Len(c) .. BufferSize - 1
        PROVE  f[Wrap(b.w + j)] = b.buf[Wrap(b.w + j)]
    <3>1. j \in 0 .. BufferSize - 1 /\ ~ (j < Len(c))
      BY <1>1, <1>2
    <3> QED BY <1>6, <1>7, <3>1
  <2> QED BY <2>1
<1>10. p = [b EXCEPT !.buf = f, !.w = s.i, !.wm = s.m]
  BY DEF Write
<1> HIDE DEF s, f, p
<1>11. /\ p \in RingType /\ p.live = b.live /\ p.r = b.r /\ p.rm = b.rm
       /\ p.w = s.i /\ p.wm = s.m /\ p.buf = f
  BY <1>1, <1>3, <1>4, <1>6, <1>10 DEF RingType
<1> QED BY <1>3, <1>8, <1>9, <1>11 DEF p

-----------------------------------------------------------------------------
\* Two offsets name the same byte of the buffer.
SamePlace(x, y) == Wrap(x) = Wrap(y)

\* The k-th of the d stored bytes seen from the writer, and the j-th byte it
\* writes seen from the reader.
LEMMA OldIndex ==
  ASSUME NEW r \in Nat, NEW w \in Nat, NEW d \in Nat, NEW k \in 1 .. d,
         r < BufferSize, w < BufferSize, d <= BufferSize,
         w = r + d \/ w = r + d - BufferSize
  PROVE  SamePlace(w + (BufferSize - d + k - 1), r + k - 1)
BY RingAssumption DEF Wrap, SamePlace

\* The place a new byte is written to is its place behind the stored ones.
LEMMA NewIndex ==
  ASSUME NEW r \in Nat, NEW w \in Nat, NEW d \in Nat, NEW j \in 1 .. BufferSize - d,
         r < BufferSize, w < BufferSize, d <= BufferSize,
         w = r + d \/ w = r + d - BufferSize
  PROVE  Wrap(w + j - 1) = Wrap(r + (d + j) - 1)
BY RingAssumption DEF Wrap

\* Writing what there is space for appends it to the stored bytes.
LEMMA Appends ==
  ASSUME NEW b, RingOK(b), NEW c \in Seq(Cell), Len(c) <= space_len(b)
  PROVE  RingOK(Write(b, c)) /\ Stored(Write(b, c)) = Stored(b) \o c
<1> DEFINE p == Write(b, c)
<1>1. /\ BufferSize \in Nat /\ BufferSize > 0
      /\ b.r \in Nat /\ b.r < BufferSize /\ b.w \in Nat /\ b.w < BufferSize
      /\ b.rm \in {0, 1} /\ b.wm \in {0, 1}
      /\ Len(c) \in Nat
  BY Fields
<1>2. /\ data_len(b) \in Nat /\ data_len(b) <= BufferSize
      /\ space_len(b) = BufferSize - data_len(b)
      /\ b.rm = b.wm => data_len(b) = b.w - b.r
      /\ b.rm # b.wm => data_len(b) = BufferSize - (b.r - b.w)
  BY Lengths
<1>3. Len(c) <= BufferSize
  BY <1>1, <1>2
<1>4. /\ p \in RingType /\ p.r = b.r /\ p.rm = b.rm
      /\ p.w = Wrap(b.w + Len(c))
      /\ p.wm = IF b.w + Len(c) < BufferSize THEN b.wm ELSE Flip(b.wm)
      /\ \A j \in 1 .. Len(c) : p.buf[Wrap(b.w + j - 1)] = c[j]
      /\ \A j \in Len(c) .. BufferSize - 1 :
           p.buf[Wrap(b.w + j)] = b.buf[Wrap(b.w + j)]
  BY <1>3, WriteIs
<1> HIDE DEF p
<1>5. RingOK(p)
  <2>1. /\ p.rm = p.wm => p.r <= p.w
        /\ p.rm # p.wm => p.w <= p.r
    BY SMTT(30), <1>1, <1>2, <1>4 DEF Wrap, Flip
  <2> QED BY <1>4, <2>1 DEF RingOK
<1>6. data_len(p) = data_len(b) + Len(c)
  <2>1. /\ p.rm = p.wm => data_len(p) = p.w - p.r
        /\ p.rm # p.wm => data_len(p) = BufferSize - (p.r - p.w)
    BY <1>5, Lengths
  <2>2. CASE b.w + Len(c) < BufferSize
    <3>1. p.w = b.w + Len(c) /\ p.wm = b.wm
      BY <1>4, <2>2 DEF Wrap
    <3> QED BY <1>1, <1>2, <1>4, <2>1, <3>1
  <2>3. CASE ~ (b.w + Len(c) < BufferSize)
    <3>1. p.w = b.w + Len(c) - BufferSize /\ p.wm = 1 - b.wm
      <4>1. p.w = Wrap(b.w + Len(c)) /\ p.wm = Flip(b.wm)
        BY <1>4, <2>3
      <4> QED BY <1>1, <2>3, <4>1 DEF Wrap, Flip
    <3> QED BY SMTT(60), <1>1, <1>2, <1>4, <2>1, <3>1
  <2> QED BY <2>2, <2>3
<1>7. /\ Stored(b) \in Seq(Cell) /\ Len(Stored(b)) = data_len(b)
      /\ \A k \in 1 .. data_len(b) : Stored(b)[k] = b.buf[Wrap(b.r + k - 1)]
  BY StoredIs
<1>8. /\ Stored(p) \in Seq(Cell) /\ Len(Stored(p)) = data_len(p)
      /\ \A k \in 1 .. data_len(p) : Stored(p)[k] = p.buf[Wrap(p.r + k - 1)]
  BY <1>5, StoredIs
<1>9. b.w = b.r + data_len(b) \/ b.w = b.r + data_len(b) - BufferSize
  BY <1>1, <1>2
<1>10. data_len(b) + Len(c) <= BufferSize
  BY <1>1, <1>2
<1>11. ASSUME NEW k \in 1 .. data_len(p) PROVE Stored(p)[k] = (Stored(b) \o c)[k]
  <2>1. Stored(p)[k] = p.buf[Wrap(b.r + k - 1)]
    BY <1>4, <1>8
  <2>2. CASE k <= data_len(b)
    <3> DEFINE j == BufferSize - data_len(b) + k - 1
    <3>1. j \in Len(c) .. BufferSize - 1 /\ k \in 1 .. data_len(b)
      BY SMTT(30), <1>1, <1>2, <1>10, <1>6, <2>2
    <3>2. Wrap(b.w + j) = Wrap(b.r + k - 1)
      <4>1. SamePlace(b.w + j, b.r + k - 1)
        BY <1>1, <1>2, <1>9, <3>1, OldIndex
      <4> QED BY <4>1 DEF SamePlace
    <3>3. p.buf[Wrap(b.r + k - 1)] = b.buf[Wrap(b.r + k - 1)]
      <4> HIDE DEF j
      <4> QED BY <1>4, <3>1, <3>2
    <3>4. k \in 1 .. data_len(b)
      BY <1>2, <2>2
    <3>5. (Stored(b) \o c)[k] = Stored(b)[k]
      BY <1>7, <3>4
    <3> QED BY <1>7, <2>1, <3>3, <3>4, <3>5
  <2>3. CASE ~ (k <= data_len(b))
    <3> DEFINE j == k - data_len(b)
    <3>1. k \in Nat /\ k <= data_len(b) + Len(c)
      BY <1>1, <1>2, <1>6
    <3>2. j \in Nat /\ k = data_len(b) + j /\ j <= Len(c) /\ j > 0
      <4>1. data_len(b) \in Nat /\ Len(c) \in Nat
        BY <1>1, <1>2
      <4> QED BY <4>1, <3>1, <2>3
    <3> HIDE DEF j
    <3>3. j \in 1 .. Len(c) /\ j \in 1 .. BufferSize - data_len(b)
      BY <1>1, <1>2, <1>10, <3>2
    <3>4. Wrap(b.w + j - 1) = Wrap(b.r + k - 1)
      <4>1. /\ data_len(b) \in Nat /\ data_len(b) <= BufferSize
            /\ b.r \in Nat /\ b.r < BufferSize /\ b.w \in Nat /\ b.w < BufferSize
        BY <1>1, <1>2
      <4>2. Wrap(b.w + j - 1) = Wrap(b.r + (data_len(b) + j) - 1)
        BY <4>1, <1>9, <3>3, NewIndex
      <4> QED BY <3>2, <4>2
    <3>5. (Stored(b) \o c)[k] = c[j]
      BY <1>7, <3>3, <3>2
    <3>6. p.buf[Wrap(b.w + j - 1)] = c[j]
      BY <1>4, <3>3
    <3> QED BY <2>1, <3>4, <3>5, <3>6
  <2> QED BY <2>2, <2>3
<1>12. /\ Stored(b) \o c \in Seq(Cell)
       /\ Len(Stored(b) \o c) = data_len(p)
  BY <1>6, <1>7
<1>13. Stored(p) = Stored(b) \o c
  BY <1>8, <1>11, <1>12, SameSeq
<1> QED BY <1>5, <1>13 DEF p

(***************************************************************************)
(* A forced write of n bytes for which there is no space: the reader goes  *)
(* to the writer.  Whatever the mirrors, they stay consistent; when they   *)
(* were different, the buffer is full afterwards and holds the last bytes. *)
(***************************************************************************)
Forced(b, c) ==
  LET p == Write(b, c)
  IN  [p EXCEPT !.r = p.w, !.rm = IF p.wm # b.wm THEN Flip(@) ELSE @]

\* The buffer stays consistent, and is full if the mirror bits differed before.
LEMMA ForcedIs ==
  ASSUME NEW b, RingOK(b), NEW c \in Seq(Cell), Len(c) <= BufferSize
  PROVE  LET p == Write(b, c)
             f == Forced(b, c)
         IN  /\ RingOK(f) /\ f.live = b.live
             /\ f.r = p.w /\ f.w = p.w /\ f.buf = p.buf
             /\ b.rm # b.wm => f.rm # f.wm
<1> DEFINE p == Write(b, c)
           f == Forced(b, c)
<1>1. /\ p \in RingType /\ p.rm = b.rm /\ p.live = b.live
      /\ p.wm = IF b.w + Len(c) < BufferSize THEN b.wm ELSE Flip(b.wm)
  BY WriteIs
<1>2. b.rm \in {0, 1} /\ b.wm \in {0, 1}
  BY Fields
<1>3. f = [p EXCEPT !.r = p.w, !.rm = IF p.wm # b.wm THEN Flip(p.rm) ELSE p.rm]
  BY DEF Forced
<1> HIDE DEF p, f
<1>4. Flip(p.rm) \in {0, 1} /\ p.rm \in {0, 1}
  BY <1>1, <1>2 DEF Flip
<1>5. /\ f \in RingType /\ f.live = p.live /\ f.r = p.w /\ f.w = p.w
      /\ f.buf = p.buf /\ f.wm = p.wm
      /\ f.rm = IF p.wm # b.wm THEN Flip(p.rm) ELSE p.rm
  BY <1>1, <1>3, <1>4 DEF RingType
<1>6. f.r <= f.w
  BY <1>5, RingAssumption DEF RingType, Index
<1>7. RingOK(f)
  BY <1>5, <1>6 DEF RingOK
<1>8. b.rm # b.wm => f.rm # f.wm
  BY <1>1, <1>2, <1>5 DEF Flip
<1> QED BY <1>1, <1>5, <1>7, <1>8 DEF p, f

-----------------------------------------------------------------------------
\* The k-th byte after a forced write of n bytes: an old one or a new one.
LEMMA ForcedIndex ==
  ASSUME NEW w \in Nat, NEW n \in Nat, NEW k \in 1 .. BufferSize,
         w < BufferSize, n <= BufferSize
  PROVE  Wrap(Wrap(w + n) + k - 1) =
           IF k <= BufferSize - n THEN Wrap(w + (n + k - 1))
                                  ELSE Wrap(w + (n + k - BufferSize) - 1)
BY RingAssumption DEF Wrap

\* A sequence and its last n elements.
LEMMA NewestIs ==
  ASSUME NEW s \in Seq(Cell), NEW n \in Nat, n <= Len(s)
  PROVE  /\ Newest(s, n) \in Seq(Cell) /\ Len(Newest(s, n)) = n
         /\ \A k \in 1 .. n : Newest(s, n)[k] = s[Len(s) - n + k]
         /\ n = Len(s) => Newest(s, n) = s
<1>1. Smaller(n, Len(s)) = n
  BY SmallerIs
<1>2. Newest(s, n) = SubSeq(s, Len(s) - n + 1, Len(s))
  BY <1>1 DEF Newest
<1>3. /\ SubSeq(s, Len(s) - n + 1, Len(s)) \in Seq(Cell)
      /\ Len(SubSeq(s, Len(s) - n + 1, Len(s))) = n
      /\ \A k \in 1 .. n : SubSeq(s, Len(s) - n + 1, Len(s))[k] = s[Len(s) - n + k]
  OBVIOUS
<1>4. ASSUME n = Len(s) PROVE Newest(s, n) = s
  <2> DEFINE t == Newest(s, n)
  <2>1. t \in Seq(Cell) /\ Len(t) = Len(s) /\ \A k \in 1 .. Len(t) : t[k] = s[k]
    BY <1>2, <1>3, <1>4
  <2> HIDE DEF t
  <2>2. t = s
    BY <2>1, SameSeq
  <2> QED BY <2>2 DEF t
<1> QED BY <1>2, <1>3, <1>4

\* The byte that is the k-th after a forced write of n was the i-th before.
Shifted(r, w, d, n, i, j) ==
  j \in n .. BufferSize - 1 /\ i \in 1 .. d /\ r + i - 1 = w + j

LEMMA KeptIndex ==
  ASSUME NEW r \in Nat, NEW w \in Nat, NEW d \in Nat, NEW n \in Nat, NEW k \in Nat,
         BufferSize < d + n, r + d = w + BufferSize, 0 < k, k <= BufferSize - n
  PROVE  Shifted(r, w, d, n, (d + n) - BufferSize + k, n + k - 1)
BY RingAssumption DEF Shifted

\* When the mirrors differ, a forced write drops the oldest bytes.
LEMMA Overwrites ==
  ASSUME NEW b, RingOK(b), NEW c \in Seq(Cell), Len(c) <= BufferSize,
         space_len(b) < Len(c), b.rm # b.wm
  PROVE  Stored(Forced(b, c)) = Newest(Stored(b) \o c, BufferSize)
<1> DEFINE p == Write(b, c)
           f == Forced(b, c)
           s == Stored(b) \o c
           t == Newest(s, BufferSize)
           n == Len(c)
           d == data_len(b)
<1>1. /\ BufferSize \in Nat /\ BufferSize > 0
      /\ b.r \in Nat /\ b.r < BufferSize /\ b.w \in Nat /\ b.w < BufferSize
      /\ n \in Nat /\ n <= BufferSize
  BY Fields
<1>2. /\ d \in Nat /\ d <= BufferSize /\ BufferSize < d + n
      /\ b.r + d = b.w + BufferSize
  BY <1>1, Lengths
<1>3. /\ Stored(b) \in Seq(Cell) /\ Len(Stored(b)) = d
      /\ \A k \in 1 .. d : Stored(b)[k] = b.buf[Wrap(b.r + k - 1)]
  BY StoredIs
<1>4. s \in Seq(Cell) /\ Len(s) = d + n
  BY <1>3
<1>5. /\ \A k \in 1 .. d : s[k] = Stored(b)[k]
      /\ \A k \in 1 .. n : s[d + k] = c[k]
  BY <1>2, <1>3
<1>6. /\ p.w = Wrap(b.w + n)
      /\ \A j \in 1 .. n : p.buf[Wrap(b.w + j - 1)] = c[j]
      /\ \A j \in n .. BufferSize - 1 : p.buf[Wrap(b.w + j)] = b.buf[Wrap(b.w + j)]
  BY WriteIs
<1>7. RingOK(f) /\ f.r = p.w /\ f.w = p.w /\ f.buf = p.buf /\ f.rm # f.wm
  BY ForcedIs
<1> HIDE DEF p, f, s, n, d
<1>8. data_len(f) = BufferSize
  <2>1. f.r \in Nat /\ f.r < BufferSize
    BY <1>7, Fields
  <2>2. data_len(f) = BufferSize - (f.r - f.w)
    BY <1>7, Lengths
  <2> QED BY <1>1, <1>7, <2>1, <2>2
<1>9. /\ Stored(f) \in Seq(Cell) /\ Len(Stored(f)) = BufferSize
      /\ \A k \in 1 .. BufferSize : Stored(f)[k] = p.buf[Wrap(p.w + k - 1)]
  BY <1>7, <1>8, StoredIs
<1>10. /\ t \in Seq(Cell) /\ Len(t) = BufferSize
       /\ \A k \in 1 .. BufferSize : t[k] = s[(d + n) - BufferSize + k]
  <2>1. BufferSize <= Len(s)
    BY <1>1, <1>2, <1>4
  <2>2. /\ t \in Seq(Cell) /\ Len(t) = BufferSize
        /\ \A k \in 1 .. BufferSize : t[k] = s[Len(s) - BufferSize + k]
    <3>1. s \in Seq(Cell) /\ BufferSize \in Nat
      BY <1>1, <1>4
    <3> QED BY <2>1, <3>1, NewestIs
  <2> QED BY <1>4, <2>2
<1> HIDE DEF t
<1>11. ASSUME NEW k \in 1 .. BufferSize PROVE Stored(f)[k] = t[k]
  <2>1. k \in Nat /\ 0 < k /\ k <= BufferSize
    BY <1>1
  <2>2. Wrap(p.w + k - 1) =
           IF k <= BufferSize - n THEN Wrap(b.w + (n + k - 1))
                                  ELSE Wrap(b.w + (n + k - BufferSize) - 1)
    <3>1. p.w = Wrap(b.w + n) /\ b.w \in Nat /\ b.w < BufferSize
          /\ n \in Nat /\ n <= BufferSize
      BY <1>1, <1>6
    <3>2. Wrap(Wrap(b.w + n) + k - 1) =
            IF k <= BufferSize - n THEN Wrap(b.w + (n + k - 1))
                                   ELSE Wrap(b.w + (n + k - BufferSize) - 1)
      BY <3>1, ForcedIndex
    <3> QED BY <3>1, <3>2
  <2>3. CASE k <= BufferSize - n
    <3> DEFINE j == n + k - 1
               i == (d + n) - BufferSize + k
    <3>1. /\ j \in n .. BufferSize - 1 /\ i \in 1 .. d
          /\ b.r + i - 1 = b.w + j
      <4>1. d \in Nat /\ n \in Nat /\ BufferSize \in Nat /\ BufferSize < d + n
        BY <1>1, <1>2
      <4>2. Shifted(b.r, b.w, d, n, i, j)
        BY <1>1, <1>2, <2>1, <2>3, <4>1, KeptIndex
      <4> QED BY <4>2 DEF Shifted
    <3>2. Stored(f)[k] = p.buf[Wrap(b.w + j)] /\ t[k] = s[i]
      BY <1>9, <1>10, <2>2, <2>3
    <3> HIDE DEF i, j
    <3>3. s[i] = b.buf[Wrap(b.r + i - 1)]
      BY <1>3, <1>5, <3>1
    <3>4. p.buf[Wrap(b.w + j)] = b.buf[Wrap(b.w + j)]
      BY <1>6, <3>1
    <3> QED BY <3>1, <3>2, <3>3, <3>4
  <2>4. CASE ~ (k <= BufferSize - n)
    <3> DEFINE j == n + k - BufferSize
    <3>1. j \in 1 .. n /\ (d + n) - BufferSize + k = d + j
      BY <1>1, <1>2, <2>1, <2>4
    <3>2. Stored(f)[k] = p.buf[Wrap(b.w + j - 1)]
      BY <1>9, <2>2, <2>4
    <3>3. t[k] = s[d + j]
      BY <1>10, <3>1
    <3> HIDE DEF j
    <3>4. s[d + j] = c[j] /\ p.buf[Wrap(b.w + j - 1)] = c[j]
      BY <1>5, <1>6, <3>1
    <3> QED BY <3>2, <3>3, <3>4
  <2> QED BY <2>3, <2>4
<1>12. Stored(f) = t
  BY <1>9, <1>10, <1>11, SameSeq
<1> QED BY <1>12 DEF f, t, s

-----------------------------------------------------------------------------
(***************************************************************************)
(* The operations.                                                         *)
(***************************************************************************)
\* The first n elements of a sequence.
LEMMA OldestIs ==
  ASSUME NEW s \in Seq(Cell), NEW n \in Nat
  PROVE  LET m == IF n <= Len(s) THEN n ELSE Len(s)
         IN  /\ Oldest(s, n) \in Seq(Cell) /\ Len(Oldest(s, n)) = m
             /\ \A k \in 1 .. m : Oldest(s, n)[k] = s[k]
<1> DEFINE m == IF n <= Len(s) THEN n ELSE Len(s)
<1>1. Smaller(n, Len(s)) = m /\ m \in Nat /\ m <= Len(s)
  BY SmallerIs
<1> HIDE DEF m
<1>2. Oldest(s, n) = SubSeq(s, 1, m)
  BY <1>1 DEF Oldest
<1>3. /\ SubSeq(s, 1, m) \in Seq(Cell) /\ Len(SubSeq(s, 1, m)) = m
      /\ \A k \in 1 .. m : SubSeq(s, 1, m)[k] = s[k]
  BY <1>1
<1> QED BY <1>2, <1>3 DEF m

\* rt_ringbuffer_put appends what fits.
LEMMA PutIs ==
  ASSUME NEW b, RingOK(b), NEW c \in Seq(Cell)
  PROVE  /\ RingOK(Put(b, c)) /\ Put(b, c).live = b.live
         /\ Stored(Put(b, c)) = Oldest(Stored(b) \o c, BufferSize)
<1> DEFINE d == data_len(b)
           n == IF space_len(b) <= Len(c) THEN space_len(b) ELSE Len(c)
           e == SubSeq(c, 1, n)
           s == Stored(b)
           o == Oldest(s \o c, BufferSize)
<1>1. /\ BufferSize \in Nat /\ d \in Nat /\ d <= BufferSize
      /\ space_len(b) \in Nat /\ space_len(b) = BufferSize - d /\ Len(c) \in Nat
  BY Fields, Lengths
<1>2. /\ n \in Nat /\ n <= Len(c) /\ n <= space_len(b)
      /\ d + n = IF BufferSize <= d + Len(c) THEN BufferSize ELSE d + Len(c)
      /\ Smaller(space_len(b), Len(c)) = n
  BY <1>1, SmallerIs
<1>3. s \in Seq(Cell) /\ Len(s) = d
  BY StoredIs
<1> HIDE DEF n, d, s
<1>4. e \in Seq(Cell) /\ Len(e) = n /\ \A k \in 1 .. n : e[k] = c[k]
  BY <1>2
<1>5. /\ o \in Seq(Cell) /\ Len(o) = d + n
      /\ \A k \in 1 .. d + n : o[k] = (s \o c)[k]
  <2> DEFINE u == s \o c
  <2>1. u \in Seq(Cell) /\ Len(u) = d + Len(c)
    BY <1>3
  <2> HIDE DEF u
  <2>2. d + n = IF BufferSize <= Len(u) THEN BufferSize ELSE Len(u)
    BY <1>2, <2>1
  <2>3. LET m == IF BufferSize <= Len(u) THEN BufferSize ELSE Len(u)
        IN  /\ Oldest(u, BufferSize) \in Seq(Cell) /\ Len(Oldest(u, BufferSize)) = m
            /\ \A k \in 1 .. m : Oldest(u, BufferSize)[k] = u[k]
    BY <1>1, <2>1, OldestIs
  <2> QED BY <2>2, <2>3 DEF u
<1>6. s \o e = o
  <2> DEFINE u == s \o e
  <2>1. /\ u \in Seq(Cell) /\ Len(u) = d + n
        /\ \A k \in 1 .. d : u[k] = s[k]
        /\ \A k \in 1 .. n : u[d + k] = e[k]
    BY SMTT(30), <1>1, <1>2, <1>3, <1>4
  <2>2. /\ \A k \in 1 .. d : (s \o c)[k] = s[k]
        /\ \A k \in 1 .. n : (s \o c)[d + k] = c[k]
    BY SMTT(60), <1>1, <1>2, <1>3
  <2> HIDE DEF u, e, o
  <2>3. ASSUME NEW k \in 1 .. d + n PROVE u[k] = o[k]
    <3>1. CASE k \in 1 .. d
      BY <1>5, <2>1, <2>2, <3>1
    <3>2. CASE k \notin 1 .. d
      <4> DEFINE j == k - d
      <4>1. j \in 1 .. n /\ k = d + j
        BY <1>1, <1>2, <3>2
      <4> HIDE DEF j
      <4>2. u[d + j] = e[j] /\ (s \o c)[d + j] = c[j] /\ e[j] = c[j]
        BY <1>4, <2>1, <2>2, <4>1
      <4> QED BY <1>5, <4>1, <4>2
    <3> QED BY <3>1, <3>2
  <2>4. u = o
    BY <1>5, <2>1, <2>3, SameSeq
  <2> QED BY <2>4 DEF u
<1>7. CASE space_len(b) = 0
  <2>1. Put(b, c) = b
    BY <1>7 DEF Put
  <2>2. n = 0 /\ e = << >>
    BY <1>2, <1>7, <1>4
  <2>3. s \o e = s
    BY <1>3, <2>2
  <2> QED BY <1>6, <2>1, <2>3 DEF s
<1>8. CASE space_len(b) # 0
  <2>1. Put(b, c) = Write(b, e)
    BY <1>2, <1>8 DEF Put
  <2> HIDE DEF e
  <2>2. RingOK(Write(b, e)) /\ Stored(Write(b, e)) = s \o e
    BY <1>2, <1>4, Appends DEF s
  <2>3. Write(b, e).live = b.live
    <3>1. Len(e) <= BufferSize
      BY <1>1, <1>2, <1>4
    <3> QED BY <1>4, <3>1, WriteIs
  <2> QED BY <1>6, <2>1, <2>2, <2>3 DEF s
<1> QED BY <1>7, <1>8

\* The newest bytes do not depend on more than the last BufferSize of a block.
LEMMA NewestOfTail ==
  ASSUME NEW s \in Seq(Cell), NEW c \in Seq(Cell), BufferSize <= Len(c)
  PROVE  Newest(s \o c, BufferSize)
           = SubSeq(c, Len(c) - BufferSize + 1, Len(c))
<1> DEFINE u == s \o c
           t == Newest(u, BufferSize)
           e == SubSeq(c, Len(c) - BufferSize + 1, Len(c))
<1>1. BufferSize \in Nat /\ Len(c) \in Nat /\ Len(s) \in Nat
  BY RingAssumption
<1>2. /\ u \in Seq(Cell) /\ Len(u) = Len(s) + Len(c)
      /\ \A k \in 1 .. Len(c) : u[Len(s) + k] = c[k]
  OBVIOUS
<1>3. /\ e \in Seq(Cell) /\ Len(e) = BufferSize
      /\ \A k \in 1 .. BufferSize : e[k] = c[Len(c) - BufferSize + k]
  BY <1>1
<1> HIDE DEF u, e
<1>4. /\ t \in Seq(Cell) /\ Len(t) = BufferSize
      /\ \A k \in 1 .. BufferSize : t[k] = u[Len(u) - BufferSize + k]
  <2>1. BufferSize <= Len(u)
    BY <1>1, <1>2
  <2> QED BY <1>1, <1>2, <2>1, NewestIs
<1> HIDE DEF t
<1>5. ASSUME NEW k \in 1 .. BufferSize PROVE t[k] = e[k]
  <2> DEFINE j == Len(c) - BufferSize + k
  <2>1. j \in 1 .. Len(c) /\ Len(u) - BufferSize + k = Len(s) + j
    BY <1>1, <1>2
  <2>2. t[k] = u[Len(s) + j] /\ e[k] = c[j]
    BY <1>3, <1>4, <2>1
  <2> HIDE DEF j
  <2> QED BY <1>2, <2>1, <2>2
<1>6. t = e
  BY <1>3, <1>4, <1>5, SameSeq
<1> QED BY <1>6 DEF t, e, u

\* Writing the bytes e that put_force writes, and moving the reader when
\* there is no space for them.
ForceWrite(b, e) == IF Len(e) <= space_len(b) THEN Write(b, e) ELSE Forced(b, e)

\* The newest bytes are stored, if there is space for them or the mirror bits differ.
LEMMA ForceWriteIs ==
  ASSUME NEW b, RingOK(b), NEW e \in Seq(Cell), Len(e) <= BufferSize
  PROVE  /\ RingOK(ForceWrite(b, e)) /\ ForceWrite(b, e).live = b.live
         /\ (Len(e) <= space_len(b) \/ b.rm # b.wm) =>
              Stored(ForceWrite(b, e)) = Newest(Stored(b) \o e, BufferSize)
<1>1. CASE Len(e) <= space_len(b)
  <2> DEFINE u == Stored(b) \o e
  <2>1. ForceWrite(b, e) = Write(b, e)
    BY <1>1 DEF ForceWrite
  <2>2. RingOK(Write(b, e)) /\ Stored(Write(b, e)) = u
    BY <1>1, Appends
  <2>3. Write(b, e).live = b.live
    BY WriteIs
  <2>4. Stored(b) \in Seq(Cell) /\ Len(Stored(b)) = data_len(b)
    BY StoredIs
  <2>5. u \in Seq(Cell) /\ Len(u) <= BufferSize
    <3>1. /\ BufferSize \in Nat /\ data_len(b) \in Nat
          /\ space_len(b) = BufferSize - data_len(b)
      BY Fields, Lengths
    <3>2. u \in Seq(Cell) /\ Len(u) = data_len(b) + Len(e)
      BY <2>4
    <3> QED BY <1>1, <3>1, <3>2
  <2> HIDE DEF u
  <2>6. Smaller(BufferSize, Len(u)) = Len(u)
    BY <2>5, SmallerIs, RingAssumption
  <2>7. Newest(u, BufferSize) = Newest(u, Len(u))
    BY <2>5, <2>6, SmallerIs DEF Newest
  <2>8. Newest(u, Len(u)) = u
    BY <2>5, NewestIs
  <2> QED BY <2>1, <2>2, <2>3, <2>7, <2>8 DEF u
<1>2. CASE ~ (Len(e) <= space_len(b))
  <2>1. ForceWrite(b, e) = Forced(b, e)
    BY <1>2 DEF ForceWrite
  <2>2. RingOK(Forced(b, e)) /\ Forced(b, e).live = b.live
    BY ForcedIs
  <2>3. space_len(b) < Len(e)
    BY <1>2, Lengths
  <2> QED BY <1>2, <2>1, <2>2, <2>3, Overwrites
<1> QED BY <1>1, <1>2

\* rt_ringbuffer_put_force.
LEMMA PutForceIs ==
  ASSUME NEW b, RingOK(b), NEW c \in Seq(Cell)
  PROVE  /\ RingOK(PutForce(b, c)) /\ PutForce(b, c).live = b.live
         /\ (Len(c) <= space_len(b) \/ b.rm # b.wm) =>
              Stored(PutForce(b, c)) = Newest(Stored(b) \o c, BufferSize)
<1> DEFINE n == IF Len(c) <= BufferSize THEN Len(c) ELSE BufferSize
           e == SubSeq(c, Len(c) - n + 1, Len(c))
<1>1. BufferSize \in Nat /\ Len(c) \in Nat
  BY RingAssumption
<1>2. Smaller(Len(c), BufferSize) = n /\ n \in Nat /\ n <= Len(c) /\ n <= BufferSize
  BY <1>1, SmallerIs
<1> HIDE DEF n
<1>3. e \in Seq(Cell) /\ Len(e) = n
  BY <1>1, <1>2
<1>4. PutForce(b, c) = ForceWrite(b, e)
  BY <1>2, <1>3 DEF PutForce, ForceWrite, Forced
<1>5. (Len(c) <= space_len(b)) => (Len(e) <= space_len(b))
  BY <1>1, <1>2, <1>3, Lengths
<1>6. Newest(Stored(b) \o e, BufferSize) = Newest(Stored(b) \o c, BufferSize)
  <2>1. CASE Len(c) <= BufferSize
    <3>1. n = Len(c)
      BY <2>1 DEF n
    <3>2. e = Newest(c, Len(c))
      BY <1>1, <3>1, SmallerIs DEF Newest
    <3>3. Newest(c, Len(c)) = c
      BY <1>1, NewestIs
    <3> QED BY <3>2, <3>3
  <2>2. CASE ~ (Len(c) <= BufferSize)
    <3>1. n = BufferSize /\ BufferSize <= Len(c)
      BY <1>1, <2>2 DEF n
    <3>2. Stored(b) \in Seq(Cell)
      BY StoredIs
    <3>3. Newest(Stored(b) \o c, BufferSize) = e
      BY <3>1, <3>2, NewestOfTail
    <3>4. SubSeq(e, Len(e) - BufferSize + 1, Len(e)) = e
      <4> HIDE DEF e
      <4>1. Smaller(BufferSize, Len(e)) = BufferSize
        BY <1>1, <1>3, <3>1, SmallerIs
      <4>2. Newest(e, BufferSize) = SubSeq(e, Len(e) - BufferSize + 1, Len(e))
        BY <4>1 DEF Newest
      <4>3. Newest(e, BufferSize) = e
        BY <1>1, <1>3, <3>1, NewestIs
      <4> QED BY <4>2, <4>3
    <3> HIDE DEF e
    <3>5. Newest(Stored(b) \o e, BufferSize)
             = SubSeq(e, Len(e) - BufferSize + 1, Len(e))
      BY <1>1, <1>3, <3>1, <3>2, NewestOfTail
    <3> QED BY <3>3, <3>4, <3>5
  <2> QED BY <2>1, <2>2
<1> HIDE DEF e
<1> QED BY <1>2, <1>3, <1>4, <1>5, <1>6, ForceWriteIs

\* rt_ringbuffer_putchar_force: a buffer with no space is in two mirrors.
LEMMA PutCharForceIs ==
  ASSUME NEW b, RingOK(b), NEW x \in Cell
  PROVE  /\ RingOK(PutCharForce(b, x)) /\ PutCharForce(b, x).live = b.live
         /\ Stored(PutCharForce(b, x)) = Newest(Stored(b) \o <<x>>, BufferSize)
<1> DEFINE e == <<x>>
<1>1. e \in Seq(Cell) /\ Len(e) = 1
  OBVIOUS
<1>2. /\ BufferSize \in Nat /\ BufferSize > 0 /\ space_len(b) \in Nat
      /\ space_len(b) = BufferSize - data_len(b)
      /\ b.r \in Nat /\ b.w \in Nat /\ b.w < BufferSize
      /\ b.rm = b.wm => data_len(b) = b.w - b.r
  BY Fields, Lengths
<1>3. space_len(b) = 0 => b.rm # b.wm
  BY <1>2
<1>4. (Len(e) <= space_len(b)) <=> (space_len(b) # 0)
  BY <1>1, <1>2
<1>5. PutCharForce(b, x) = ForceWrite(b, e)
  BY <1>4 DEF PutCharForce, ForceWrite, Forced
<1>6. Len(e) <= BufferSize
  BY <1>1, <1>2
<1> HIDE DEF e
<1>7. /\ RingOK(ForceWrite(b, e)) /\ ForceWrite(b, e).live = b.live
      /\ Stored(ForceWrite(b, e)) = Newest(Stored(b) \o e, BufferSize)
  BY <1>1, <1>3, <1>4, <1>6, ForceWriteIs
<1> QED BY <1>5, <1>7 DEF e

\* The j-th byte after a get of m.
LEMMA GotIndex ==
  ASSUME NEW r \in Nat, NEW m \in Nat, NEW j \in Nat,
         r < BufferSize, j > 0, m + j <= BufferSize
  PROVE  SamePlace(Wrap(r + m) + j - 1, r + (m + j) - 1)
BY RingAssumption DEF Wrap, SamePlace

\* rt_ringbuffer_get takes the oldest bytes and leaves the others.
LEMMA GetIs ==
  ASSUME NEW b, RingOK(b), NEW n \in Nat
  PROVE  /\ RingOK(AfterGet(b, n)) /\ AfterGet(b, n).live = b.live
         /\ Got(b, n) = Oldest(Stored(b), n)
         /\ Stored(b) = Got(b, n) \o Stored(AfterGet(b, n))
<1> DEFINE d == data_len(b)
           m == IF n <= d THEN n ELSE d
           a == AfterGet(b, n)
           s == Stored(b)
           g == Got(b, n)
           o == Oldest(s, n)
<1>1. /\ BufferSize \in Nat /\ BufferSize > 0 /\ b \in RingType
      /\ b.r \in Nat /\ b.r < BufferSize /\ b.w \in Nat /\ b.w < BufferSize
      /\ b.rm \in {0, 1} /\ b.wm \in {0, 1}
  BY Fields DEF RingOK
<1>2. /\ d \in Nat /\ d <= BufferSize
      /\ b.rm = b.wm => d = b.w - b.r
      /\ b.rm # b.wm => d = BufferSize - (b.r - b.w)
  BY Lengths
<1>3. Smaller(n, d) = m /\ m \in Nat /\ m <= d
  BY <1>2, SmallerIs
<1>4. /\ s \in Seq(Cell) /\ Len(s) = d
      /\ \A k \in 1 .. d : s[k] = b.buf[Wrap(b.r + k - 1)]
  BY StoredIs
<1>5. \A k \in 1 .. d : s[k] = b.buf[(b.r + k - 1) % BufferSize]
  BY DEF Stored
<1>6. a.live = b.live /\ a.buf = b.buf /\ a.w = b.w /\ a.wm = b.wm /\ a \in RingType
      /\ a.r = Wrap(b.r + m)
      /\ a.rm = IF b.r + m < BufferSize THEN b.rm ELSE Flip(b.rm)
  <2>1. CASE d = 0
    <3>1. a = b /\ m = 0
      BY <1>3, <2>1 DEF AfterGet
    <3> QED BY <1>1, <3>1 DEF Wrap
  <2>2. CASE d # 0
    <3> DEFINE t == Step(b.r, b.rm, m)
    <3>1. a = [b EXCEPT !.r = t.i, !.rm = t.m]
      BY <1>3, <2>2 DEF AfterGet
    <3>2. /\ t.i = Wrap(b.r + m) /\ t.i \in Index
          /\ t.m = IF b.r + m < BufferSize THEN b.rm ELSE Flip(b.rm)
      <4>1. b.r \in Index /\ m <= BufferSize
        BY <1>1, <1>2, <1>3 DEF Index
      <4> HIDE DEF m
      <4> QED BY <1>3, <4>1, StepIs
    <3>3. t.m \in {0, 1}
      BY <1>1, <3>2 DEF Flip
    <3> HIDE DEF t, m, a
    <3> QED BY <1>1, <3>1, <3>2, <3>3 DEF RingType
  <2> QED BY <2>1, <2>2
<1>7. g = [k \in 1 .. m |-> b.buf[(b.r + k - 1) % BufferSize]]
  BY <1>3 DEF Got
<1>8. /\ o \in Seq(Cell) /\ Len(o) = m /\ \A k \in 1 .. m : o[k] = s[k]
  <2> HIDE DEF s
  <2> QED BY <1>4, OldestIs
<1> HIDE DEF a, g, o, d, m, s
<1>9. g = o
  <2>1. /\ \A k \in 1 .. m : g[k] = o[k] /\ g[k] \in Cell
        /\ DOMAIN g = 1 .. m
    <3>1. ASSUME NEW k \in 1 .. m PROVE g[k] = o[k] /\ g[k] \in Cell
      <4>1. k \in 1 .. d
        BY <1>2, <1>3
      <4> QED BY <1>4, <1>5, <1>7, <1>8, <4>1
    <3> QED BY <1>7, <3>1
  <2>2. g \in Seq(Cell) /\ Len(g) = m
    <3>1. g \in [1 .. m -> Cell]
      BY <1>7, <2>1
    <3> QED BY <1>3, <3>1
  <2> QED BY <1>8, <2>1, <2>2, SameSeq
<1>10. RingOK(a)
  <2>1. CASE b.r + m < BufferSize
    <3>1. a.r = b.r + m /\ a.rm = b.rm
      BY <1>6, <2>1 DEF Wrap
    <3> QED BY <1>1, <1>2, <1>3, <1>6, <3>1 DEF RingOK
  <2>2. CASE ~ (b.r + m < BufferSize)
    <3>1. a.r = b.r + m - BufferSize /\ a.rm = 1 - b.rm
      <4>1. a.r = Wrap(b.r + m) /\ a.rm = Flip(b.rm)
        BY <1>6, <2>2
      <4> QED BY <1>1, <1>3, <2>2, <4>1 DEF Wrap, Flip
    <3>2. a.rm = a.wm /\ a.r <= a.w
      BY <1>1, <1>2, <1>3, <1>6, <2>2, <3>1
    <3> QED BY <1>6, <3>2 DEF RingOK
  <2> QED BY <2>1, <2>2
<1>11. data_len(a) = d - m
  <2>1. /\ a.rm = a.wm => data_len(a) = a.w - a.r
        /\ a.rm # a.wm => data_len(a) = BufferSize - (a.r - a.w)
    BY <1>10, Lengths
  <2>2. CASE b.r + m < BufferSize
    <3>1. a.r = b.r + m /\ a.rm = b.rm
      BY <1>6, <2>2 DEF Wrap
    <3> QED BY <1>1, <1>2, <1>3, <1>6, <2>1, <3>1
  <2>3. CASE ~ (b.r + m < BufferSize)
    <3>1. a.r = b.r + m - BufferSize /\ a.rm = 1 - b.rm
      <4>1. a.r = Wrap(b.r + m) /\ a.rm = Flip(b.rm)
        BY <1>6, <2>3
      <4> QED BY <1>1, <1>3, <2>3, <4>1 DEF Wrap, Flip
    <3>2. b.rm # b.wm /\ a.rm = a.wm
      BY <1>1, <1>2, <1>3, <1>6, <2>3, <3>1
    <3> QED BY <1>1, <1>2, <1>3, <1>6, <2>1, <3>1, <3>2
  <2> QED BY <2>2, <2>3
<1>12. /\ Stored(a) \in Seq(Cell) /\ Len(Stored(a)) = d - m
       /\ \A k \in 1 .. d - m : Stored(a)[k] = b.buf[Wrap(Wrap(b.r + m) + k - 1)]
  BY <1>6, <1>10, <1>11, StoredIs
<1>13. s = g \o Stored(a)
  <2> DEFINE q == Stored(a)
             u == g \o q
  <2>1. /\ u \in Seq(Cell) /\ Len(u) = d
        /\ \A k \in 1 .. m : u[k] = s[k]
        /\ \A k \in 1 .. d - m : u[m + k] = q[k]
    <3>1. q \in Seq(Cell) /\ Len(q) = d - m /\ g \in Seq(Cell) /\ Len(g) = m
      BY <1>8, <1>9, <1>12
    <3> HIDE DEF q
    <3> QED BY <1>2, <1>3, <1>8, <1>9, <3>1
  <2> HIDE DEF u
  <2>2. ASSUME NEW k \in 1 .. d PROVE u[k] = s[k]
    <3>1. CASE k \in 1 .. m
      BY <2>1, <3>1
    <3>2. CASE k \notin 1 .. m
      <4> DEFINE j == k - m
      <4>1. j \in 1 .. d - m /\ k = m + j
        BY <1>2, <1>3, <3>2
      <4> HIDE DEF j
      <4>2. u[k] = b.buf[Wrap(Wrap(b.r + m) + j - 1)]
        BY <1>12, <2>1, <4>1
      <4>3. Wrap(Wrap(b.r + m) + j - 1) = Wrap(b.r + k - 1)
        <5>1. d \in Nat /\ d <= BufferSize /\ BufferSize \in Nat /\ m \in Nat
          BY <1>1, <1>2, <1>3
        <5>2. j \in Nat /\ j > 0 /\ m + j <= BufferSize
          BY <5>1, <4>1
        <5>3. b.r \in Nat /\ b.r < BufferSize
          BY <1>1
        <5> HIDE DEF m
        <5>4. SamePlace(Wrap(b.r + m) + j - 1, b.r + (m + j) - 1)
          BY <5>1, <5>2, <5>3, GotIndex
        <5> QED BY <4>1, <5>4 DEF SamePlace
      <4> QED BY <1>4, <4>2, <4>3
    <3> QED BY <3>1, <3>2
  <2>3. u = s
    BY <1>4, <2>1, <2>2, SameSeq
  <2> QED BY <2>3 DEF u
<1> QED BY <1>6, <1>9, <1>10, <1>13 DEF a, g, o, s

-----------------------------------------------------------------------------
(***************************************************************************)
(* Every operation keeps the buffer consistent.                            *)
(***************************************************************************)
\* What is put consists of bytes, which are contents of cells.
LEMMA ChunksAreCells ==
  \A c \in Chunk : c \in Seq(Cell)
<1>1. \A c \in Chunk : c \in Seq(Byte)
  BY RingAssumption
<1>2. ASSUME NEW c \in Seq(Byte) PROVE c \in Seq(Cell)
  <2>1. Len(c) \in Nat /\ c \in [1 .. Len(c) -> Byte]
    OBVIOUS
  <2>2. c \in [1 .. Len(c) -> Cell]
    BY <2>1 DEF Cell
  <2> QED BY <2>1, <2>2
<1> QED BY <1>1, <1>2

\* A buffer is consistent at first.
LEMMA InitRing == RingInit => RingOK(rb)
<1> SUFFICES ASSUME RingInit PROVE RingOK(rb)
  OBVIOUS
<1> DEFINE x == CHOOSE c \in Byte : TRUE
           f == [i \in 0 .. BufferSize - 1 |-> x]
<1>1. f \in [Index -> Cell] /\ 0 \in Index
  BY RingAssumption DEF Index, Cell
<1>2. rb = [live |-> FALSE, r |-> 0, rm |-> 0, w |-> 0, wm |-> 0, buf |-> f]
  BY DEF RingInit
<1> HIDE DEF f
<1> QED BY <1>1, <1>2 DEF RingOK, RingType

\* rt_ringbuffer_reset.
LEMMA EmptiedIs ==
  ASSUME NEW b, b \in RingType PROVE RingOK(Emptied(b))
<1>1. 0 \in Index
  BY RingAssumption DEF Index
<1>2. Emptied(b) \in RingType
  BY <1>1 DEF Emptied, RingType
<1>3. Emptied(b).r = 0 /\ Emptied(b).w = 0 /\ Emptied(b).rm = 0 /\ Emptied(b).wm = 0
  BY DEF Emptied, RingType
<1> QED BY <1>2, <1>3 DEF RingOK

\* Every operation keeps it consistent.
LEMMA NextRing == RingOK(rb) /\ [RingNext]_rb => RingOK(rb')
<1> SUFFICES ASSUME RingOK(rb), [RingNext]_rb PROVE RingOK(rb')
  OBVIOUS
<1>1. rb \in RingType
  BY DEF RingOK
<1>2. CASE rt_ringbuffer_create
  <2>1. [rb EXCEPT !.live = TRUE] \in RingType
    BY <1>1 DEF RingType
  <2> QED BY <1>2, <2>1, EmptiedIs DEF rt_ringbuffer_create
<1>3. ASSUME NEW c \in Chunk, rt_ringbuffer_put(c) PROVE RingOK(rb')
  BY <1>3, ChunksAreCells, PutIs DEF rt_ringbuffer_put
<1>4. ASSUME NEW c \in Chunk, rt_ringbuffer_put_force(c) PROVE RingOK(rb')
  BY <1>4, ChunksAreCells, PutForceIs DEF rt_ringbuffer_put_force
<1>5. ASSUME NEW c \in Byte, rt_ringbuffer_putchar_force(c) PROVE RingOK(rb')
  <2>1. c \in Cell
    BY DEF Cell
  <2> QED BY <1>5, <2>1, PutCharForceIs DEF rt_ringbuffer_putchar_force
<1>6. ASSUME NEW n \in 0 .. BufferSize + 1, rt_ringbuffer_get(n) PROVE RingOK(rb')
  <2>1. n \in Nat
    BY RingAssumption
  <2> QED BY <1>6, <2>1, GetIs DEF rt_ringbuffer_get
<1>7. CASE rt_ringbuffer_reset
  BY <1>1, <1>7, EmptiedIs DEF rt_ringbuffer_reset
<1>8. CASE rt_ringbuffer_destroy
  BY <1>1, <1>8 DEF rt_ringbuffer_destroy, RingOK, RingType
<1>9. CASE UNCHANGED rb
  BY <1>9
<1> QED BY <1>2, <1>3, <1>4, <1>5, <1>6, <1>7, <1>8, <1>9 DEF RingNext

\* A consistent buffer is a queue.
LEMMA RingOKIsQueue == RingOK(rb) => RingIsQueue
<1> SUFFICES ASSUME RingOK(rb) PROVE RingIsQueue
  OBVIOUS
<1>1. ASSUME NEW c \in Chunk
      PROVE  /\ Stored(Put(rb, c)) = Oldest(Stored(rb) \o c, BufferSize)
             /\ (Len(c) <= space_len(rb) \/ rb.rm # rb.wm) =>
                  Stored(PutForce(rb, c)) = Newest(Stored(rb) \o c, BufferSize)
  BY ChunksAreCells, PutIs, PutForceIs
<1>2. ASSUME NEW c \in Byte
      PROVE  Stored(PutCharForce(rb, c)) = Newest(Stored(rb) \o <<c>>, BufferSize)
  <2>1. c \in Cell
    BY DEF Cell
  <2> QED BY <2>1, PutCharForceIs
<1>3. ASSUME NEW n \in 0 .. BufferSize + 1
      PROVE  /\ Got(rb, n) = Oldest(Stored(rb), n)
             /\ Stored(rb) = Got(rb, n) \o Stored(AfterGet(rb, n))
  <2>1. n \in Nat
    BY RingAssumption
  <2> QED BY <2>1, GetIs
<1> QED BY <1>1, <1>2, <1>3 DEF RingIsQueue

(***************************************************************************)
(* For a buffer of any size and blocks of any length, in every state the   *)
(* ring buffer reaches, each of its operations is the operation of a       *)
(* bounded queue that RingIsQueue says it is: the two mirror bits never    *)
(* mistake a full buffer for an empty one.                                 *)
(***************************************************************************)
THEOREM RingIsAlwaysAQueue == RingSpec => []RingIsQueue
<1>1. RingInit => RingOK(rb)
  BY InitRing
<1>2. RingOK(rb) /\ [RingNext]_rb => RingOK(rb)'
  <2>1. RingOK(rb)' = RingOK(rb')
    OBVIOUS
  <2> QED BY <2>1, NextRing
<1>3. RingOK(rb) => RingIsQueue
  BY RingOKIsQueue
<1> QED BY <1>1, <1>2, <1>3, PTL DEF RingSpec
=============================================================================
