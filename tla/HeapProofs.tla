----------------------------- MODULE HeapProofs -----------------------------
(***************************************************************************)
(* Proofs about Heap: every operator of mem.c keeps the chain of headers   *)
(* (Tiled), and those that end a call leave no two free neighbours (Apart) *)
(* and a free block, or the end, in lfree (LfreeOK).                       *)
(***************************************************************************)
EXTENDS Heap, ListLemmas

\* The blocks of h, and those that are used.
BlocksOf(h) == Headers(h) \ {heap_end}
UsedOf(h) == {p \in BlocksOf(h) : h.mem[p].used}

\* A record of the right shape.
Shaped(h) ==
    /\ h \in [mem : {h.mem}, lfree : Nat, used_mem : Int]
    /\ h.mem \in [Headers(h) -> [used : BOOLEAN, next : Nat, prev : Nat]]
    /\ Headers(h) \subseteq 0..heap_end
    /\ h.lfree \in Headers(h)
    /\ h.used_mem \in Int

\* The headers tile the heap.
Tiled(h) ==
    /\ Shaped(h)
    /\ {0, heap_end} \subseteq Headers(h)
    /\ h.mem[heap_end].used
    /\ \A p \in BlocksOf(h) :
          /\ h.mem[p].next \in Headers(h) /\ h.mem[p].next >= p + Header
          /\ \A q \in Headers(h) : q <= p \/ q >= h.mem[p].next
          /\ h.mem[p].next # heap_end => h.mem[h.mem[p].next].prev = p
    /\ h.mem[0].prev = 0

\* No free block has a free one behind it.
Apart(h) == \A p \in BlocksOf(h) : h.mem[p].used \/ h.mem[h.mem[p].next].used

\* A search starts at a free block.
LfreeOK(h) == h.lfree = heap_end \/ ~h.mem[h.lfree].used

HeapOK(h) == Tiled(h) /\ Apart(h) /\ LfreeOK(h)

\* r has the used blocks of h.
SameUsed(h, r) ==
    UsedOf(r) = UsedOf(h) /\ \A q \in UsedOf(h) : r.mem[q].next = h.mem[q].next

-----------------------------------------------------------------------------
(* The chain.                                                               *)

\* Sizes are numbers.
LEMMA Sizes == heap_end \in Nat /\ Header \in Nat /\ Header > 0 /\ MemSize \in Nat /\ heap_end > 0
BY HeapAssumption DEF heap_end

\* What Tiled says of a block.
LEMMA BlockFacts ==
    ASSUME NEW h, Tiled(h), NEW p \in BlocksOf(h)
    PROVE  /\ p \in Nat /\ p \in Headers(h) /\ p # heap_end /\ p < heap_end
           /\ h.mem[p].next \in Headers(h) /\ h.mem[p].next \in Nat
           /\ p < h.mem[p].next /\ p + Header <= h.mem[p].next /\ h.mem[p].next <= heap_end
           /\ h.mem[p] \in [used : BOOLEAN, next : Nat, prev : Nat]
BY Sizes DEF Tiled, Shaped, BlocksOf

\* Two blocks do not end at the same header.
LEMMA NextUnique ==
    ASSUME NEW h, Tiled(h), NEW p \in BlocksOf(h), NEW q \in BlocksOf(h),
           h.mem[p].next = h.mem[q].next
    PROVE  p = q
<1>1. /\ p \in Nat /\ q \in Nat /\ p \in Headers(h) /\ q \in Headers(h)
      /\ p < h.mem[p].next /\ q < h.mem[q].next /\ h.mem[p].next \in Nat
  BY BlockFacts
<1>2. (q <= p \/ q >= h.mem[p].next) /\ (p <= q \/ p >= h.mem[q].next)
  BY <1>1 DEF Tiled
<1> QED  BY <1>1, <1>2

\* Every header but the first has a block before it, which it knows.
LEMMA Predecessor ==
    ASSUME NEW h, Tiled(h), NEW p \in BlocksOf(h), p # 0
    PROVE  /\ h.mem[p].prev \in BlocksOf(h) /\ h.mem[p].prev < p
           /\ h.mem[h.mem[p].prev].next = p
<1> DEFINE T == {d \in Nat : d > 0 /\ p - d \in Headers(h)}
<1>0. p \in Nat /\ p \in Headers(h) /\ p < heap_end /\ 0 \in Headers(h) /\ p # heap_end
  BY BlockFacts DEF Tiled
<1>1. p \in T
  BY <1>0
<1>2. PICK d \in T : \A e \in T : d <= e
  <2>1. T \subseteq Nat /\ T # {}
    BY <1>1
  <2> QED  BY <2>1, LeastElement, Zenon
<1> DEFINE q == p - d
<1>3. q \in BlocksOf(h) /\ q < p /\ q \in Nat
  BY <1>0, <1>2, Sizes DEF BlocksOf, Tiled, Shaped
<1>4. q < h.mem[q].next /\ h.mem[q].next \in Headers(h) /\ h.mem[q].next \in Nat
  BY <1>3, BlockFacts
<1>5. p <= q \/ p >= h.mem[q].next
  BY <1>0, <1>3 DEF Tiled
<1>6. h.mem[q].next = p
  <2>1. SUFFICES ASSUME h.mem[q].next < p PROVE FALSE
    BY <1>0, <1>3, <1>4, <1>5
  <2>2. p - h.mem[q].next \in T
    BY <2>1, <1>0, <1>4
  <2> QED  BY <1>2, <1>3, <1>4, <2>2, <1>0
<1>7. h.mem[p].prev = q
  BY <1>0, <1>3, <1>6 DEF Tiled
<1> QED  BY <1>3, <1>6, <1>7

\* The block at p takes in a free block behind it.
LEMMA MergeTiles ==
    ASSUME NEW h, Tiled(h), NEW p \in BlocksOf(h), h.mem[p].next # heap_end
    PROVE  LET n == h.mem[p].next
               r == Merge(h, p)
           IN  /\ Tiled(r) /\ Headers(r) = Headers(h) \ {n}
               /\ r.mem[p].next = h.mem[n].next
               /\ r.lfree = (IF h.lfree = n THEN p ELSE h.lfree) /\ r.used_mem = h.used_mem
               /\ \A q \in Headers(r) : r.mem[q].used = h.mem[q].used
               /\ \A q \in BlocksOf(r) : q # p => r.mem[q].next = h.mem[q].next
<1> DEFINE n == h.mem[p].next
           m == h.mem[n].next
           r == Merge(h, p)
           keep == Headers(h) \ {n}
           R == [used : BOOLEAN, next : Nat, prev : Nat]
<1>0. n \in BlocksOf(h)
  BY BlockFacts DEF BlocksOf
<1>1. /\ p \in Nat /\ n \in Nat /\ m \in Nat /\ p < n /\ n < m /\ m \in Headers(h)
      /\ p + Header <= n /\ m <= heap_end /\ p \in Headers(h) /\ p # heap_end
      /\ Header \in Nat
  BY <1>0, BlockFacts, Sizes
<1>2. /\ h \in [mem : {h.mem}, lfree : Nat, used_mem : Int]
      /\ h.mem \in [Headers(h) -> R] /\ Headers(h) \subseteq 0..heap_end
      /\ h.lfree \in Headers(h) /\ h.used_mem \in Int
      /\ 0 \in Headers(h) /\ heap_end \in Headers(h)
  BY DEF Tiled, Shaped
<1> DEFINE f == [q \in keep |-> CASE q = p -> [h.mem[p] EXCEPT !.next = m]
                                  [] q = m /\ q # p -> [h.mem[q] EXCEPT !.prev = p]
                                  [] OTHER -> h.mem[q]]
<1>3. r = [mem |-> f, lfree |-> (IF h.lfree = n THEN p ELSE h.lfree), used_mem |-> h.used_mem]
  <2>1. r = [h EXCEPT !.mem = f, !.lfree = IF h.lfree = n THEN p ELSE h.lfree]
    BY DEF Merge
  <2> HIDE DEF f, r
  <2> QED  BY <2>1, <1>2
<1>4. Headers(r) = keep /\ r.mem = f
  BY <1>3 DEF Headers
<1>5. /\ f[p] = [h.mem[p] EXCEPT !.next = m] /\ f[m] = [h.mem[m] EXCEPT !.prev = p]
      /\ \A q \in keep : q # p /\ q # m => f[q] = h.mem[q]
      /\ p \in keep /\ m \in keep /\ p # m
  <2>1. p \in keep /\ m \in keep /\ p # m
    BY <1>1
  <2> HIDE DEF m, n
  <2> QED  BY <2>1
<1>6. /\ h.mem[p] \in R /\ h.mem[m] \in R /\ \A q \in keep : h.mem[q] \in R
  BY <1>1, <1>2
<1> HIDE DEF f
<1>7. /\ f[p].used = h.mem[p].used /\ f[p].next = m /\ f[p].prev = h.mem[p].prev /\ f[p] \in R
      /\ f[m].used = h.mem[m].used /\ f[m].next = h.mem[m].next /\ f[m].prev = p /\ f[m] \in R
  BY <1>1, <1>5, <1>6
<1>8. DOMAIN f = keep
  BY DEF f
<1>9. f \in [keep -> R]
  <2>1. \A q \in keep : f[q] \in R
    BY <1>5, <1>6, <1>7
  <2>2. f = [q \in keep |-> f[q]]
    BY DEF f
  <2> QED  BY <2>1, <2>2
<1>10. \A q \in keep : f[q].used = h.mem[q].used
  BY <1>5, <1>7
<1>11. \A q \in keep : q # p => f[q].next = h.mem[q].next
  BY <1>5, <1>7
<1>12. Shaped(r)
  <2>1. r.lfree \in keep
    BY <1>1, <1>2, <1>3, <1>5
  <2> QED  BY <1>2, <1>3, <1>4, <1>9, <2>1 DEF Shaped
<1>13. {0, heap_end} \subseteq keep /\ f[heap_end].used
  BY <1>1, <1>2, <1>10 DEF Tiled
<1>14. f[0].prev = 0
  <2>1. 0 # m /\ 0 \in keep /\ h.mem[0].prev = 0
    BY <1>1, <1>13 DEF Tiled
  <2> QED  BY <2>1, <1>5, <1>7
<1>15. ASSUME NEW q \in keep \ {heap_end}
       PROVE  /\ f[q].next \in keep /\ f[q].next >= q + Header
              /\ \A x \in keep : x <= q \/ x >= f[q].next
              /\ f[q].next # heap_end => f[f[q].next].prev = q
  <2>0. q \in BlocksOf(h)
    BY DEF BlocksOf
  <2>1. CASE q = p
    <3>1. \A x \in keep : x <= p \/ x >= m
      <4> SUFFICES ASSUME NEW x \in keep PROVE x <= p \/ x >= m
        OBVIOUS
      <4>1. (x <= p \/ x >= n) /\ (x <= n \/ x >= m) /\ x # n /\ x \in Nat
        BY <1>0, <1>2 DEF Tiled
      <4> QED  BY <4>1, <1>1
    <3>2. m >= p + Header
      <4> HIDE DEF m, n
      <4> QED  BY <1>1
    <3>4. m \in keep /\ f[m].prev = p
      BY <1>5, <1>7
    <3>3. f[p].next = m
      BY <1>7
    <3> HIDE DEF m
    <3> QED  BY <2>1, <3>1, <3>2, <3>3, <3>4
  <2>2. CASE q # p
    <3>1. h.mem[q].next # n
      BY <2>0, <2>2, NextUnique
    <3>2. h.mem[q].next # m
      <4>1. q # n
        OBVIOUS
      <4> QED  BY <2>0, <4>1, <1>0, NextUnique
    <3>3. /\ h.mem[q].next \in Headers(h) /\ h.mem[q].next >= q + Header
          /\ \A x \in Headers(h) : x <= q \/ x >= h.mem[q].next
          /\ h.mem[q].next # heap_end => h.mem[h.mem[q].next].prev = q
      BY <2>0 DEF Tiled
    <3>4. f[q].next = h.mem[q].next
      BY <2>2, <1>11
    <3>5. f[q].next \in keep /\ f[f[q].next].prev = h.mem[h.mem[q].next].prev
      <4>1. h.mem[q].next \in keep
        BY <3>1, <3>3
      <4>2. CASE h.mem[q].next = p
        BY <4>2, <3>4, <4>1, <1>7
      <4>3. CASE h.mem[q].next # p
        BY <4>3, <3>4, <4>1, <3>2, <1>5
      <4> QED  BY <4>1, <4>2, <4>3, <3>4
    <3> QED  BY <3>3, <3>4, <3>5
  <2> QED  BY <2>1, <2>2
<1>16. Tiled(r)
  BY <1>4, <1>12, <1>13, <1>14, <1>15 DEF Tiled, BlocksOf
<1>17. \A q \in BlocksOf(r) : q # p => r.mem[q].next = h.mem[q].next
  BY <1>4, <1>11 DEF BlocksOf
<1>18. r.mem[p].next = m /\ \A q \in Headers(r) : r.mem[q].used = h.mem[q].used
  BY <1>4, <1>7, <1>10
<1>19. r.lfree = (IF h.lfree = n THEN p ELSE h.lfree) /\ r.used_mem = h.used_mem
  BY <1>3
<1> HIDE DEF r, f
<1> QED  BY <1>4, <1>16, <1>17, <1>18, <1>19 DEF r


\* A new header behind the first size words of a block.
LEMMA SplitTiles ==
    ASSUME NEW h, Tiled(h), NEW p \in BlocksOf(h), NEW size \in Nat,
           p + Header + size + Header <= h.mem[p].next
    PROVE  LET new == p + Header + size
               r == Split(h, p, size)
           IN  /\ Tiled(r) /\ Headers(r) = Headers(h) \cup {new} /\ new \notin Headers(h)
               /\ r.mem[p].next = new /\ r.mem[new].next = h.mem[p].next /\ ~r.mem[new].used
               /\ new \in BlocksOf(r)
               /\ r.lfree = h.lfree /\ r.used_mem = h.used_mem
               /\ \A q \in Headers(h) : r.mem[q].used = h.mem[q].used
               /\ \A q \in BlocksOf(h) : q # p => r.mem[q].next = h.mem[q].next
<1> DEFINE new == p + Header + size
           n == h.mem[p].next
           r == Split(h, p, size)
           all == Headers(h) \cup {new}
           R == [used : BOOLEAN, next : Nat, prev : Nat]
           a == [used |-> FALSE, next |-> n, prev |-> p]
<1>1. /\ p \in Nat /\ n \in Nat /\ new \in Nat /\ p < new /\ new < n /\ n \in Headers(h)
      /\ n <= heap_end /\ p \in Headers(h) /\ p # heap_end /\ Header \in Nat /\ p # n
      /\ new + Header <= n /\ new >= p + Header
  BY BlockFacts, Sizes
<1>2. /\ h \in [mem : {h.mem}, lfree : Nat, used_mem : Int]
      /\ h.mem \in [Headers(h) -> R] /\ Headers(h) \subseteq 0..heap_end
      /\ h.lfree \in Headers(h) /\ h.used_mem \in Int
      /\ 0 \in Headers(h) /\ heap_end \in Headers(h)
  BY DEF Tiled, Shaped
<1>3. new \notin Headers(h)
  <2>1. \A q \in Headers(h) : q <= p \/ q >= n
    BY DEF Tiled
  <2> QED  BY <2>1, <1>1
<1> DEFINE g == [q \in all |->
                    CASE q = new -> a
                      [] q = p -> [h.mem[p] EXCEPT !.next = new]
                      [] q = n /\ q # heap_end -> [h.mem[q] EXCEPT !.prev = new]
                      [] OTHER -> h.mem[q]]
<1>4. r = [mem |-> g, lfree |-> h.lfree, used_mem |-> h.used_mem]
  <2>1. r = [h EXCEPT !.mem = g]
    BY DEF Split
  <2> HIDE DEF g, r
  <2> QED  BY <2>1, <1>2
<1>5. DOMAIN g = all /\ g[new] = a
  <2>1. new \in all /\ p # new /\ n # new
    BY <1>1
  <2> HIDE DEF a, new, n, all
  <2>2. g[new] = a
    BY <2>1
  <2>3. DOMAIN g = all
    OBVIOUS
  <2> QED  BY <2>2, <2>3
<1>6. Headers(r) = all /\ r.mem = g
  BY <1>4, <1>5 DEF Headers
<1>7. /\ g[p] = [h.mem[p] EXCEPT !.next = new]
      /\ n # heap_end => g[n] = [h.mem[n] EXCEPT !.prev = new]
      /\ \A q \in Headers(h) : q # p /\ (q # n \/ q = heap_end) => g[q] = h.mem[q]
  <2>1. p # new /\ n # new /\ p # n
    BY <1>1
  <2>2. p \in all /\ n \in all /\ \A q \in Headers(h) : q \in all /\ q # new
    BY <1>1, <1>3
  <2> HIDE DEF n, new, a
  <2> QED  BY <2>1, <2>2
<1>8. \A q \in Headers(h) : h.mem[q] \in R
  BY <1>2
<1> HIDE DEF g
<1>9. /\ g[p].used = h.mem[p].used /\ g[p].next = new /\ g[p].prev = h.mem[p].prev /\ g[p] \in R
      /\ n # heap_end => /\ g[n].used = h.mem[n].used /\ g[n].next = h.mem[n].next
                         /\ g[n].prev = new /\ g[n] \in R
  BY <1>1, <1>7, <1>8
<1>10. \A q \in Headers(h) : g[q] \in R /\ g[q].used = h.mem[q].used
  BY <1>7, <1>8, <1>9
<1>11. \A q \in Headers(h) : q # p => g[q].next = h.mem[q].next
  BY <1>7, <1>9
<1>12. a \in R /\ a.next = n /\ a.prev = p /\ a.used = FALSE
  BY <1>1
<1> HIDE DEF a
<1>13. g \in [all -> R]
  <2>1. \A q \in all : g[q] \in R
    BY <1>5, <1>10, <1>12
  <2>2. g = [q \in all |-> g[q]]
    BY DEF g
  <2> QED  BY <2>1, <2>2
<1>14. Shaped(r)
  <2>1. new \in 0..heap_end
    BY <1>1, Sizes
  <2> HIDE DEF r, new
  <2> QED  BY <1>2, <1>4, <1>6, <1>13, <2>1 DEF Shaped
<1>15. {0, heap_end} \subseteq all /\ g[heap_end].used
  BY <1>2, <1>5, <1>10 DEF Tiled
<1>16. g[0].prev = 0
  <2>1. 0 # n /\ h.mem[0].prev = 0
    BY <1>1 DEF Tiled
  <2> QED  BY <2>1, <1>2, <1>7, <1>9
<1>17. ASSUME NEW q \in all \ {heap_end}
       PROVE  /\ g[q].next \in all /\ g[q].next >= q + Header
              /\ \A x \in all : x <= q \/ x >= g[q].next
              /\ g[q].next # heap_end => g[g[q].next].prev = q
  <2>0. \A x \in all : x \in Nat
    BY <1>1, <1>2
  <2>1. \A x \in Headers(h) : x <= p \/ x >= n
    BY DEF Tiled
  <2>2. CASE q = p
    <3>1. g[p].next = new /\ g[new].prev = p
      BY <1>1, <1>5, <1>9, <1>12
    <3>2. \A x \in all : x <= p \/ x >= new
      <4>1. p \in Nat /\ n \in Nat /\ new \in Nat /\ p < new /\ new < n
        BY <1>1, <2>0
      <4>2. \A x \in all : x \in Headers(h) \/ x = new
        OBVIOUS
      <4> HIDE DEF new, n, all
      <4> QED  BY <2>0, <2>1, <4>1, <4>2
    <3> HIDE DEF new
    <3> QED  BY <2>2, <3>1, <3>2, <1>1
  <2>3. CASE q = new
    <3>1. g[new].next = n /\ (n # heap_end => g[n].prev = new)
      BY <1>1, <1>5, <1>9, <1>12
    <3>2. \A x \in all : x <= new \/ x >= n
      <4>1. p \in Nat /\ n \in Nat /\ new \in Nat /\ p < new /\ new < n
        BY <1>1, <2>0
      <4>2. \A x \in all : x \in Headers(h) \/ x = new
        OBVIOUS
      <4> HIDE DEF new, n, all
      <4> QED  BY <2>0, <2>1, <4>1, <4>2
    <3> HIDE DEF new, n
    <3> QED  BY <2>3, <3>1, <3>2, <1>1
  <2>4. CASE q # p /\ q # new
    <3>0. q \in BlocksOf(h) /\ q \in Headers(h)
      BY <2>4 DEF BlocksOf
    <3> DEFINE m == h.mem[q].next
    <3>1. /\ m \in Headers(h) /\ m >= q + Header /\ m \in Nat /\ q < m /\ q \in Nat
          /\ \A x \in Headers(h) : x <= q \/ x >= m
          /\ m # heap_end => h.mem[m].prev = q
      BY <3>0, BlockFacts DEF Tiled
    <3>2. g[q].next = m
      BY <3>0, <2>4, <1>5, <1>11
    <3>3. m # n
      BY <3>0, <2>4, NextUnique
    <3>4. g[m].prev = h.mem[m].prev
      <4>1. CASE m = p
        BY <4>1, <1>9
      <4>2. CASE m # p
        BY <4>2, <3>1, <3>3, <1>7
      <4> QED  BY <4>1, <4>2
    <3>5. new <= q \/ new >= m
      <4>1. (p <= q \/ p >= m) /\ (q <= p \/ q >= n)
        BY <3>0, <3>1, <2>1, <1>1
      <4> QED  BY <4>1, <3>1, <2>4, <1>1
    <3>6. \A x \in all : x <= q \/ x >= m
      BY <3>1, <3>5
    <3> HIDE DEF m, new
    <3> QED  BY <3>1, <3>2, <3>4, <3>6
  <2> QED  BY <2>2, <2>3, <2>4
<1>18. Tiled(r)
  <2> HIDE DEF r
  <2> QED  BY <1>6, <1>14, <1>15, <1>16, <1>17 DEF Tiled, BlocksOf
<1>19. \A q \in BlocksOf(h) : q # p => r.mem[q].next = h.mem[q].next
  BY <1>5, <1>6, <1>11 DEF BlocksOf
<1>20. /\ r.mem[p].next = new /\ r.mem[new].next = n /\ ~r.mem[new].used
       /\ \A q \in Headers(h) : r.mem[q].used = h.mem[q].used
  BY <1>1, <1>5, <1>6, <1>9, <1>10, <1>12
<1>21. r.lfree = h.lfree /\ r.used_mem = h.used_mem
  BY <1>4
<1>22. new \in BlocksOf(r)
  <2> HIDE DEF r
  <2> QED  BY <1>1, <1>6 DEF BlocksOf
<1> HIDE DEF r
<1> QED  BY <1>3, <1>6, <1>18, <1>19, <1>20, <1>21, <1>22 DEF r

-----------------------------------------------------------------------------
(* What the functions of mem.c do to a heap.                                *)

\* plug_holes joins a free block with its free neighbours.
LEMMA PlugHoles ==
    ASSUME NEW h, Tiled(h), LfreeOK(h), NEW p \in BlocksOf(h), ~h.mem[p].used,
           \A q \in BlocksOf(h) : q # p /\ h.mem[q].next # p
                                    => h.mem[q].used \/ h.mem[h.mem[q].next].used
    PROVE  LET r == plug_holes(h, p)
           IN  HeapOK(r) /\ SameUsed(h, r) /\ r.used_mem = h.used_mem
<1> DEFINE n == h.mem[p].next
           g == PlugForward(h, p)
           r == PlugBackward(g, p)
<1>0. p < n /\ n \in Headers(h) /\ p \in Nat /\ n \in Nat /\ p \in Headers(h)
  BY BlockFacts
<1>1. /\ Tiled(g) /\ LfreeOK(g) /\ p \in BlocksOf(g) /\ ~g.mem[p].used
      /\ SameUsed(h, g) /\ g.used_mem = h.used_mem
      /\ \A q \in BlocksOf(g) : g.mem[q].next # p => g.mem[q].used \/ g.mem[g.mem[q].next].used
  <2>1. CASE h.mem[n].used
    <3>1. g = h
      BY <2>1 DEF PlugForward
    <3> QED  BY <2>1, <3>1 DEF SameUsed
  <2>2. CASE ~h.mem[n].used
    <3>1. n # heap_end
      BY <2>2 DEF Tiled
    <3>2. g = Merge(h, p)
      BY <3>1, <2>2, <1>0 DEF PlugForward
    <3>3. n \in BlocksOf(h)
      BY <3>1, <1>0 DEF BlocksOf
    <3> DEFINE m == h.mem[n].next
    <3>4. n < m /\ m \in Headers(h) /\ m \in Nat /\ m # p /\ m # n
      BY <3>3, <1>0, BlockFacts
    <3>5. h.mem[m].used
      BY <3>3, <3>4, <2>2, <1>0
    <3>6. /\ Tiled(g) /\ Headers(g) = Headers(h) \ {n}
          /\ g.mem[p].next = m
          /\ g.lfree = (IF h.lfree = n THEN p ELSE h.lfree) /\ g.used_mem = h.used_mem
          /\ \A q \in Headers(g) : g.mem[q].used = h.mem[q].used
          /\ \A q \in BlocksOf(g) : q # p => g.mem[q].next = h.mem[q].next
      BY <3>1, <3>2, MergeTiles
    <3> HIDE DEF g, m
    <3>7. p \in BlocksOf(g) /\ p \in Headers(g) /\ m \in Headers(g)
      BY <3>4, <3>6, <1>0 DEF BlocksOf
    <3>8. LfreeOK(g)
      <4>1. h.lfree \in Headers(h)
        BY DEF Tiled, Shaped
      <4> QED  BY <4>1, <3>6, <3>7 DEF LfreeOK
    <3>9. UsedOf(g) = UsedOf(h)
      BY <3>6, <2>2 DEF UsedOf, BlocksOf
    <3>10. \A q \in UsedOf(h) : q # p /\ q \in BlocksOf(g)
      BY <3>9 DEF UsedOf
    <3>11. ASSUME NEW q \in BlocksOf(g), g.mem[q].next # p
           PROVE  g.mem[q].used \/ g.mem[g.mem[q].next].used
      <4>1. q \in Headers(g) /\ q \in BlocksOf(h) /\ g.mem[q].next \in Headers(g)
        BY <3>6, BlockFacts DEF BlocksOf
      <4>2. CASE q = p
        BY <4>2, <3>5, <3>6, <3>7
      <4>3. CASE q # p
        <5>1. g.mem[q].next = h.mem[q].next
          BY <4>3, <3>6
        <5>2. h.mem[q].used \/ h.mem[h.mem[q].next].used
          BY <4>1, <4>3, <5>1, <3>11
        <5> QED  BY <4>1, <5>1, <5>2, <3>6
      <4> QED  BY <4>2, <4>3
    <3> QED  BY <3>6, <3>7, <3>8, <3>9, <3>10, <3>11 DEF SameUsed
  <2> QED  BY <2>1, <2>2
<1> HIDE DEF g
<1> DEFINE b == g.mem[p].prev
<1>2. HeapOK(r) /\ SameUsed(g, r) /\ r.used_mem = g.used_mem
  <2>1. CASE p = 0
    <3>1. r = g
      BY <2>1, <1>1 DEF PlugBackward, Tiled
    <3>2. \A q \in BlocksOf(g) : g.mem[q].next # p
      BY <2>1, <1>1, BlockFacts
    <3> QED  BY <1>1, <3>1, <3>2 DEF HeapOK, Apart, SameUsed
  <2>2. CASE p # 0
    <3>1. b \in BlocksOf(g) /\ b < p /\ g.mem[b].next = p
      BY <2>2, <1>1, Predecessor
    <3>2. \A q \in BlocksOf(g) : g.mem[q].next = p => q = b
      BY <1>1, <3>1, NextUnique
    <3>3. b # p /\ p # heap_end /\ b \in Headers(g) /\ p \in Headers(g)
      BY <3>1, <1>0, <1>1, BlockFacts
    <3>4. CASE g.mem[b].used
      <4>1. r = g
        BY <3>4 DEF PlugBackward
      <4> QED  BY <1>1, <4>1, <3>2, <3>4 DEF HeapOK, Apart, SameUsed
    <3>5. CASE ~g.mem[b].used
      <4>1. r = Merge(g, b)
        BY <3>3, <3>5 DEF PlugBackward
      <4> DEFINE m == g.mem[p].next
      <4>2. /\ Tiled(r) /\ Headers(r) = Headers(g) \ {p}
            /\ r.mem[b].next = m
            /\ r.lfree = (IF g.lfree = p THEN b ELSE g.lfree) /\ r.used_mem = g.used_mem
            /\ \A q \in Headers(r) : r.mem[q].used = g.mem[q].used
            /\ \A q \in BlocksOf(r) : q # b => r.mem[q].next = g.mem[q].next
        BY <1>1, <3>1, <3>3, <4>1, MergeTiles
      <4>3. m \in Headers(g) /\ m # p /\ g.mem[m].used
        BY <1>1, BlockFacts
      <4> HIDE DEF r, b, m
      <4>4. LfreeOK(r)
        <5>1. g.lfree \in Headers(g)
          BY <1>1 DEF Tiled, Shaped
        <5> QED  BY <5>1, <4>2, <1>1, <3>3, <3>5 DEF LfreeOK
      <4>5. UsedOf(r) = UsedOf(g)
        BY <4>2, <1>1 DEF UsedOf, BlocksOf
      <4>6. \A q \in UsedOf(g) : q # b /\ q \in BlocksOf(r)
        BY <4>5, <3>5 DEF UsedOf
      <4>7. Apart(r)
        <5> SUFFICES ASSUME NEW q \in BlocksOf(r) PROVE r.mem[q].used \/ r.mem[r.mem[q].next].used
          BY DEF Apart
        <5>1. q \in Headers(r) /\ q \in BlocksOf(g) /\ r.mem[q].next \in Headers(r)
          BY <4>2, BlockFacts DEF BlocksOf
        <5>2. CASE q = b
          BY <5>2, <5>1, <4>2, <4>3
        <5>3. CASE q # b
          <6>1. r.mem[q].next = g.mem[q].next /\ g.mem[q].next # p
            BY <5>1, <5>3, <4>2, <3>2
          <6>2. g.mem[q].used \/ g.mem[g.mem[q].next].used
            BY <6>1, <5>1, <1>1
          <6> QED  BY <5>1, <6>1, <6>2, <4>2
        <5> QED  BY <5>2, <5>3
      <4> QED  BY <4>2, <4>4, <4>5, <4>6, <4>7 DEF HeapOK, SameUsed
    <3> QED  BY <3>4, <3>5
  <2> QED  BY <2>1, <2>2
<1>3. r = plug_holes(h, p)
  BY DEF plug_holes, g
<1> HIDE DEF r
<1>4. SameUsed(h, r)
  BY <1>1, <1>2 DEF SameUsed
<1> QED  BY <1>1, <1>2, <1>3, <1>4

\* FindLowest keeps the chain and finds a free block or the end.
LEMMA FindLowestOK ==
    ASSUME NEW h, Tiled(h)
    PROVE  LET r == FindLowest(h)
           IN  Tiled(r) /\ LfreeOK(r) /\ r.mem = h.mem /\ r.used_mem = h.used_mem
<1> DEFINE T == {p \in Headers(h) : p >= h.lfree /\ (~h.mem[p].used \/ p = heap_end)}
           r == FindLowest(h)
<1>1. /\ h \in [mem : {h.mem}, lfree : Nat, used_mem : Int] /\ Headers(h) \subseteq 0..heap_end
      /\ h.lfree \in Headers(h) /\ heap_end \in Headers(h)
  BY DEF Tiled, Shaped
<1>2. T \subseteq Nat /\ T # {}
  <2>1. heap_end \in T
    BY <1>1, Sizes
  <2> QED  BY <2>1, <1>1, Sizes
<1>3. Min(T) \in T
  BY <1>2, MinProperties, Zenon
<1>4. r = [h EXCEPT !.lfree = Min(T)]
  BY DEF FindLowest
<1> DEFINE m == Min(T)
<1> HIDE DEF m
<1>5. r.mem = h.mem /\ r.used_mem = h.used_mem /\ r.lfree = m /\ r \in [mem : {h.mem}, lfree : Nat, used_mem : Int]
  BY <1>1, <1>2, <1>3, <1>4 DEF m
<1>6. LfreeOK(r)
  BY <1>3, <1>5 DEF LfreeOK, m
<1>7. Tiled(r)
  <2> HIDE DEF r
  <2>1. Headers(r) = Headers(h) /\ m \in Headers(h)
    BY <1>3, <1>5 DEF Headers, m
  <2> QED  BY <1>5, <2>1 DEF Tiled, Shaped, BlocksOf
<1> QED  BY <1>5, <1>6, <1>7

\* r is h with b as the used flag of the block at p, and other numbers.
Marked(h, p, b, l, m, r) ==
    r = [mem |-> [h.mem EXCEPT ![p].used = b], lfree |-> l, used_mem |-> m]

\* The chain of such an r.
MarkedChain(h, p, b, l, m, r) ==
    /\ Tiled(r) /\ Headers(r) = Headers(h) /\ BlocksOf(r) = BlocksOf(h)
    /\ r.lfree = l /\ r.used_mem = m
    /\ \A q \in Headers(h) : r.mem[q].next = h.mem[q].next
    /\ r.mem[p].used = b
    /\ \A q \in Headers(h) : q # p => r.mem[q].used = h.mem[q].used

\* The used flag of a block and the two numbers say nothing of the chain.
LEMMA MarkTiles ==
    ASSUME NEW h, Tiled(h), NEW p \in BlocksOf(h), NEW b \in BOOLEAN,
           NEW l \in Headers(h), NEW m \in Int, NEW r, Marked(h, p, b, l, m, r)
    PROVE  MarkedChain(h, p, b, l, m, r)
<1> DEFINE R == [used : BOOLEAN, next : Nat, prev : Nat]
           f == [h.mem EXCEPT ![p].used = b]
<1>1. h.mem \in [Headers(h) -> R] /\ Headers(h) \subseteq 0..heap_end /\ p \in Headers(h)
  BY DEF Tiled, Shaped, BlocksOf
<1>2. f \in [Headers(h) -> R] /\ f[p] = [h.mem[p] EXCEPT !.used = b]
      /\ \A q \in Headers(h) : q # p => f[q] = h.mem[q]
  BY <1>1
<1>3. f[p].used = b /\ f[p].next = h.mem[p].next /\ f[p].prev = h.mem[p].prev
  BY <1>1, <1>2
<1>4. \A q \in Headers(h) : f[q].next = h.mem[q].next /\ f[q].prev = h.mem[q].prev
  BY <1>2, <1>3
<1>5. \A q \in Headers(h) : q # p => f[q].used = h.mem[q].used
  BY <1>2
<1>6. r.mem = f /\ r.lfree = l /\ r.used_mem = m /\ r = [mem |-> f, lfree |-> l, used_mem |-> m]
  <2>1. r = [mem |-> f, lfree |-> l, used_mem |-> m]
    BY DEF Marked
  <2> HIDE DEF f
  <2> QED  BY <2>1
<1> HIDE DEF f
<1>7. Headers(r) = Headers(h)
  BY <1>2, <1>6 DEF Headers
<1>8. l \in Nat
  BY <1>1, Sizes
<1>9. Shaped(r)
  BY <1>1, <1>2, <1>6, <1>7, <1>8 DEF Shaped
<1>10. BlocksOf(r) = BlocksOf(h)
  BY <1>7 DEF BlocksOf
<1>11. p # heap_end /\ 0 \in Headers(h) /\ heap_end \in Headers(h)
  BY DEF BlocksOf, Tiled
<1>12. ASSUME NEW q \in BlocksOf(h)
       PROVE  /\ f[q].next \in Headers(h) /\ f[q].next >= q + Header
              /\ \A x \in Headers(h) : x <= q \/ x >= f[q].next
              /\ f[q].next # heap_end => f[f[q].next].prev = q
  <2>1. q \in Headers(h)
    BY DEF BlocksOf
  <2> QED  BY <2>1, <1>4 DEF Tiled
<1>13. f[heap_end].used /\ f[0].prev = 0
  BY <1>4, <1>5, <1>11 DEF Tiled
<1>14. Tiled(r)
  BY <1>6, <1>7, <1>9, <1>10, <1>11, <1>12, <1>13 DEF Tiled
<1> QED  BY <1>3, <1>4, <1>5, <1>6, <1>7, <1>10, <1>14 DEF MarkedChain

\* rt_malloc: the block at p is used, and nothing else changes hands.
LEMMA UseBlockOK ==
    ASSUME NEW h, HeapOK(h), NEW p \in BlocksOf(h), ~h.mem[p].used,
           NEW size \in Nat, Room(h, p) >= size
    PROVE  LET r == UseBlock(h, p, size)
           IN  /\ HeapOK(r) /\ UsedOf(r) = UsedOf(h) \cup {p}
               /\ \A q \in UsedOf(h) : r.mem[q].next = h.mem[q].next
               /\ r.mem[p].next >= p + Header + size
               /\ r.used_mem = h.used_mem + (r.mem[p].next - p)
<1> DEFINE n == h.mem[p].next
           new == p + Header + size
           s == IF Room(h, p) >= size + Header + MinSize THEN Split(h, p, size) ELSE h
           f == [s.mem EXCEPT ![p].used = TRUE]
           u == [s EXCEPT !.mem[p].used = TRUE, !.used_mem = @ + s.mem[p].next - p]
           r == UseBlock(h, p, size)
<1>0. /\ p \in Nat /\ n \in Nat /\ n \in Headers(h) /\ Header \in Nat /\ MinSize \in Nat
      /\ p \in Headers(h) /\ p < n /\ h.mem[n].used /\ new <= n /\ new \in Nat
  BY BlockFacts, Sizes, HeapAssumption DEF HeapOK, Apart, Room
<1>1. /\ Tiled(s) /\ s.lfree = h.lfree /\ s.used_mem = h.used_mem
      /\ Headers(h) \subseteq Headers(s) /\ p \in BlocksOf(s) /\ s.mem[p].next >= new
      /\ \A q \in Headers(h) : s.mem[q].used = h.mem[q].used
      /\ \A q \in Headers(s) : q \in Headers(h) \/ ~s.mem[q].used
      /\ \A q \in BlocksOf(h) : q # p => s.mem[q].next = h.mem[q].next
      /\ \A q \in BlocksOf(s) : q # p => s.mem[q].used \/ s.mem[s.mem[q].next].used
  <2>1. CASE Room(h, p) >= size + Header + MinSize
    <3>1. s = Split(h, p, size)
      BY <2>1
    <3>2. p + Header + size + Header <= n
      BY <2>1, <1>0, HeapAssumption DEF Room
    <3> HIDE DEF s
    <3>3. /\ Tiled(s) /\ Headers(s) = Headers(h) \cup {new} /\ new \notin Headers(h)
          /\ s.mem[p].next = new /\ s.mem[new].next = h.mem[p].next /\ ~s.mem[new].used
          /\ s.lfree = h.lfree /\ s.used_mem = h.used_mem
          /\ \A q \in Headers(h) : s.mem[q].used = h.mem[q].used
          /\ \A q \in BlocksOf(h) : q # p => s.mem[q].next = h.mem[q].next
      BY <3>1, <3>2, SplitTiles DEF HeapOK
    <3> HIDE DEF new, n
    <3>4. p \in BlocksOf(s)
      BY <3>3 DEF BlocksOf
    <3>5. ASSUME NEW q \in BlocksOf(s), q # p PROVE s.mem[q].used \/ s.mem[s.mem[q].next].used
      <4>1. CASE q = new
        BY <4>1, <3>3, <1>0 DEF n
      <4>2. CASE q # new
        <5>1. q \in BlocksOf(h) /\ q \in Headers(h)
          BY <4>2, <3>3 DEF BlocksOf
        <5>2. h.mem[q].next \in Headers(h) /\ (h.mem[q].used \/ h.mem[h.mem[q].next].used)
          BY <5>1, BlockFacts DEF HeapOK, Apart
        <5> QED  BY <5>1, <5>2, <3>5, <3>3
      <4> QED  BY <4>1, <4>2
    <3>6. s.mem[p].next >= new
      BY <3>3, <1>0
    <3>7. \A q \in Headers(s) : q \in Headers(h) \/ ~s.mem[q].used
      BY <3>3
    <3> QED  BY <3>3, <3>4, <3>5, <3>6, <3>7
  <2>2. CASE ~(Room(h, p) >= size + Header + MinSize)
    <3>1. s = h
      BY <2>2
    <3> HIDE DEF s
    <3> QED  BY <3>1, <1>0 DEF HeapOK, Apart
  <2> QED  BY <2>1, <2>2
<1> HIDE DEF s, n, new
<1>2. /\ s \in [mem : {s.mem}, lfree : Nat, used_mem : Int] /\ s.lfree \in Headers(s)
      /\ s.used_mem \in Int /\ s.mem[p].next \in Nat
  BY <1>1, BlockFacts DEF Tiled, Shaped
<1> DEFINE c == s.used_mem + s.mem[p].next - p
<1>3. c \in Int
  BY <1>0, <1>2
<1>4. u = [mem |-> f, lfree |-> s.lfree, used_mem |-> c]
  <2>1. u = [s EXCEPT !.mem = f, !.used_mem = c]
    OBVIOUS
  <2> HIDE DEF f, c, u
  <2> QED  BY <2>1, <1>2
<1> HIDE DEF u, c
<1>5. /\ Tiled(u) /\ Headers(u) = Headers(s) /\ BlocksOf(u) = BlocksOf(s)
      /\ u.lfree = s.lfree /\ u.used_mem = c
      /\ \A q \in Headers(s) : u.mem[q].next = s.mem[q].next
      /\ u.mem[p].used = TRUE
      /\ \A q \in Headers(s) : q # p => u.mem[q].used = s.mem[q].used
  <2>1. Marked(s, p, TRUE, s.lfree, c, u) /\ TRUE \in BOOLEAN
    BY <1>4 DEF Marked
  <2>2. Tiled(s) /\ p \in BlocksOf(s) /\ s.lfree \in Headers(s)
    BY <1>1, <1>2
  <2>3. MarkedChain(s, p, TRUE, s.lfree, c, u)
    BY <1>3, <2>1, <2>2, MarkTiles, Zenon
  <2> QED  BY <2>3 DEF MarkedChain
<1>6. Apart(u)
  <2> SUFFICES ASSUME NEW q \in BlocksOf(u) PROVE u.mem[q].used \/ u.mem[u.mem[q].next].used
    BY DEF Apart
  <2>1. q \in Headers(s) /\ s.mem[q].next \in Headers(s)
    BY <1>1, <1>5, BlockFacts
  <2> QED  BY <2>1, <1>1, <1>5
<1>7. UsedOf(u) = UsedOf(h) \cup {p}
  <2>1. ASSUME NEW q \in UsedOf(u) PROVE q \in UsedOf(h) \cup {p}
    BY <1>1, <1>5 DEF UsedOf, BlocksOf
  <2>2. ASSUME NEW q \in UsedOf(h) \cup {p} PROVE q \in UsedOf(u)
    BY <1>1, <1>5 DEF UsedOf, BlocksOf
  <2> QED  BY <2>1, <2>2
<1>8. \A q \in UsedOf(h) : u.mem[q].next = h.mem[q].next
  <2> SUFFICES ASSUME NEW q \in UsedOf(h) PROVE u.mem[q].next = h.mem[q].next
    OBVIOUS
  <2>1. q \in Headers(s) /\ q # p /\ q \in BlocksOf(h)
    BY <1>1 DEF UsedOf, BlocksOf
  <2> QED  BY <2>1, <1>1, <1>5
<1>9. u.mem[p].next >= p + Header + size /\ u.used_mem = h.used_mem + (u.mem[p].next - p)
  <2>1. p \in Headers(s) /\ h.used_mem \in Int
    BY <1>1, <1>2 DEF BlocksOf
  <2>2. u.mem[p].next = s.mem[p].next
    BY <2>1, <1>5
  <2> QED  BY <2>1, <2>2, <1>0, <1>1, <1>2, <1>5 DEF c, new
<1>10. /\ HeapOK(r) /\ r.mem = u.mem /\ r.used_mem = u.used_mem
  <2>1. CASE p = h.lfree
    <3>1. r = FindLowest(u)
      BY <2>1 DEF UseBlock, u, s
    <3>2. Tiled(r) /\ LfreeOK(r) /\ r.mem = u.mem /\ r.used_mem = u.used_mem
      BY <3>1, <1>5, FindLowestOK
    <3> HIDE DEF r
    <3> QED  BY <3>2, <1>6 DEF HeapOK, Apart, BlocksOf, Headers
  <2>2. CASE p # h.lfree
    <3>1. r = u
      BY <2>2 DEF UseBlock, u, s
    <3>2. h.lfree \in Headers(h) /\ LfreeOK(h)
      BY DEF HeapOK, Tiled, Shaped
    <3>3. LfreeOK(u)
      BY <3>2, <2>2, <1>1, <1>5 DEF LfreeOK
    <3> HIDE DEF r
    <3> QED  BY <3>1, <3>3, <1>5, <1>6 DEF HeapOK
  <2> QED  BY <2>1, <2>2
<1> HIDE DEF r
<1>11. UsedOf(r) = UsedOf(u)
  BY <1>10 DEF UsedOf, BlocksOf, Headers
<1> QED  BY <1>7, <1>8, <1>9, <1>10, <1>11 DEF r

\* rt_free: the block at p is no longer used, and nothing else changes hands.
LEMMA ReleaseOK ==
    ASSUME NEW h, HeapOK(h), NEW p \in UsedOf(h)
    PROVE  LET r == Release(h, p)
           IN  /\ HeapOK(r) /\ UsedOf(r) = UsedOf(h) \ {p}
               /\ \A q \in UsedOf(h) \ {p} : r.mem[q].next = h.mem[q].next
               /\ r.used_mem = h.used_mem - (h.mem[p].next - p)
<1> DEFINE l == IF p < h.lfree THEN p ELSE h.lfree
           c == h.used_mem - (h.mem[p].next - p)
           f == [h.mem EXCEPT ![p].used = FALSE]
           u == [h EXCEPT !.mem[p].used = FALSE, !.lfree = IF p < @ THEN p ELSE @,
                          !.used_mem = @ - (h.mem[p].next - p)]
           r == Release(h, p)
<1>0. p \in BlocksOf(h) /\ p \in Headers(h) /\ h.mem[p].used
  BY DEF UsedOf, BlocksOf
<1>1. /\ h \in [mem : {h.mem}, lfree : Nat, used_mem : Int] /\ h.lfree \in Headers(h)
      /\ h.used_mem \in Int /\ h.mem[p].next \in Nat /\ p \in Nat
  BY <1>0, BlockFacts DEF HeapOK, Tiled, Shaped
<1>2. c \in Int /\ l \in Headers(h)
  BY <1>0, <1>1
<1>3. u = [mem |-> f, lfree |-> l, used_mem |-> c]
  <2>1. u = [h EXCEPT !.mem = f, !.lfree = l, !.used_mem = c]
    OBVIOUS
  <2> HIDE DEF f, l, c, u
  <2> QED  BY <2>1, <1>1
<1> HIDE DEF u, c
<1>4. /\ Tiled(u) /\ Headers(u) = Headers(h) /\ BlocksOf(u) = BlocksOf(h)
      /\ u.lfree = l /\ u.used_mem = c
      /\ \A q \in Headers(h) : u.mem[q].next = h.mem[q].next
      /\ u.mem[p].used = FALSE
      /\ \A q \in Headers(h) : q # p => u.mem[q].used = h.mem[q].used
  <2>1. Marked(h, p, FALSE, l, c, u) /\ FALSE \in BOOLEAN
    BY <1>3 DEF Marked
  <2>2. Tiled(h)
    BY DEF HeapOK
  <2> HIDE DEF l
  <2>3. MarkedChain(h, p, FALSE, l, c, u)
    BY <1>0, <1>2, <2>1, <2>2, MarkTiles, Zenon
  <2> QED  BY <2>3 DEF MarkedChain
<1>5. LfreeOK(u)
  BY <1>0, <1>1, <1>4 DEF LfreeOK, HeapOK
<1> HIDE DEF l
<1>6. ASSUME NEW q \in BlocksOf(u), q # p, u.mem[q].next # p
      PROVE  u.mem[q].used \/ u.mem[u.mem[q].next].used
  <2>1. q \in BlocksOf(h) /\ q \in Headers(h) /\ h.mem[q].next \in Headers(h)
    BY <1>4, BlockFacts DEF HeapOK
  <2>2. h.mem[q].used \/ h.mem[h.mem[q].next].used
    BY <2>1 DEF HeapOK, Apart
  <2> QED  BY <2>1, <2>2, <1>4, <1>6
<1>7. r = plug_holes(u, p)
  BY DEF Release, u
<1> HIDE DEF r
<1>8. HeapOK(r) /\ SameUsed(u, r) /\ r.used_mem = u.used_mem
  BY <1>0, <1>4, <1>5, <1>6, <1>7, PlugHoles
<1>9. UsedOf(u) = UsedOf(h) \ {p}
  <2>1. ASSUME NEW q \in UsedOf(u) PROVE q \in UsedOf(h) \ {p}
    BY <1>4 DEF UsedOf, BlocksOf
  <2>2. ASSUME NEW q \in UsedOf(h) \ {p} PROVE q \in UsedOf(u)
    BY <1>4 DEF UsedOf, BlocksOf
  <2> QED  BY <2>1, <2>2
<1>10. ASSUME NEW q \in UsedOf(h) \ {p} PROVE r.mem[q].next = h.mem[q].next
  <2>1. q \in Headers(h) /\ q \in UsedOf(u)
    BY <1>9 DEF UsedOf, BlocksOf
  <2> QED  BY <2>1, <1>4, <1>8 DEF SameUsed
<1>11. UsedOf(r) = UsedOf(h) \ {p}
  BY <1>8, <1>9 DEF SameUsed
<1> QED  BY <1>4, <1>8, <1>10, <1>11 DEF r, c

\* rt_realloc to a smaller size: the block at p keeps newsize words.
LEMMA ShrinkOK ==
    ASSUME NEW h, HeapOK(h), NEW p \in UsedOf(h), NEW newsize \in Nat,
           newsize + Header + MinSize < Room(h, p)
    PROVE  LET r == Shrink(h, p, newsize)
           IN  /\ HeapOK(r) /\ UsedOf(r) = UsedOf(h)
               /\ \A q \in UsedOf(h) \ {p} : r.mem[q].next = h.mem[q].next
               /\ r.mem[p].next = p + Header + newsize
               /\ r.used_mem = h.used_mem - (h.mem[p].next - r.mem[p].next)
<1> DEFINE n == h.mem[p].next
           new == p + Header + newsize
           c == h.used_mem - (Room(h, p) - newsize)
           s == Split(h, p, newsize)
           u == [s EXCEPT !.used_mem = @ - (Room(h, p) - newsize)]
           r == Shrink(h, p, newsize)
<1>0. p \in BlocksOf(h) /\ p \in Headers(h) /\ h.mem[p].used /\ p # heap_end
  BY DEF UsedOf, BlocksOf
<1>1. /\ p \in Nat /\ n \in Nat /\ Header \in Nat /\ MinSize \in Nat /\ h.used_mem \in Int
  BY <1>0, BlockFacts, Sizes, HeapAssumption DEF HeapOK, Tiled, Shaped
<1>2. p + Header + newsize + Header <= n /\ c \in Int
  BY <1>1, HeapAssumption DEF Room
<1>3. /\ Tiled(s) /\ Headers(s) = Headers(h) \cup {new} /\ new \notin Headers(h)
      /\ s.mem[p].next = new /\ s.mem[new].next = h.mem[p].next /\ ~s.mem[new].used
      /\ new \in BlocksOf(s)
      /\ s.lfree = h.lfree /\ s.used_mem = h.used_mem
      /\ \A q \in Headers(h) : s.mem[q].used = h.mem[q].used
      /\ \A q \in BlocksOf(h) : q # p => s.mem[q].next = h.mem[q].next
  BY <1>0, <1>2, SplitTiles DEF HeapOK
<1> HIDE DEF s, n, c
<1>4. /\ s \in [mem : {s.mem}, lfree : Nat, used_mem : Int] /\ s.lfree \in Headers(s)
  BY <1>3 DEF Tiled, Shaped
<1>5. u = [mem |-> s.mem, lfree |-> s.lfree, used_mem |-> c]
  BY <1>3, <1>4 DEF c
<1> HIDE DEF u, new
<1>6. u.mem = s.mem /\ u.lfree = s.lfree /\ u.used_mem = c /\ Headers(u) = Headers(s)
  BY <1>5 DEF Headers
<1>7. Tiled(u)
  <2>1. Shaped(u)
    BY <1>2, <1>3, <1>4, <1>5, <1>6 DEF Tiled, Shaped
  <2> QED  BY <2>1, <1>3, <1>6 DEF Tiled, BlocksOf
<1>8. LfreeOK(u)
  <2>1. h.lfree \in Headers(h) /\ LfreeOK(h)
    BY DEF HeapOK, Tiled, Shaped
  <2> QED  BY <2>1, <1>3, <1>6 DEF LfreeOK
<1>9. ASSUME NEW q \in BlocksOf(u), q # new, u.mem[q].next # new
      PROVE  u.mem[q].used \/ u.mem[u.mem[q].next].used
  <2>1. q \in BlocksOf(h) /\ q \in Headers(h) /\ q # p
    BY <1>9, <1>3, <1>6 DEF BlocksOf
  <2>2. h.mem[q].next \in Headers(h) /\ (h.mem[q].used \/ h.mem[h.mem[q].next].used)
    BY <2>1, BlockFacts DEF HeapOK, Apart
  <2> QED  BY <2>1, <2>2, <1>3, <1>6
<1>10. new \in BlocksOf(u) /\ ~u.mem[new].used
  BY <1>3, <1>6 DEF BlocksOf
<1>11. r = plug_holes(u, new)
  BY DEF Shrink, u, s, new
<1> HIDE DEF r
<1>12. HeapOK(r) /\ SameUsed(u, r) /\ r.used_mem = u.used_mem
  BY <1>7, <1>8, <1>9, <1>10, <1>11, PlugHoles
<1>13. UsedOf(u) = UsedOf(h)
  <2>1. ASSUME NEW q \in UsedOf(u) PROVE q \in UsedOf(h)
    BY <1>3, <1>6 DEF UsedOf, BlocksOf
  <2>2. ASSUME NEW q \in UsedOf(h) PROVE q \in UsedOf(u)
    BY <1>3, <1>6 DEF UsedOf, BlocksOf
  <2> QED  BY <2>1, <2>2
<1>14. ASSUME NEW q \in UsedOf(h) \ {p} PROVE r.mem[q].next = h.mem[q].next
  <2>1. q \in BlocksOf(h) /\ q \in UsedOf(u)
    BY <1>13 DEF UsedOf
  <2> QED  BY <2>1, <1>3, <1>6, <1>12 DEF SameUsed
<1>15. UsedOf(r) = UsedOf(h) /\ r.mem[p].next = new
  BY <1>3, <1>6, <1>12, <1>13 DEF SameUsed
<1>16. r.used_mem = h.used_mem - (h.mem[p].next - r.mem[p].next)
  BY <1>1, <1>6, <1>12, <1>15 DEF c, n, new, Room
<1> QED  BY <1>12, <1>14, <1>15, <1>16 DEF r, new

-----------------------------------------------------------------------------
(* The memory in used blocks.                                               *)

Extents(h) == [p \in UsedOf(h) |-> h.mem[p].next - p]
UsedMemory(h) == SumFunctionOnSet(Extents(h), UsedOf(h))
OtherMemory(h, p) == SumFunctionOnSet(Extents(h), UsedOf(h) \ {p})

LEMMA ExtentFacts ==
    ASSUME NEW h, Tiled(h)
    PROVE  /\ IsFiniteSet(UsedOf(h)) /\ UsedMemory(h) \in Int
           /\ \A p \in UsedOf(h) : Extents(h)[p] \in Int /\ Extents(h)[p] = h.mem[p].next - p
<1>1. IsFiniteSet(0..heap_end)
  BY Sizes, FS_Interval
<1>2. UsedOf(h) \subseteq 0..heap_end
  BY DEF UsedOf, BlocksOf, Tiled, Shaped
<1>3. IsFiniteSet(UsedOf(h))
  BY <1>1, <1>2, FS_Subset, Zenon
<1>4. ASSUME NEW p \in UsedOf(h) PROVE Extents(h)[p] \in Int /\ Extents(h)[p] = h.mem[p].next - p
  <2>1. p \in BlocksOf(h)
    BY DEF UsedOf
  <2> QED  BY <2>1, BlockFacts DEF Extents
<1>5. UsedMemory(h) \in Int
  BY <1>3, <1>4, SumRound DEF UsedMemory
<1> QED  BY <1>3, <1>4, <1>5

\* What one used block adds.
LEMMA OneBlock ==
    ASSUME NEW h, Tiled(h), NEW p \in UsedOf(h)
    PROVE  UsedMemory(h) = (h.mem[p].next - p) + OtherMemory(h, p) /\ OtherMemory(h, p) \in Int
<1>1. UsedMemory(h) = Extents(h)[p] + OtherMemory(h, p)
  BY ExtentFacts, SumRemove DEF UsedMemory, OtherMemory
<1>2. IsFiniteSet(UsedOf(h) \ {p}) /\ \A q \in UsedOf(h) \ {p} : Extents(h)[q] \in Int
  BY ExtentFacts, FS_Subset
<1>3. OtherMemory(h, p) \in Int
  BY <1>2, SumRound DEF OtherMemory
<1> QED  BY <1>1, <1>3, ExtentFacts

\* The other blocks count the same in two heaps that agree on them.
LEMMA OthersSame ==
    ASSUME NEW h, Tiled(h), NEW r, Tiled(r), NEW p,
           UsedOf(r) \ {p} = UsedOf(h) \ {p},
           \A q \in UsedOf(h) \ {p} : r.mem[q].next = h.mem[q].next
    PROVE  OtherMemory(r, p) = OtherMemory(h, p)
<1> DEFINE S == UsedOf(h) \ {p}
<1>1. IsFiniteSet(S)
  BY ExtentFacts, FS_Subset
<1>2. ASSUME NEW q \in S PROVE Extents(h)[q] \in Int /\ Extents(r)[q] = Extents(h)[q]
  <2>1. q \in UsedOf(h) /\ q \in UsedOf(r)
    OBVIOUS
  <2> QED  BY <2>1, ExtentFacts
<1> HIDE DEF S
<1>3. SumFunctionOnSet(Extents(h), S) = SumFunctionOnSet(Extents(r), S)
  BY <1>1, <1>2, SumCongruence
<1> QED  BY <1>3 DEF S, OtherMemory

\* A block that is not used adds nothing.
LEMMA NoBlock ==
    ASSUME NEW h, NEW p, p \notin UsedOf(h)
    PROVE  OtherMemory(h, p) = UsedMemory(h)
<1>1. UsedOf(h) \ {p} = UsedOf(h)
  OBVIOUS
<1> QED  BY <1>1 DEF OtherMemory, UsedMemory

-----------------------------------------------------------------------------
(* What the threads hold.                                                   *)

Holding == [at : Nat, size : Nat]

\* Every holding is a used block that is large enough, no two holdings share a
\* block, and every used block is held.
HeldOK(h, d) ==
    /\ \A t \in Thread : \A b \in d[t] : b.at \in UsedOf(h) /\ h.mem[b.at].next >= b.at + Header + b.size
    /\ \A t, u \in Thread : \A b \in d[t], c \in d[u] : b.at = c.at => t = u /\ b = c
    /\ \A p \in UsedOf(h) : \E t \in Thread : \E b \in d[t] : b.at = p

\* r keeps the used blocks of h other than p as they are.
SameElsewhere(h, p, r) ==
    /\ UsedOf(r) \ {p} = UsedOf(h) \ {p}
    /\ \A q \in UsedOf(h) \ {p} : r.mem[q].next = h.mem[q].next

\* A thread gets a block that was not used.
LEMMA HoldMore ==
    ASSUME NEW h, NEW d \in [Thread -> SUBSET Holding], HeldOK(h, d),
           NEW t \in Thread, NEW p \in Nat, NEW size \in Nat, p \notin UsedOf(h),
           NEW r, SameElsewhere(h, p, r), p \in UsedOf(r), r.mem[p].next >= p + Header + size
    PROVE  LET e == [d EXCEPT ![t] = @ \cup {[at |-> p, size |-> size]}]
           IN  HeldOK(r, e) /\ e \in [Thread -> SUBSET Holding]
<1> DEFINE b == [at |-> p, size |-> size]
           e == [d EXCEPT ![t] = @ \cup {b}]
<1>1. b \in Holding /\ b.at = p /\ b.size = size
  BY DEF Holding
<1> HIDE DEF b
<1>2. e[t] = d[t] \cup {b} /\ \A u \in Thread : u # t => e[u] = d[u]
  OBVIOUS
<1>3. e \in [Thread -> SUBSET Holding]
  BY <1>1
<1> HIDE DEF e
<1>4. \A u \in Thread : \A c \in e[u] : c \in d[u] \/ (u = t /\ c = b)
  BY <1>2
<1>5. \A u \in Thread : \A c \in d[u] : c.at \in UsedOf(h) /\ c.at # p
  BY DEF HeldOK
<1>6. ASSUME NEW u \in Thread, NEW c \in e[u]
      PROVE  c.at \in UsedOf(r) /\ r.mem[c.at].next >= c.at + Header + c.size
  <2>1. CASE c \in d[u]
    <3>1. c.at \in UsedOf(h) \ {p} /\ h.mem[c.at].next >= c.at + Header + c.size
      BY <2>1, <1>5 DEF HeldOK
    <3> QED  BY <3>1 DEF SameElsewhere
  <2>2. CASE c = b
    BY <2>2, <1>1
  <2> QED  BY <2>1, <2>2, <1>4
<1>7. ASSUME NEW u \in Thread, NEW v \in Thread, NEW x \in e[u], NEW y \in e[v], x.at = y.at
      PROVE  u = v /\ x = y
  <2>1. CASE x \in d[u] /\ y \in d[v]
    BY <2>1, <1>7 DEF HeldOK
  <2>2. CASE u = t /\ x = b
    BY <2>2, <1>1, <1>4, <1>5, <1>7
  <2>3. CASE v = t /\ y = b
    BY <2>3, <1>1, <1>4, <1>5, <1>7
  <2> QED  BY <2>1, <2>2, <2>3, <1>4
<1>8. ASSUME NEW q \in UsedOf(r) PROVE \E u \in Thread : \E c \in e[u] : c.at = q
  <2>1. CASE q = p
    BY <2>1, <1>1, <1>2
  <2>2. CASE q # p
    <3>1. q \in UsedOf(h)
      BY <2>2 DEF SameElsewhere
    <3>2. PICK u \in Thread : \E c \in d[u] : c.at = q
      BY <3>1 DEF HeldOK
    <3> QED  BY <3>2, <1>2
  <2> QED  BY <2>1, <2>2
<1>9. HeldOK(r, e)
  BY <1>6, <1>7, <1>8 DEF HeldOK
<1> QED  BY <1>3, <1>9 DEF e, b

\* A thread gives a block back.
LEMMA HoldLess ==
    ASSUME NEW h, NEW d \in [Thread -> SUBSET Holding], HeldOK(h, d),
           NEW t \in Thread, NEW b \in d[t],
           NEW r, SameElsewhere(h, b.at, r), b.at \notin UsedOf(r)
    PROVE  LET e == [d EXCEPT ![t] = @ \ {b}]
           IN  HeldOK(r, e) /\ e \in [Thread -> SUBSET Holding]
<1> DEFINE e == [d EXCEPT ![t] = @ \ {b}]
<1>1. e[t] = d[t] \ {b} /\ \A u \in Thread : u # t => e[u] = d[u]
  OBVIOUS
<1>2. e \in [Thread -> SUBSET Holding]
  OBVIOUS
<1> HIDE DEF e
<1>3. ASSUME NEW u \in Thread, NEW c \in e[u]
      PROVE  c \in d[u] /\ c.at # b.at
  <2>1. c \in d[u] /\ ~(u = t /\ c = b)
    BY <1>1
  <2> QED  BY <2>1 DEF HeldOK
<1>4. ASSUME NEW u \in Thread, NEW c \in e[u]
      PROVE  c.at \in UsedOf(r) /\ r.mem[c.at].next >= c.at + Header + c.size
  <2>1. c.at \in UsedOf(h) \ {b.at} /\ h.mem[c.at].next >= c.at + Header + c.size
    BY <1>3 DEF HeldOK
  <2> QED  BY <2>1 DEF SameElsewhere
<1>5. ASSUME NEW u \in Thread, NEW v \in Thread, NEW x \in e[u], NEW y \in e[v], x.at = y.at
      PROVE  u = v /\ x = y
  BY <1>3, <1>5 DEF HeldOK
<1>6. ASSUME NEW q \in UsedOf(r) PROVE \E u \in Thread : \E c \in e[u] : c.at = q
  <2>1. q \in UsedOf(h) /\ q # b.at
    BY DEF SameElsewhere
  <2>2. PICK u \in Thread : \E c \in d[u] : c.at = q
    BY <2>1 DEF HeldOK
  <2> QED  BY <2>1, <2>2, <1>1
<1>7. HeldOK(r, e)
  BY <1>4, <1>5, <1>6 DEF HeldOK
<1> QED  BY <1>2, <1>7 DEF e

\* A thread keeps a block for another size.
LEMMA HoldResized ==
    ASSUME NEW h, NEW d \in [Thread -> SUBSET Holding], HeldOK(h, d),
           NEW t \in Thread, NEW b \in d[t], NEW size \in Nat,
           NEW r, SameElsewhere(h, b.at, r), b.at \in UsedOf(r),
           r.mem[b.at].next >= b.at + Header + size
    PROVE  LET e == [d EXCEPT ![t] = (@ \ {b}) \cup {[b EXCEPT !.size = size]}]
           IN  HeldOK(r, e) /\ e \in [Thread -> SUBSET Holding]
<1> DEFINE b2 == [b EXCEPT !.size = size]
           e == [d EXCEPT ![t] = (@ \ {b}) \cup {b2}]
<1>1. b2 \in Holding /\ b2.at = b.at /\ b2.size = size
  BY DEF Holding
<1> HIDE DEF b2
<1>2. e[t] = (d[t] \ {b}) \cup {b2} /\ \A u \in Thread : u # t => e[u] = d[u]
  OBVIOUS
<1>3. e \in [Thread -> SUBSET Holding]
  BY <1>1
<1> HIDE DEF e
<1>4. ASSUME NEW u \in Thread, NEW c \in e[u]
      PROVE  (c \in d[u] /\ c.at # b.at) \/ (u = t /\ c = b2)
  <2>1. (c \in d[u] /\ ~(u = t /\ c = b)) \/ (u = t /\ c = b2)
    BY <1>2
  <2> QED  BY <2>1 DEF HeldOK
<1>5. ASSUME NEW u \in Thread, NEW c \in e[u]
      PROVE  c.at \in UsedOf(r) /\ r.mem[c.at].next >= c.at + Header + c.size
  <2>1. CASE c \in d[u] /\ c.at # b.at
    <3>1. c.at \in UsedOf(h) \ {b.at} /\ h.mem[c.at].next >= c.at + Header + c.size
      BY <2>1 DEF HeldOK
    <3> QED  BY <3>1 DEF SameElsewhere
  <2>2. CASE c = b2
    BY <2>2, <1>1
  <2> QED  BY <2>1, <2>2, <1>4
<1>6. ASSUME NEW u \in Thread, NEW v \in Thread, NEW x \in e[u], NEW y \in e[v], x.at = y.at
      PROVE  u = v /\ x = y
  <2>1. CASE x \in d[u] /\ y \in d[v]
    BY <2>1, <1>6 DEF HeldOK
  <2>2. CASE u = t /\ x = b2
    BY <2>2, <1>1, <1>4, <1>6
  <2>3. CASE v = t /\ y = b2
    BY <2>3, <1>1, <1>4, <1>6
  <2> QED  BY <2>1, <2>2, <2>3, <1>4
<1>7. ASSUME NEW q \in UsedOf(r) PROVE \E u \in Thread : \E c \in e[u] : c.at = q
  <2>1. CASE q = b.at
    BY <2>1, <1>1, <1>2
  <2>2. CASE q # b.at
    <3>1. q \in UsedOf(h)
      BY <2>2 DEF SameElsewhere
    <3>2. PICK u \in Thread : \E c \in d[u] : c.at = q
      BY <3>1 DEF HeldOK
    <3> QED  BY <2>2, <3>2, <1>2
  <2> QED  BY <2>1, <2>2
<1>8. HeldOK(r, e)
  BY <1>5, <1>6, <1>7 DEF HeldOK
<1> QED  BY <1>3, <1>8 DEF e, b2

-----------------------------------------------------------------------------
(* The inductive invariant.                                                 *)

\* A thread in rt_realloc still holds the block that it came with.
CallOK(c, d) ==
    /\ c \in [Thread -> {Idle} \cup [op : {"realloc", "copied"}, from : Holding, newsize : Nat]]
    /\ \A t \in Thread : c[t] # Idle => c[t].from \in d[t]

HeapInv ==
    /\ HeapOK(heap)
    /\ held \in [Thread -> SUBSET Holding] /\ HeldOK(heap, held)
    /\ CallOK(call, held)
    /\ heap.used_mem = UsedMemory(heap)

\* A thread that calls nothing, or that is in rt_realloc.
LEMMA CallFacts ==
    ASSUME NEW c, NEW d, CallOK(c, d), NEW t \in Thread
    PROVE  /\ c[t].op \in {"realloc", "copied"} =>
                  /\ c[t] # Idle /\ c[t].from \in d[t] /\ c[t].newsize \in Nat
                  /\ c[t] \in [op : {"realloc", "copied"}, from : Holding, newsize : Nat]
           /\ c[t] # Idle => c[t].op \in {"realloc", "copied"}
BY DEF CallOK, Idle

\* The threads other than t hold in e what they hold in d, and x may be t's call.
MayCall(d, e, t, x) ==
    /\ \A u \in Thread : u # t => e[u] = d[u]
    /\ x = Idle \/ (/\ x \in [op : {"realloc", "copied"}, from : Holding, newsize : Nat]
                    /\ x.from \in e[t])

\* The other threads keep their calls when t takes a step.
LEMMA CallStep ==
    ASSUME NEW c, NEW d, CallOK(c, d), NEW t \in Thread, NEW x, NEW e, MayCall(d, e, t, x)
    PROVE  CallOK([c EXCEPT ![t] = x], e)
<1> DEFINE f == [c EXCEPT ![t] = x]
<1>1. f \in [Thread -> {Idle} \cup [op : {"realloc", "copied"}, from : Holding, newsize : Nat]]
  BY DEF CallOK, MayCall
<1>2. f[t] = x /\ \A u \in Thread : u # t => f[u] = c[u]
  BY DEF CallOK
<1> HIDE DEF f
<1>3. ASSUME NEW u \in Thread, f[u] # Idle PROVE f[u].from \in e[u]
  BY <1>2, <1>3 DEF CallOK, MayCall
<1>4. CallOK(f, e)
  BY <1>1, <1>3 DEF CallOK
<1> QED  BY <1>4 DEF f

\* A call that is Idle stays.
LEMMA CallKept ==
    ASSUME NEW c, NEW d, CallOK(c, d), NEW t \in Thread, c[t] = Idle, NEW e,
           \A u \in Thread : u # t => e[u] = d[u]
    PROVE  CallOK(c, e)
BY DEF CallOK

\* The memory is counted when one block comes, goes or shrinks.
LEMMA Counted ==
    ASSUME NEW h, Tiled(h), h.used_mem = UsedMemory(h), NEW r, Tiled(r), NEW p,
           SameElsewhere(h, p, r),
           \/ p \notin UsedOf(h) /\ p \in UsedOf(r) /\ r.used_mem = h.used_mem + (r.mem[p].next - p)
           \/ p \in UsedOf(h) /\ p \notin UsedOf(r) /\ r.used_mem = h.used_mem - (h.mem[p].next - p)
           \/ /\ p \in UsedOf(h) /\ p \in UsedOf(r)
              /\ r.used_mem = h.used_mem - (h.mem[p].next - r.mem[p].next)
    PROVE  r.used_mem = UsedMemory(r)
<1> DEFINE o == OtherMemory(h, p)
           a == h.mem[p].next - p
           b == r.mem[p].next - p
<1>1. OtherMemory(r, p) = o
  BY OthersSame DEF SameElsewhere
<1>2. p \in UsedOf(h) => UsedMemory(h) = a + o /\ o \in Int /\ a \in Int
  BY OneBlock, ExtentFacts
<1>3. p \in UsedOf(r) => UsedMemory(r) = b + o /\ o \in Int /\ b \in Int
  BY <1>1, OneBlock, ExtentFacts
<1>4. p \notin UsedOf(h) => UsedMemory(h) = o
  BY NoBlock
<1>5. p \notin UsedOf(r) => UsedMemory(r) = o
  BY <1>1, NoBlock
<1>6. h.used_mem \in Int /\ UsedMemory(h) \in Int
  BY ExtentFacts
<1>7. p \in UsedOf(h) => p \in Nat /\ h.mem[p].next \in Nat
  BY BlockFacts DEF UsedOf
<1>8. p \in UsedOf(r) => p \in Nat /\ r.mem[p].next \in Nat
  BY BlockFacts DEF UsedOf
<1> HIDE DEF o
<1>9. CASE p \notin UsedOf(h) /\ p \in UsedOf(r) /\ r.used_mem = h.used_mem + (r.mem[p].next - p)
  BY <1>9, <1>3, <1>4, <1>6
<1>10. CASE p \in UsedOf(h) /\ p \notin UsedOf(r) /\ r.used_mem = h.used_mem - (h.mem[p].next - p)
  BY <1>10, <1>2, <1>5, <1>6
<1>11. CASE /\ p \in UsedOf(h) /\ p \in UsedOf(r)
            /\ r.used_mem = h.used_mem - (h.mem[p].next - r.mem[p].next)
  BY <1>11, <1>2, <1>3, <1>6, <1>7, <1>8
<1> QED  BY <1>9, <1>10, <1>11

\* rt_malloc searches blocks that it may use.
LEMMA CandidateFacts ==
    ASSUME NEW h, HeapOK(h), NEW size \in Nat, CanMalloc(h, size)
    PROVE  LET p == Min(Candidates(h, AtLeast(size)))
           IN  /\ p \in BlocksOf(h) /\ ~h.mem[p].used
               /\ AtLeast(size) \in Nat /\ AtLeast(size) >= size /\ Room(h, p) >= AtLeast(size)
<1> DEFINE C == Candidates(h, AtLeast(size))
           p == Min(C)
<1>1. C \subseteq Nat /\ C # {}
  BY Sizes DEF CanMalloc, Candidates, HeapOK, Tiled, Shaped
<1>2. p \in C
  BY <1>1, MinProperties, Zenon
<1> HIDE DEF p
<1>3. p \in Headers(h) /\ ~h.mem[p].used /\ Room(h, p) >= AtLeast(size)
  BY <1>2 DEF Candidates
<1>4. p # heap_end
  BY <1>3 DEF HeapOK, Tiled
<1>5. AtLeast(size) \in Nat /\ AtLeast(size) >= size
  BY HeapAssumption DEF AtLeast
<1> QED  BY <1>3, <1>4, <1>5 DEF BlocksOf, p

LEMMA InitHeapInv == ASSUME Init PROVE HeapInv
<1>1. heap = rt_system_heap_init
  BY DEF Init
<1> DEFINE m == [p \in {0, heap_end} |-> [used |-> p = heap_end, next |-> heap_end, prev |-> p]]
<1>2. heap.mem = m /\ heap.lfree = 0 /\ heap.used_mem = 0
      /\ heap = [mem |-> m, lfree |-> 0, used_mem |-> 0]
  BY <1>1 DEF rt_system_heap_init
<1>3. /\ m \in [{0, heap_end} -> [used : BOOLEAN, next : Nat, prev : Nat]]
      /\ m[0].next = heap_end /\ m[0].prev = 0 /\ m[0].used = FALSE
      /\ m[heap_end].used = TRUE
  <2>1. /\ m[0] = [used |-> FALSE, next |-> heap_end, prev |-> 0]
        /\ m[heap_end] = [used |-> TRUE, next |-> heap_end, prev |-> heap_end]
        /\ DOMAIN m = {0, heap_end} /\ m = [p \in {0, heap_end} |-> m[p]]
    <3>1. 0 # heap_end
      BY Sizes
    <3>2. (0 = heap_end) = FALSE /\ (heap_end = heap_end) = TRUE
      BY <3>1, Zenon
    <3> HIDE DEF heap_end
    <3> QED  BY <3>2
  <2> HIDE DEF m
  <2>2. m[0] \in [used : BOOLEAN, next : Nat, prev : Nat]
    BY <2>1, Sizes
  <2>3. m[heap_end] \in [used : BOOLEAN, next : Nat, prev : Nat]
    BY <2>1, Sizes
  <2>4. \A p \in {0, heap_end} : m[p] \in [used : BOOLEAN, next : Nat, prev : Nat]
    BY <2>2, <2>3
  <2>5. m \in [{0, heap_end} -> [used : BOOLEAN, next : Nat, prev : Nat]]
    BY <2>1, <2>4, Zenon
  <2> QED  BY <2>1, <2>5
<1> HIDE DEF m
<1>4. Headers(heap) = {0, heap_end} /\ BlocksOf(heap) = {0}
  BY <1>2, <1>3, Sizes DEF Headers, BlocksOf
<1>5. Shaped(heap)
  BY <1>2, <1>3, <1>4, Sizes DEF Shaped
<1>6. heap_end >= 0 + Header
  BY Sizes DEF heap_end
<1>7. Tiled(heap)
  BY <1>2, <1>3, <1>4, <1>5, <1>6, Sizes DEF Tiled
<1>8. HeapOK(heap)
  BY <1>2, <1>3, <1>4, <1>7 DEF HeapOK, Apart, LfreeOK
<1>9. UsedOf(heap) = {}
  BY <1>2, <1>3, <1>4 DEF UsedOf
<1>10. held \in [Thread -> SUBSET Holding] /\ HeldOK(heap, held)
  BY <1>9 DEF Init, HeldOK
<1>11. CallOK(call, held)
  BY DEF Init, CallOK
<1>12. UsedMemory(heap) = 0
  <2>1. IsFiniteSet({})
    BY FS_EmptySet
  <2> QED  BY <1>9, <2>1, SumRound DEF UsedMemory
<1> QED  BY <1>2, <1>8, <1>10, <1>11, <1>12 DEF HeapInv

\* rt_malloc, for a thread that then goes on as after.
LEMMA MallocStep ==
    ASSUME HeapInv, NEW t \in Thread, NEW size \in Nat, NEW after, Malloc(t, size, after),
           after = Idle \/ (/\ after \in [op : {"realloc", "copied"}, from : Holding, newsize : Nat]
                            /\ after.from \in held[t])
    PROVE  HeapInv'
<1>1. CASE CanMalloc(heap, size)
  <2> DEFINE p == Min(Candidates(heap, AtLeast(size)))
             b == [at |-> p, size |-> size]
             e == [held EXCEPT ![t] = @ \cup {b}]
  <2>1. heap' = UseBlock(heap, p, AtLeast(size)) /\ held' = e /\ call' = [call EXCEPT ![t] = after]
    BY <1>1 DEF Malloc
  <2>2. /\ p \in BlocksOf(heap) /\ ~heap.mem[p].used
        /\ AtLeast(size) \in Nat /\ AtLeast(size) >= size /\ Room(heap, p) >= AtLeast(size)
    BY <1>1, CandidateFacts DEF HeapInv
  <2> HIDE DEF p
  <2>3. /\ HeapOK(heap') /\ UsedOf(heap') = UsedOf(heap) \cup {p}
        /\ \A q \in UsedOf(heap) : heap'.mem[q].next = heap.mem[q].next
        /\ heap'.mem[p].next >= p + Header + AtLeast(size)
        /\ heap'.used_mem = heap.used_mem + (heap'.mem[p].next - p)
    BY <2>1, <2>2, UseBlockOK DEF HeapInv
  <2>4. p \notin UsedOf(heap) /\ p \in UsedOf(heap') /\ SameElsewhere(heap, p, heap')
    BY <2>2, <2>3 DEF UsedOf, SameElsewhere
  <2>5. heap'.mem[p].next >= p + Header + size /\ p \in Nat
    <3>1. p \in Nat /\ heap'.mem[p].next \in Nat
      <4>1. p \in BlocksOf(heap')
        BY <2>4 DEF UsedOf
      <4> QED  BY <4>1, <2>3, BlockFacts DEF HeapOK
    <3> QED  BY <3>1, <2>2, <2>3, Sizes
  <2>6. held' \in [Thread -> SUBSET Holding] /\ HeldOK(heap', held')
    BY <2>1, <2>4, <2>5, HoldMore DEF HeapInv
  <2>7. /\ \A u \in Thread : u # t => held'[u] = held[u]
        /\ held[t] \subseteq held'[t]
    BY <2>1 DEF HeapInv
  <2>8. CallOK(call', held')
    <3>1. MayCall(held, held', t, after)
      BY <2>7 DEF MayCall
    <3>2. CallOK(call, held)
      BY DEF HeapInv
    <3>3. CallOK([call EXCEPT ![t] = after], held')
      BY <3>1, <3>2, CallStep, Zenon
    <3> QED  BY <3>3, <2>1
  <2>9. heap'.used_mem = UsedMemory(heap')
    BY <2>3, <2>4, Counted DEF HeapInv, HeapOK
  <2> QED  BY <2>3, <2>6, <2>8, <2>9 DEF HeapInv
<1>2. CASE ~CanMalloc(heap, size)
  <2>1. heap' = heap /\ held' = held /\ call' = [call EXCEPT ![t] = Idle]
    BY <1>2 DEF Malloc
  <2>2. CallOK(call', held)
    BY <2>1, CallStep DEF HeapInv, MayCall
  <2> QED  BY <2>1, <2>2 DEF HeapInv
<1> QED  BY <1>1, <1>2

\* rt_free's effect on the heap and on what t holds.
LEMMA DropStep ==
    ASSUME HeapInv, NEW t \in Thread, NEW b \in held[t], Drop(t, b)
    PROVE  /\ HeapOK(heap') /\ held' \in [Thread -> SUBSET Holding] /\ HeldOK(heap', held')
           /\ heap'.used_mem = UsedMemory(heap')
           /\ \A u \in Thread : u # t => held'[u] = held[u]
<1>1. b.at \in UsedOf(heap)
  BY DEF HeapInv, HeldOK
<1>2. heap' = Release(heap, b.at) /\ held' = [held EXCEPT ![t] = @ \ {b}]
  BY DEF Drop
<1>3. /\ HeapOK(heap') /\ UsedOf(heap') = UsedOf(heap) \ {b.at}
      /\ \A q \in UsedOf(heap) \ {b.at} : heap'.mem[q].next = heap.mem[q].next
      /\ heap'.used_mem = heap.used_mem - (heap.mem[b.at].next - b.at)
  BY <1>1, <1>2, ReleaseOK DEF HeapInv
<1>4. SameElsewhere(heap, b.at, heap') /\ b.at \notin UsedOf(heap')
  BY <1>3 DEF SameElsewhere
<1>5. held' \in [Thread -> SUBSET Holding] /\ HeldOK(heap', held')
  BY <1>2, <1>4, HoldLess DEF HeapInv
<1>6. heap'.used_mem = UsedMemory(heap')
  BY <1>1, <1>3, <1>4, Counted DEF HeapInv, HeapOK
<1>7. \A u \in Thread : u # t => held'[u] = held[u]
  BY <1>2 DEF HeapInv
<1> QED  BY <1>3, <1>5, <1>6, <1>7

LEMMA ReallocStep ==
    ASSUME HeapInv, NEW t \in Thread, NEW b \in held[t], NEW newsize \in Nat,
           rt_realloc(t, b, newsize)
    PROVE  HeapInv'
<1> DEFINE b2 == [b EXCEPT !.size = newsize]
           e == [held EXCEPT ![t] = (@ \ {b}) \cup {b2}]
<1>0. /\ b.at \in UsedOf(heap) /\ b \in Holding /\ call[t] = Idle /\ b.at \in Nat
      /\ heap.mem[b.at].next \in Nat
  <2>1. b.at \in UsedOf(heap) /\ call[t] = Idle /\ b \in Holding
    BY DEF HeapInv, HeldOK, rt_realloc
  <2>2. b.at \in BlocksOf(heap)
    BY <2>1 DEF UsedOf
  <2> QED  BY <2>1, <2>2, BlockFacts DEF HeapInv, HeapOK
<1>1. CASE Room(heap, b.at) = newsize /\ held' = e /\ UNCHANGED <<heap, call>>
  <2>1. SameElsewhere(heap, b.at, heap) /\ heap.mem[b.at].next >= b.at + Header + newsize
    BY <1>0, <1>1, Sizes DEF SameElsewhere, Room
  <2>2. held' \in [Thread -> SUBSET Holding] /\ HeldOK(heap, held')
    BY <1>0, <1>1, <2>1, HoldResized DEF HeapInv
  <2>3. \A u \in Thread : u # t => held'[u] = held[u]
    BY <1>1 DEF HeapInv
  <2>4. CallOK(call, held')
    BY <1>0, <2>3, CallKept DEF HeapInv
  <2> QED  BY <1>1, <2>2, <2>4 DEF HeapInv
<1>2. CASE /\ newsize + Header + MinSize < Room(heap, b.at)
           /\ heap' = Shrink(heap, b.at, newsize) /\ held' = e /\ UNCHANGED call
  <2>1. /\ HeapOK(heap') /\ UsedOf(heap') = UsedOf(heap)
        /\ \A q \in UsedOf(heap) \ {b.at} : heap'.mem[q].next = heap.mem[q].next
        /\ heap'.mem[b.at].next = b.at + Header + newsize
        /\ heap'.used_mem = heap.used_mem - (heap.mem[b.at].next - heap'.mem[b.at].next)
    BY <1>0, <1>2, ShrinkOK DEF HeapInv
  <2>2. /\ SameElsewhere(heap, b.at, heap') /\ b.at \in UsedOf(heap')
        /\ heap'.mem[b.at].next >= b.at + Header + newsize
    BY <1>0, <2>1, Sizes DEF SameElsewhere
  <2>3. held' \in [Thread -> SUBSET Holding] /\ HeldOK(heap', held')
    BY <1>0, <1>2, <2>2, HoldResized DEF HeapInv
  <2>4. \A u \in Thread : u # t => held'[u] = held[u]
    BY <1>2 DEF HeapInv
  <2>5. CallOK(call', held')
    BY <1>0, <1>2, <2>4, CallKept DEF HeapInv
  <2>6. heap'.used_mem = UsedMemory(heap')
    BY <1>0, <2>1, <2>2, Counted DEF HeapInv, HeapOK
  <2> QED  BY <2>1, <2>3, <2>5, <2>6 DEF HeapInv
<1>3. CASE /\ call' = [call EXCEPT ![t] = [op |-> "realloc", from |-> b, newsize |-> newsize]]
           /\ UNCHANGED <<heap, held>>
  <2> DEFINE x == [op |-> "realloc", from |-> b, newsize |-> newsize]
  <2>1. x \in [op : {"realloc", "copied"}, from : Holding, newsize : Nat] /\ x.from \in held[t]
    BY <1>0
  <2> HIDE DEF x
  <2>2. CallOK([call EXCEPT ![t] = x], held)
    BY <2>1, CallStep DEF HeapInv, MayCall
  <2> QED  BY <1>3, <2>2 DEF HeapInv, x
<1> QED  BY <1>1, <1>2, <1>3 DEF rt_realloc

LEMMA NextHeapInv == ASSUME HeapInv, Next PROVE HeapInv'
<1>1. PICK t \in Thread :
        \/ \E size \in Request : rt_malloc(t, size) \/ rt_calloc(t, 2, size)
        \/ \E b \in held[t] : rt_free(t, b)
        \/ \E b \in held[t], newsize \in Request : rt_realloc(t, b, newsize)
        \/ ReallocMalloc(t)
        \/ ReallocFree(t)
  BY DEF Next
<1>2. ASSUME NEW size \in Request, rt_malloc(t, size) PROVE HeapInv'
  <2>1. size \in Nat /\ Malloc(t, size, Idle)
    BY <1>2, HeapAssumption DEF rt_malloc
  <2> QED  BY <2>1, MallocStep
<1>3. ASSUME NEW size \in Request, rt_calloc(t, 2, size) PROVE HeapInv'
  <2>1. 2 * size \in Nat /\ Malloc(t, 2 * size, Idle)
    BY <1>3, HeapAssumption DEF rt_calloc
  <2> QED  BY <2>1, MallocStep
<1>4. ASSUME NEW b \in held[t], rt_free(t, b) PROVE HeapInv'
  <2>1. call[t] = Idle /\ Drop(t, b) /\ call' = call
    BY <1>4 DEF rt_free
  <2>2. /\ HeapOK(heap') /\ held' \in [Thread -> SUBSET Holding] /\ HeldOK(heap', held')
        /\ heap'.used_mem = UsedMemory(heap')
        /\ \A u \in Thread : u # t => held'[u] = held[u]
    BY <2>1, DropStep
  <2>3. CallOK(call', held')
    BY <2>1, <2>2, CallKept DEF HeapInv
  <2> QED  BY <2>2, <2>3 DEF HeapInv
<1>5. ASSUME NEW b \in held[t], NEW newsize \in Request, rt_realloc(t, b, newsize) PROVE HeapInv'
  BY <1>5, HeapAssumption, ReallocStep
<1>6. ASSUME ReallocMalloc(t) PROVE HeapInv'
  <2> DEFINE x == [call[t] EXCEPT !.op = "copied"]
  <2>1. call[t].op = "realloc" /\ Malloc(t, call[t].newsize, x)
    BY <1>6 DEF ReallocMalloc
  <2>2. /\ call[t].from \in held[t] /\ call[t].newsize \in Nat
        /\ call[t] \in [op : {"realloc", "copied"}, from : Holding, newsize : Nat]
    BY <2>1, CallFacts DEF HeapInv
  <2>3. x \in [op : {"realloc", "copied"}, from : Holding, newsize : Nat] /\ x.from = call[t].from
    BY <2>2
  <2> HIDE DEF x
  <2> QED  BY <2>1, <2>2, <2>3, MallocStep
<1>7. ASSUME ReallocFree(t) PROVE HeapInv'
  <2>1. call[t].op = "copied" /\ Drop(t, call[t].from) /\ call' = [call EXCEPT ![t] = Idle]
    BY <1>7 DEF ReallocFree
  <2>2. call[t].from \in held[t]
    BY <2>1, CallFacts DEF HeapInv
  <2>3. /\ HeapOK(heap') /\ held' \in [Thread -> SUBSET Holding] /\ HeldOK(heap', held')
        /\ heap'.used_mem = UsedMemory(heap')
        /\ \A u \in Thread : u # t => held'[u] = held[u]
    BY <2>1, <2>2, DropStep
  <2>4. CallOK(call', held')
    <3>1. CallOK(call, held)
      BY DEF HeapInv
    <3>2. MayCall(held, held', t, Idle)
      BY <2>3 DEF MayCall
    <3>3. CallOK([call EXCEPT ![t] = Idle], held')
      BY <3>1, <3>2, CallStep, Zenon
    <3> QED  BY <3>3, <2>1
  <2> QED  BY <2>3, <2>4 DEF HeapInv
<1> QED  BY <1>1, <1>2, <1>3, <1>4, <1>5, <1>6, <1>7

\* The invariant says what the runs check.
LEMMA HeapInvSound == ASSUME HeapInv PROVE HeapSound
<1>0. Blocks = BlocksOf(heap) /\ Tiled(heap)
  BY DEF Blocks, BlocksOf, HeapInv, HeapOK
<1>1. HeapTiles
  <2>1. ASSUME NEW p \in Blocks
        PROVE  LET n == heap.mem[p].next
               IN  /\ n \in Headers(heap) /\ n >= p + Header
                   /\ \A q \in Headers(heap) : q <= p \/ q >= n
                   /\ n # heap_end => heap.mem[n].prev = p
                   /\ heap.mem[p].used \/ heap.mem[n].used
    BY <1>0 DEF HeapInv, HeapOK, Tiled, Apart
  <2>2. /\ {0, heap_end} \subseteq Headers(heap) /\ Headers(heap) \subseteq 0..heap_end
        /\ heap.mem[heap_end].used /\ heap.mem[0].prev = 0
        /\ heap.lfree \in Headers(heap) /\ (heap.lfree = heap_end \/ ~heap.mem[heap.lfree].used)
    BY DEF HeapInv, HeapOK, LfreeOK, Tiled, Shaped
  <2> QED  BY <2>1, <2>2 DEF HeapTiles
<1>2. HeldIsAllocated
  <2>1. ASSUME NEW t \in Thread, NEW b \in held[t] PROVE b.at \in Blocks /\ Room(heap, b.at) >= b.size
    <3>1. b.at \in UsedOf(heap) /\ heap.mem[b.at].next >= b.at + Header + b.size
          /\ b \in Holding
      BY DEF HeapInv, HeldOK
    <3>2. b.at \in BlocksOf(heap)
      BY <3>1 DEF UsedOf
    <3>3. heap.mem[b.at].next \in Nat /\ b.at \in Nat /\ b.size \in Nat
      BY <1>0, <3>1, <3>2, BlockFacts DEF Holding
    <3> QED  BY <1>0, <3>1, <3>2, <3>3, Sizes DEF Room
  <2>2. \A t, u \in Thread : \A b \in held[t], c \in held[u] : b.at = c.at => t = u /\ b = c
    BY DEF HeapInv, HeldOK
  <2>3. UsedOf(heap) = {b.at : b \in UNION {held[t] : t \in Thread}}
    <3>1. ASSUME NEW p \in UsedOf(heap) PROVE p \in {b.at : b \in UNION {held[t] : t \in Thread}}
      <4>1. PICK t \in Thread : \E b \in held[t] : b.at = p
        BY DEF HeapInv, HeldOK
      <4>2. PICK b \in held[t] : b.at = p
        BY <4>1
      <4>3. b \in UNION {held[u] : u \in Thread}
        OBVIOUS
      <4> QED  BY <4>2, <4>3
    <3>2. ASSUME NEW p \in {b.at : b \in UNION {held[t] : t \in Thread}} PROVE p \in UsedOf(heap)
      BY DEF HeapInv, HeldOK
    <3> QED  BY <3>1, <3>2
  <2>4. {p \in Blocks : heap.mem[p].used} = UsedOf(heap)
    BY <1>0 DEF UsedOf
  <2> QED  BY <2>1, <2>2, <2>3, <2>4 DEF HeldIsAllocated
<1> QED  BY <1>1, <1>2 DEF HeapSound

LEMMA HeapInvAccounted == ASSUME HeapInv PROVE MemoryAccounted
<1>1. {q \in Blocks : heap.mem[q].used} = UsedOf(heap)
  BY DEF Blocks, UsedOf, BlocksOf
<1>2. SumFunction(Extents(heap)) = UsedMemory(heap)
  <2>1. DOMAIN Extents(heap) = UsedOf(heap)
    BY DEF Extents
  <2> QED  BY <2>1 DEF SumFunction, UsedMemory
<1>3. [p \in {q \in Blocks : heap.mem[q].used} |-> heap.mem[p].next - p] = Extents(heap)
  BY <1>1 DEF Extents
<1> QED  BY <1>2, <1>3 DEF MemoryAccounted, HeapInv

\* The invariant that the heap's functions keep, in every order in which threads
\* call them and whatever other threads do in the middle of a rt_realloc.
THEOREM HeapInvariance == Spec => []HeapInv
<1>1. Init => HeapInv
  BY InitHeapInv
<1>2. HeapInv /\ [Next]_vars => HeapInv'
  <2>1. ASSUME HeapInv, UNCHANGED vars PROVE HeapInv'
    BY <2>1 DEF HeapInv, vars
  <2> QED  BY <2>1, NextHeapInv
<1> QED  BY <1>1, <1>2, PTL DEF Spec

\* The chain of headers is whole after every call of mem.c (plug_holes leaves no
\* two free neighbours and no stale lfree), and a block is used exactly when one
\* caller holds it.
THEOREM HeapSoundInvariance == Spec => []HeapSound
<1>1. HeapInv => HeapSound
  BY HeapInvSound
<1> QED  BY <1>1, HeapInvariance, PTL

\* used_mem, which rt_malloc, rt_free and rt_realloc each count for themselves, is
\* the memory in the used blocks.
THEOREM MemoryAccountedInvariance == Spec => []MemoryAccounted
<1>1. HeapInv => MemoryAccounted
  BY HeapInvAccounted
<1> QED  BY <1>1, HeapInvariance, PTL

=============================================================================
