-------------------------------- MODULE Heap --------------------------------
(***************************************************************************)
(* The small memory heap (mem.c).  The heap is a chain of headers at word  *)
(* offsets; a header says whether its block is used and where the next and *)
(* the previous header are.  heap_end closes the chain and is always used. *)
(* lfree is where a search starts.                                         *)
(*                                                                         *)
(* Every function works between rt_sem_take and rt_sem_release of heap_sem *)
(* and is one step here; rt_realloc gives the semaphore back before it     *)
(* calls rt_malloc and rt_free, and other threads run in between.  Sizes   *)
(* are in words, so RT_ALIGN has been applied.                             *)
(***************************************************************************)
EXTENDS Integers, FiniteSets, FiniteSetsExt, Functions

CONSTANTS
    Thread,
    MemSize,    \* mem_size_aligned, in words
    Header,     \* SIZEOF_STRUCT_MEM
    MinSize,    \* MIN_SIZE_ALIGNED
    Request     \* the sizes that callers ask for

ASSUME HeapAssumption ==
    /\ Header \in Nat \ {0} /\ MinSize \in Nat \ {0}
    /\ MemSize \in Nat /\ MemSize > MinSize
    /\ Request \subseteq Nat

VARIABLES
    heap,       \* the headers, lfree and used_mem
    held,       \* [thread -> what it was given and has not returned]
    call        \* [thread -> where it is in rt_realloc]

vars == <<heap, held, call>>

heap_end == MemSize + Header

Idle == [op |-> "idle"]

\* rt_system_heap_init: one free block and the end.
rt_system_heap_init ==
    [mem |-> [p \in {0, heap_end} |-> [used |-> p = heap_end, next |-> heap_end, prev |-> p]],
     lfree |-> 0, used_mem |-> 0]

Init ==
    /\ heap = rt_system_heap_init
    /\ held = [t \in Thread |-> {}]
    /\ call = [t \in Thread |-> Idle]

-----------------------------------------------------------------------------

Headers(h) == DOMAIN h.mem

\* The user data size of the block at p.
Room(h, p) == h.mem[p].next - (p + Header)

\* The block at p takes in the block behind it.
Merge(h, p) ==
    LET n == h.mem[p].next
        keep == Headers(h) \ {n}
    IN  [h EXCEPT !.mem = [q \in keep |->
                              CASE q = p -> [h.mem[p] EXCEPT !.next = h.mem[n].next]
                                [] q = h.mem[n].next /\ q # p -> [h.mem[q] EXCEPT !.prev = p]
                                [] OTHER -> h.mem[q]],
                  !.lfree = IF @ = n THEN p ELSE @]

PlugForward(h, p) ==
    LET n == h.mem[p].next
    IN  IF p # n /\ ~h.mem[n].used /\ n # heap_end THEN Merge(h, p) ELSE h

PlugBackward(h, p) ==
    LET before == h.mem[p].prev
    IN  IF before # p /\ ~h.mem[before].used THEN Merge(h, before) ELSE h

plug_holes(h, p) == PlugBackward(PlugForward(h, p), p)

\* Slip: the header behind the new one keeps its prev.
Split_PrevKept(h, p, size) ==
    LET new == p + Header + size
    IN  [h EXCEPT !.mem = [q \in Headers(h) \cup {new} |->
                              CASE q = new -> [used |-> FALSE, next |-> h.mem[p].next, prev |-> p]
                                [] q = p -> [h.mem[p] EXCEPT !.next = new]
                                [] OTHER -> h.mem[q]]]

\* A new free header behind the first size words of the block at p.
Split(h, p, size) ==
    LET new == p + Header + size
        behind == h.mem[p].next
    IN  [h EXCEPT !.mem = [q \in Headers(h) \cup {new} |->
                              CASE q = new -> [used |-> FALSE, next |-> behind, prev |-> p]
                                [] q = p -> [h.mem[p] EXCEPT !.next = new]
                                [] q = behind /\ q # heap_end -> [h.mem[q] EXCEPT !.prev = new]
                                [] OTHER -> h.mem[q]]]

\* The blocks at which the search of rt_malloc stops.
Candidates(h, size) ==
    {p \in Headers(h) : /\ h.lfree <= p /\ p < MemSize - size
                        /\ ~h.mem[p].used /\ Room(h, p) >= size}

\* lfree moves on from a block that was just used.
FindLowest(h) ==
    [h EXCEPT !.lfree = Min({p \in Headers(h) : p >= @ /\ (~h.mem[p].used \/ p = heap_end)})]

\* What rt_malloc does with the block at p.
UseBlock(h, p, size) ==
    LET s == IF Room(h, p) >= size + Header + MinSize THEN Split(h, p, size) ELSE h
        u == [s EXCEPT !.mem[p].used = TRUE, !.used_mem = @ + s.mem[p].next - p]
    IN  IF p = h.lfree THEN FindLowest(u) ELSE u

\* The size that rt_malloc looks for.
AtLeast(size) == IF size < MinSize THEN MinSize ELSE size

CanMalloc(h, size) ==
    0 < size /\ size <= MemSize /\ Candidates(h, AtLeast(size)) # {}

\* The body of rt_free.
Release(h, p) ==
    plug_holes([h EXCEPT !.mem[p].used = FALSE,
                         !.lfree = IF p < @ THEN p ELSE @,
                         !.used_mem = @ - (h.mem[p].next - p)], p)

-----------------------------------------------------------------------------

\* rt_malloc by t, which ends with the block in its hands or with RT_NULL.
Malloc(t, size, then) ==
    \/ /\ CanMalloc(heap, size)
       /\ LET p == Min(Candidates(heap, AtLeast(size)))
          IN  /\ heap' = UseBlock(heap, p, AtLeast(size))
              /\ held' = [held EXCEPT ![t] = @ \cup {[at |-> p, size |-> size]}]
       /\ call' = [call EXCEPT ![t] = then]
    \/ /\ ~CanMalloc(heap, size)
       /\ call' = [call EXCEPT ![t] = Idle]
       /\ UNCHANGED <<heap, held>>

rt_malloc(t, size) == call[t] = Idle /\ Malloc(t, size, Idle)

rt_calloc(t, count, size) == call[t] = Idle /\ Malloc(t, count * size, Idle)

Drop(t, b) ==
    /\ heap' = Release(heap, b.at)
    /\ held' = [held EXCEPT ![t] = @ \ {b}]

rt_free(t, b) == call[t] = Idle /\ Drop(t, b) /\ UNCHANGED call

\* Slip: used_mem keeps the part that was cut off.
Shrink_NotCounted(h, p, newsize) ==
    plug_holes(Split(h, p, newsize), p + Header + newsize)

\* The block at p keeps newsize words.
Shrink(h, p, newsize) ==
    plug_holes([Split(h, p, newsize) EXCEPT !.used_mem = @ - (Room(h, p) - newsize)],
               p + Header + newsize)

\* rt_realloc up to the release of the semaphore.
rt_realloc(t, b, newsize) ==
    LET size == Room(heap, b.at)
        b2   == [b EXCEPT !.size = newsize]
    IN  /\ call[t] = Idle
        /\ newsize <= MemSize
        /\ \/ /\ size = newsize
              /\ held' = [held EXCEPT ![t] = (@ \ {b}) \cup {b2}]
              /\ UNCHANGED <<heap, call>>
           \/ /\ newsize + Header + MinSize < size
              /\ heap' = Shrink(heap, b.at, newsize)
              /\ held' = [held EXCEPT ![t] = (@ \ {b}) \cup {b2}]
              /\ UNCHANGED call
           \/ /\ size # newsize /\ newsize + Header + MinSize >= size
              /\ call' = [call EXCEPT ![t] = [op |-> "realloc", from |-> b, newsize |-> newsize]]
              /\ UNCHANGED <<heap, held>>

\* rt_realloc: the new block.  Without one the old one stays.
ReallocMalloc(t) ==
    /\ call[t].op = "realloc"
    /\ Malloc(t, call[t].newsize, [call[t] EXCEPT !.op = "copied"])

\* rt_realloc: the copy is made, the old block goes.
ReallocFree(t) ==
    /\ call[t].op = "copied"
    /\ Drop(t, call[t].from)
    /\ call' = [call EXCEPT ![t] = Idle]

Next ==
    \E t \in Thread :
        \/ \E size \in Request :
              \/ rt_malloc(t, size)
              \/ rt_calloc(t, 2, size)
        \/ \E b \in held[t] : rt_free(t, b)
        \/ \E b \in held[t], newsize \in Request : rt_realloc(t, b, newsize)
        \/ ReallocMalloc(t)
        \/ ReallocFree(t)

Spec == Init /\ [][Next]_vars

-----------------------------------------------------------------------------

Blocks == Headers(heap) \ {heap_end}

\* The headers tile the heap: each block ends where the next header is, the next
\* header knows it (heap_end does not: rt_malloc leaves its prev alone), no header
\* lies inside a block, and free blocks have been merged.  lfree is a free block
\* or heap_end, never a header that a merge swallowed.
HeapTiles ==
    /\ {0, heap_end} \subseteq Headers(heap) /\ Headers(heap) \subseteq 0..heap_end
    /\ heap.mem[heap_end].used
    /\ \A p \in Blocks :
          LET n == heap.mem[p].next
          IN  /\ n \in Headers(heap) /\ n >= p + Header
              /\ \A q \in Headers(heap) : q <= p \/ q >= n
              /\ n # heap_end => heap.mem[n].prev = p
              /\ heap.mem[p].used \/ heap.mem[n].used
    /\ heap.mem[0].prev = 0
    /\ heap.lfree \in Headers(heap)
    /\ heap.lfree = heap_end \/ ~heap.mem[heap.lfree].used

\* A block is used exactly when one caller holds it, through a rt_realloc with
\* other threads in the middle of it too, and is as large as it asked for.
HeldIsAllocated ==
    /\ \A t \in Thread : \A b \in held[t] : b.at \in Blocks /\ Room(heap, b.at) >= b.size
    /\ \A t, u \in Thread : \A b \in held[t], c \in held[u] :
          b.at = c.at => t = u /\ b = c
    /\ {p \in Blocks : heap.mem[p].used} = {b.at : b \in UNION {held[t] : t \in Thread}}

\* The chain of headers is whole and says who has which block.
HeapSound == HeapTiles /\ HeldIsAllocated

\* used_mem is the memory in used blocks, headers included: what list_mem shows.
MemoryAccounted ==
    heap.used_mem =
        SumFunction([p \in {q \in Blocks : heap.mem[q].used} |-> heap.mem[p].next - p])

\* "pointer to the lowest free block" (mem.c:127).
LowestFree == \A p \in Blocks : heap.mem[p].used \/ heap.lfree <= p

=============================================================================
