------------------------------ MODULE MemPool ------------------------------
(***************************************************************************)
(* Memory pools (mempool.c): blocks of one size in a free list, threads    *)
(* that wait for a block, the last one first, and a separate count of      *)
(* them, which decides whether rt_mp_free looks at the suspend list.       *)
(***************************************************************************)
EXTENDS IpcWait

CONSTANT Block      \* the blocks

ASSUME BlockAssumption == IsFiniteSet(Block) /\ Block # {}

VARIABLES
    block_list,             \* the free blocks
    block_free_count,
    suspend_thread_count,
    used,                   \* the blocks that callers hold
    wild                    \* rt_mp_free resumed something that is not a thread

mpVars == <<block_list, block_free_count, suspend_thread_count, used, wild>>

MpTypeOK ==
    /\ block_list \in Seq(Block)
    /\ block_free_count \in 0..Cardinality(Block)
    /\ suspend_thread_count \in Nat
    /\ used \subseteq Block
    /\ wild \in BOOLEAN

\* rt_mp_init
MpInit ==
    /\ block_list = SetToSeq(Block)
    /\ block_free_count = Cardinality(Block)
    /\ suspend_thread_count = 0
    /\ used = {}
    /\ wild = FALSE

-----------------------------------------------------------------------------

MpWaiters == w.list["mp"]

\* The end of rt_mp_alloc.
Pop ==
    /\ block_free_count' = block_free_count - 1
    /\ block_list' = Tail(block_list)
    /\ used' = used \cup {Head(block_list)}
    /\ UNCHANGED <<w, suspend_thread_count, wild>>

\* The wait of rt_mp_alloc: first in the suspend list.
MpWait(t, time) ==
    /\ w' = [SuspendOn(w, "mp", t, time = "timed") EXCEPT !.list["mp"] = <<t>> \o MpWaiters]
    /\ call' = [call EXCEPT ![t] = [op |-> "mp", timeout |-> time]]
    /\ suspend_thread_count' = suspend_thread_count + 1
    /\ UNCHANGED <<block_list, block_free_count, used, wild>>

\* One evaluation of the loop of rt_mp_alloc, with the timeout time left.
TryAlloc(t, time) ==
    \/ block_free_count > 0 /\ Pop /\ Return(t)
    \/ block_free_count = 0 /\ time # "none" /\ MpWait(t, time)
    \/ block_free_count = 0 /\ time = "none" /\ Return(t) /\ UNCHANGED <<w, mpVars>>

rt_mp_alloc(t, time) == Free(t) /\ TryAlloc(t, time)

\* After rt_schedule: NULL on an error, or round the loop with what is left.
WokenAlloc(t) ==
    /\ Woken(t, "mp")
    /\ \/ w.error[t] # "EOK" /\ Return(t) /\ UNCHANGED <<w, mpVars>>
       \/ w.error[t] = "EOK" /\ \E left \in Left(call[t].timeout) : TryAlloc(t, left)

\* A handler allocates with timeout 0.
IsrAlloc == Attached /\ block_free_count > 0 /\ Pop /\ UNCHANGED call

\* Slip: the block is linked and not counted.
rt_mp_free_NotCounted(b) ==
    /\ b \in used /\ Attached
    /\ block_list' = <<b>> \o block_list
    /\ used' = used \ {b}
    /\ IF suspend_thread_count > 0
       THEN w' = ResumeFirst(w, "mp") /\ suspend_thread_count' = suspend_thread_count - 1
       ELSE UNCHANGED <<w, suspend_thread_count>>
    /\ UNCHANGED <<block_free_count, call, wild>>

\* rt_mp_free, by a thread or a handler.  The count says that there is a waiter;
\* without one, what follows the list head is the list head.
rt_mp_free(b) ==
    /\ b \in used /\ Attached
    /\ block_free_count' = block_free_count + 1
    /\ block_list' = <<b>> \o block_list
    /\ used' = used \ {b}
    /\ \/ /\ suspend_thread_count > 0
          /\ w' = ResumeFirst(w, "mp")
          /\ suspend_thread_count' = suspend_thread_count - 1
          /\ wild' = (wild \/ MpWaiters = <<>>)
       \/ suspend_thread_count = 0 /\ UNCHANGED <<w, suspend_thread_count, wild>>
    /\ UNCHANGED call

\* rt_mp_detach and rt_mp_delete.
rt_mp_detach == Begin("detach", <<"mp">>)

\* The body of their loop, which keeps the count.
MpDrainTake ==
    /\ drain.at = "take" /\ Head(drain.todo) = "mp"
    /\ DrainTake
    /\ suspend_thread_count' = suspend_thread_count - 1
    /\ UNCHANGED <<block_list, block_free_count, used, wild>>

MpNext ==
    \/ \E t \in Thread :
          \/ \E time \in w.app.timeouts : rt_mp_alloc(t, time)
          \/ WokenAlloc(t)
    \/ IsrAlloc
    \/ \E b \in Block : rt_mp_free(b)

-----------------------------------------------------------------------------

\* Every block is free or held, and once; the count of free blocks is right.
BlocksConserved ==
    /\ ToSet(block_list) \cap used = {} /\ ToSet(block_list) \cup used = Block
    /\ Len(block_list) = Cardinality(ToSet(block_list))
    /\ block_free_count = Len(block_list)

\* suspend_thread_count is the number of threads that wait on the pool.
CountsWaiters == suspend_thread_count = Len(MpWaiters)

\* While a thread waits, every free block has a thread that was resumed for it
\* and has not run yet.
BlockWakes == MpWaiters # <<>> => block_free_count <= Cardinality(Resumed("mp"))

=============================================================================
