----------------------------- MODULE RingBuffer -----------------------------
(***************************************************************************)
(* Ring buffers (ringbuffer.c, rtdevice.h).  Each index has a mirror bit   *)
(* that flips when the index passes the end: equal indices with equal bits *)
(* are an empty buffer, with different bits a full one.  The operators     *)
(* work on a buffer value and are used by module Pipe.                     *)
(***************************************************************************)
EXTENDS Integers, Sequences

CONSTANTS
    Byte,
    NoByte,     \* the contents of a place that was never written
    BufferSize

ASSUME BufferAssumption == NoByte \notin Byte /\ BufferSize \in Nat \ {0}

Places == 0..BufferSize - 1

Buffers ==
    [buffer : [Places -> Byte \cup {NoByte}], read_index : Places, write_index : Places,
     read_mirror : BOOLEAN, write_mirror : BOOLEAN]

rt_ringbuffer_init ==
    [buffer |-> [i \in Places |-> NoByte], read_index |-> 0, write_index |-> 0,
     read_mirror |-> FALSE, write_mirror |-> FALSE]

rt_ringbuffer_data_len(rb) ==
    IF rb.read_index = rb.write_index
    THEN IF rb.read_mirror = rb.write_mirror THEN 0 ELSE BufferSize
    ELSE IF rb.write_index > rb.read_index THEN rb.write_index - rb.read_index
    ELSE BufferSize - (rb.read_index - rb.write_index)

rt_ringbuffer_space_len(rb) == BufferSize - rt_ringbuffer_data_len(rb)

Least(a, b) == IF a < b THEN a ELSE b

\* The bytes s from index on, round the end.
Written(buffer, index, s) ==
    [p \in Places |-> LET i == ((p - index + BufferSize) % BufferSize) + 1
                      IN  IF i <= Len(s) THEN s[i] ELSE buffer[p]]

\* The write index moves on by length.
Advance(rb, length) ==
    [rb EXCEPT !.write_index = (@ + length) % BufferSize,
               !.write_mirror = IF BufferSize - rb.write_index > length THEN @ ELSE ~@]

\* How much of s rt_ringbuffer_put accepts, and the buffer then.
PutLength(rb, s) == Least(Len(s), rt_ringbuffer_space_len(rb))

rt_ringbuffer_put(rb, s) ==
    LET length == PutLength(rb, s)
    IN  IF length = 0 THEN rb
        ELSE Advance([rb EXCEPT !.buffer = Written(@, rb.write_index, SubSeq(s, 1, length))],
                     length)

\* rt_ringbuffer_put_force.  With more than there is room for it copies a whole
\* buffer, of which past the end of s comes what lies behind it: junk.
rt_ringbuffer_put_force(rb, s, junk) ==
    LET space  == rt_ringbuffer_space_len(rb)
        length == IF Len(s) > space THEN BufferSize ELSE Len(s)
        put    == [i \in 1..length |-> IF i <= Len(s) THEN s[i] ELSE junk]
        after  == Advance([rb EXCEPT !.buffer = Written(@, rb.write_index, put)], length)
    IN  IF length <= space THEN after
        ELSE IF BufferSize - rb.write_index > length
        THEN [after EXCEPT !.read_index = after.write_index]
        ELSE [after EXCEPT !.read_index = after.write_index, !.read_mirror = ~@]

\* What rt_ringbuffer_get copies out, and the buffer then.
Got(rb, size) ==
    [i \in 1..Least(size, rt_ringbuffer_data_len(rb)) |->
        rb.buffer[(rb.read_index + i - 1) % BufferSize]]

\* Slip: the mirror bit stays when the index reaches the end exactly.
rt_ringbuffer_get_AtEnd(rb, size) ==
    LET length == Len(Got(rb, size))
    IN  IF length = 0 THEN rb
        ELSE [rb EXCEPT !.read_index = (@ + length) % BufferSize,
                        !.read_mirror = IF BufferSize - rb.read_index >= length THEN @ ELSE ~@]

rt_ringbuffer_get(rb, size) ==
    LET length == Len(Got(rb, size))
    IN  IF length = 0 THEN rb
        ELSE [rb EXCEPT !.read_index = (@ + length) % BufferSize,
                        !.read_mirror = IF BufferSize - rb.read_index > length THEN @ ELSE ~@]

\* The bytes in the buffer, oldest first.
Contents(rb) == Got(rb, BufferSize)

=============================================================================
