------------------------------- MODULE Stream -------------------------------
(***************************************************************************)
(* What a pipe and the receive buffer of a serial device promise: bytes    *)
(* come out in the order they went in.  A lossy one accepts everything and *)
(* drops the oldest bytes; the other one accepts what there is room for.   *)
(***************************************************************************)
EXTENDS Naturals, Sequences

CONSTANTS
    Item,
    Size,       \* the capacity
    MaxWrite,   \* the longest write
    Lossy

VARIABLES
    queue,      \* the bytes in the stream, oldest first
    got         \* the bytes of the last read

Init == queue = <<>> /\ got = <<>>

Accepts(s) == SubSeq(s, 1, IF Len(s) < Size - Len(queue) THEN Len(s) ELSE Size - Len(queue))

Drops(q) == IF Len(q) > Size THEN SubSeq(q, Len(q) - Size + 1, Len(q)) ELSE q

Write(s) ==
    /\ queue' = IF Lossy THEN Drops(queue \o s) ELSE queue \o Accepts(s)
    /\ UNCHANGED got

Read(n) ==
    /\ n <= Len(queue)
    /\ got' = SubSeq(queue, 1, n)
    /\ queue' = SubSeq(queue, n + 1, Len(queue))

Next ==
    \/ \E k \in 1..MaxWrite : \E s \in [1..k -> Item] : Write(s)
    \/ \E n \in 1..Size : Read(n)

Spec == Init /\ [][Next]_<<queue, got>>

=============================================================================
