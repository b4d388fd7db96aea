---------------------------- MODULE BoundedQueue ----------------------------
(***************************************************************************)
(* What a mailbox and a message queue promise: a first-in first-out queue  *)
(* of at most Size items, with an urgent entry at the front, that a reset  *)
(* empties.  Modules Mailbox and MessageQueue implement it.                *)
(***************************************************************************)
EXTENDS Naturals, Sequences

CONSTANTS
    Item,       \* what is sent
    NoItem,     \* not an item
    Size        \* the capacity

VARIABLES
    queue,      \* the items sent and not received, oldest first
    got         \* the item of the last receive

Init == queue = <<>> /\ got = NoItem

Send(x) ==
    /\ Len(queue) < Size
    /\ queue' = Append(queue, x)
    /\ UNCHANGED got

Urgent(x) ==
    /\ Len(queue) < Size
    /\ queue' = <<x>> \o queue
    /\ UNCHANGED got

Receive ==
    /\ queue # <<>>
    /\ got' = Head(queue)
    /\ queue' = Tail(queue)

Reset ==
    /\ queue' = <<>>
    /\ UNCHANGED got

Next == (\E x \in Item : Send(x) \/ Urgent(x)) \/ Receive \/ Reset

Spec == Init /\ [][Next]_<<queue, got>>

=============================================================================
