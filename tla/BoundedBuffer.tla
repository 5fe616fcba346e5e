---------------------------- MODULE BoundedBuffer ----------------------------
(***************************************************************************)
(* What the producer/consumer demo promises: a queue of at most bufferSize *)
(* items, each delivered once, in the order in which they were put in.     *)
(***************************************************************************)
EXTENDS Naturals, Sequences

CONSTANTS Item, bufferSize

VARIABLES
    items,     \* the items in the buffer, the oldest first
    delivered  \* the item taken out last

Init == items = <<>> /\ delivered \in Item

Put(x) ==
    /\ Len(items) < bufferSize
    /\ items' = Append(items, x)
    /\ delivered' = delivered

Get ==
    /\ items # <<>>
    /\ delivered' = Head(items)
    /\ items' = Tail(items)

Next == Get \/ \E x \in Item : Put(x)

Spec == Init /\ [][Next]_<<items, delivered>>
=============================================================================
