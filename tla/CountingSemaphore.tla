-------------------------- MODULE CountingSemaphore --------------------------
(***************************************************************************)
(* What a semaphore promises: at most Capacity threads inside, and threads *)
(* that find it full enter in the order in which they queued.              *)
(***************************************************************************)
EXTENDS Naturals, Sequences, FiniteSets

CONSTANTS Thread, Capacity

VARIABLES
    inside,     \* the threads that hold the semaphore
    queue       \* the threads that wait for it

Init == inside = {} /\ queue = <<>>

Enter(t) ==
    /\ t \notin inside
    /\ Cardinality(inside) < Capacity
    /\ queue = <<>>
    /\ inside' = inside \cup {t}
    /\ UNCHANGED queue

Queue(t) ==
    /\ t \notin inside
    /\ \A i \in DOMAIN queue : queue[i] # t
    /\ Cardinality(inside) = Capacity
    /\ queue' = Append(queue, t)
    /\ UNCHANGED inside

Leave(t) ==
    /\ t \in inside
    /\ queue = <<>>
    /\ inside' = inside \ {t}
    /\ UNCHANGED queue

\* The holder leaves and the longest waiting thread takes its place.
HandOver(t) ==
    /\ t \in inside
    /\ queue # <<>>
    /\ inside' = (inside \ {t}) \cup {Head(queue)}
    /\ queue' = Tail(queue)

Next == \E t \in Thread : Enter(t) \/ Queue(t) \/ Leave(t) \/ HandOver(t)

Spec == Init /\ [][Next]_<<inside, queue>>

=============================================================================
