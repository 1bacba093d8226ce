----------------------------- MODULE BoundedFifo -----------------------------
(***************************************************************************)
(* What utils/circular_buffer.h promises: a queue of at most Max bytes.    *)
(***************************************************************************)
EXTENDS Integers, Sequences

CONSTANTS Max, Byte, NoByte

VARIABLES
    queue,      \* the bytes, oldest first
    got         \* what the last call of get returned, NoByte for -1

Init == queue = <<>> /\ got = NoByte

Reset == queue' = <<>> /\ got' = got

\* "Old data is overwritten"
Put(d) ==
    /\ queue' = Append(IF Len(queue) = Max THEN Tail(queue) ELSE queue, d)
    /\ got' = got

\* "rejects new data if the buffer is full"
Put2(d) ==
    /\ queue' = IF Len(queue) = Max THEN queue ELSE Append(queue, d)
    /\ got' = got

\* "Returns 0 on success, -1 if the buffer is empty"
Get ==
    IF queue = <<>> THEN queue' = queue /\ got' = NoByte
    ELSE queue' = Tail(queue) /\ got' = Head(queue)

Next == Reset \/ Get \/ \E d \in Byte : Put(d) \/ Put2(d)

Spec == Init /\ [][Next]_<<queue, got>>

=============================================================================
