---------------------------- MODULE PriorityQueue ----------------------------
(***************************************************************************)
(* What a message queue promises its users: at most Capacity messages,     *)
(* the most urgent first, and among equally urgent ones the oldest first.  *)
(***************************************************************************)
EXTENDS Integers, Sequences

CONSTANTS Receiver, Message, NoMessage, Capacity

VARIABLES
    queue,      \* the messages, next one first
    got         \* what each receiver received last

AtLeast(p) == SelectSeq(queue, LAMBDA m : m.priority >= p)

Below(p) == SelectSeq(queue, LAMBDA m : m.priority < p)

Init ==
    /\ queue = <<>>
    /\ got = [r \in Receiver |-> NoMessage]

Send(m) ==
    /\ Len(queue) < Capacity
    /\ queue' = AtLeast(m.priority) \o <<m>> \o Below(m.priority)
    /\ UNCHANGED got

Receive(r) ==
    /\ queue # <<>>
    /\ got' = [got EXCEPT ![r] = Head(queue)]
    /\ queue' = Tail(queue)

Next == (\E m \in Message : Send(m)) \/ (\E r \in Receiver : Receive(r))

Spec == Init /\ [][Next]_<<queue, got>>

=============================================================================
