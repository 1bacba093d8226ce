\* Two senders, one receiver, as the window server and its clients use a
\* queue, and a poller; all but the poller can be preempted.  The senders and the receiver
\* may all end up asleep, and a failed assert stops the kernel.
SPECIFICATION Spec
CONSTANTS
    Sender = {s1, s2}
    Receiver = {r1}
    Poller = {p1}
    App = {s1, s2, r1}
    Priority = {1, 2}
    ReceiverPriority = {1}
    MaxMsg = 2
    NoMessage = NoMessage
    Idle = Idle
INVARIANTS  NoPanic NoMessageMissed ListedIffAsleep 
 
CHECK_DEADLOCK FALSE
