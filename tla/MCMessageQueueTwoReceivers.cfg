\* Two receivers wait and one sender sends twice, nobody being preempted.
SPECIFICATION Spec
CONSTANTS
    Sender = {s1}
    Receiver = {r1, r2}
    Poller = {}
    App = {}
    Priority = {1}
    ReceiverPriority = {1}
    MaxMsg = 2
    NoMessage = NoMessage
    Idle = Idle
INVARIANTS AssertOneMessage
CHECK_DEADLOCK FALSE
