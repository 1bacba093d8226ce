---------------------------- MODULE MessageQueue -----------------------------
(***************************************************************************)
(* One open message queue (kernel/ipc/message_queue.c) with its senders,   *)
(* its receivers and the threads that poll it (fs/poll.c,                  *)
(* fs/mqueuefs/file.c), on one processor.                                  *)
(*                                                                         *)
(* A system call enters with interrupts off and keeps them off up to its   *)
(* first update_thread that changes a state; that stretch is one action.   *)
(* A thread that comes back from schedule() runs on with interrupts on, so *)
(* there every access to the queue is an action of its own and an App      *)
(* thread can be preempted between any two.  A failed assert stops the     *)
(* kernel (cpu/exception.c).                                               *)
(***************************************************************************)
EXTENDS Integers, Sequences, SequencesExt, FiniteSets

CONSTANTS
    Sender, Receiver, Poller,   \* the threads, by what they do
    App,                        \* the threads of THREAD_APP_POLICY
    Priority,                   \* the priorities of messages ...
    ReceiverPriority,           \* ... and of mq_receive's callers
    MaxMsg,                     \* attr->mq_maxmsg
    NoMessage, Idle

Thread == Sender \cup Receiver \cup Poller

\* A message, or an entry of one of the lists of waiting threads.
Entry == [from : Thread, priority : Priority]

Message == {e \in Entry : e.from \in Sender}

ASSUME QueueAssumption ==
    /\ MaxMsg \in Nat \ {0}
    /\ Priority \subseteq Nat
    /\ ReceiverPriority \subseteq Priority
    /\ App \subseteq Thread
    /\ Idle \notin Thread
    /\ NoMessage \notin Entry

VARIABLES
    cpu,        \* current_thread, or Idle
    state,      \* struct thread.state
    ie,         \* the processor's interrupt flag
    pc,
    call,       \* the arguments of a mq_send or mq_receive that waits
    buf,        \* user_buf of each receiver's last mq_receive
    messages,   \* mq->messages
    curmsgs,    \* attr->mq_curmsgs
    senders,    \* mq->senders
    receivers,  \* mq->receivers
    panic,      \* the line of the assert that failed, or 0
    cut,        \* history: a time slice has ended inside the kernel
    skipped     \* history: before that, a receiver that had waited, or that
                \* came to a queue not full, passed over a listed sender

vars == <<cpu, state, ie, pc, call, buf, messages, curmsgs, senders,
          receivers, panic, cut, skipped>>

Places == {"out",       \* in user mode
           "asleep",    \* in schedule(), called by one of the wait loops
           "woken",     \* back from it, the list entry freed
           "stale",     \* the same, the freed entry being reused meanwhile
           "failed",    \* the wait condition was false
           "listed",    \* on the list again, still RUNNING
           "passed",    \* the wait condition was true
           "room",      \* mq_send after its second assert
           "added",     \* mq_send after mq_add_message
           "notify"}    \* mq_send before wake_up

TypeOK ==
    /\ cpu \in Thread \cup {Idle}
    /\ state \in [Thread -> {"running", "ready", "waiting"}]
    /\ ie \in BOOLEAN
    /\ pc \in [Thread -> Places]
    /\ call \in [Thread -> Entry \cup {NoMessage}]
    /\ buf \in [Receiver -> Message \cup {NoMessage}]
    /\ messages \in Seq(Message)
    /\ curmsgs = Len(messages)
    /\ senders \in Seq(Entry)
    /\ receivers \in Seq(Entry)
    /\ panic \in {0, 176, 193, 207, 227, 256}
    /\ {cut, skipped} \subseteq BOOLEAN

Init ==
    /\ cpu = Idle
    /\ state = [t \in Thread |-> "ready"]
    /\ ie = TRUE
    /\ pc = [t \in Thread |-> "out"]
    /\ call = [t \in Thread |-> NoMessage]
    /\ buf = [r \in Receiver |-> NoMessage]
    /\ messages = <<>>
    /\ curmsgs = 0
    /\ senders = <<>>
    /\ receivers = <<>>
    /\ panic = 0
    /\ cut = FALSE
    /\ skipped = FALSE

Runs(t, place) == cpu = t /\ pc[t] = place /\ panic = 0

Goto(t, place) == pc' = [pc EXCEPT ![t] = place]

MakeReady(t) == state' = [state EXCEPT ![t] = "ready"]

-----------------------------------------------------------------------------
(* The ordered lists.                                                      *)


\* The loop of mq_add_message, mq_add_sender and mq_add_receiver: the entry
\* goes before the first one of lower priority.
Insert(list, e) ==
    LET later == {i \in DOMAIN list : e.priority > list[i].priority}
        at == IF later = {} THEN Len(list) + 1
              ELSE CHOOSE i \in later : \A j \in later : i <= j
    IN  InsertAt(list, at, e)

AddMessage(m) ==
    /\ messages' = Insert(messages, m)
    /\ curmsgs' = curmsgs + 1

-----------------------------------------------------------------------------
(* mq_send.                                                                *)

\* Mutant: the receiver leaves the list but is not made READY.
HandOverNoWake(t, n, flag) ==
    IF receivers = <<>>
    THEN Goto(t, "notify") /\ ie' = flag /\ UNCHANGED <<state, receivers, panic>>
    ELSE IF n # 1
    THEN panic' = 207 /\ UNCHANGED <<state, ie, pc, receivers>>
    ELSE /\ receivers' = Tail(receivers)
         /\ ie' = flag
         /\ Goto(t, "notify")
         /\ UNCHANGED <<state, panic>>

\* The queue holds n messages: the first receiver is taken off the list and
\* made READY, which turns interrupts on unless it was READY already; flag is
\* the interrupt flag so far.
HandOver(t, n, flag) ==
    IF receivers = <<>>
    THEN Goto(t, "notify") /\ ie' = flag /\ UNCHANGED <<state, receivers, panic>>
    ELSE IF n # 1
    THEN panic' = 207 /\ UNCHANGED <<state, ie, pc, receivers>>
    ELSE /\ receivers' = Tail(receivers)
         /\ MakeReady(Head(receivers).from)
         /\ ie' = (flag \/ state[Head(receivers).from] # "ready")
         /\ Goto(t, "notify")
         /\ UNCHANGED panic

\* mq_send into a queue that has room.
Send(t, m) ==
    /\ Runs(t, "out")
    /\ curmsgs < MaxMsg
    /\ AddMessage(m)
    /\ HandOver(t, curmsgs + 1, FALSE)
    /\ UNCHANGED <<cpu, call, buf, senders>>

\* mq_send into a full queue: the sender is listed and WAITING.
SendWait(t, m) ==
    /\ Runs(t, "out")
    /\ curmsgs = MaxMsg
    /\ call' = [call EXCEPT ![t] = m]
    /\ senders' = Insert(senders, m)
    /\ state' = [state EXCEPT ![t] = "waiting"]
    /\ ie' = TRUE
    /\ Goto(t, "asleep")
    /\ UNCHANGED <<cpu, buf, messages, curmsgs, receivers, panic>>

\* The assert at the start of mq_send (line 176) or of mq_receive (line 227):
\* the queue holds no more than mq_maxmsg messages.
AssertBound(t, line) ==
    /\ Runs(t, "out")
    /\ curmsgs > MaxMsg
    /\ panic' = line
    /\ UNCHANGED <<cpu, state, ie, pc, call, buf, messages, curmsgs, senders,
                   receivers>>

\* Mutant: the awakened sender does not look at the queue again.
SendRecheckBlind(t) ==
    /\ Runs(t, "woken")
    /\ Goto(t, "passed")
    /\ UNCHANGED <<cpu, state, ie, call, buf, messages, curmsgs, senders,
                   receivers, panic>>

\* The condition of the wait loop, after a wake-up.  The freed entry is still
\* poisoned unless its memory was reused.
SendRecheck(t) ==
    /\ pc[t] \in {"woken", "stale"} /\ Runs(t, pc[t])
    /\ Goto(t, IF pc[t] = "woken" /\ curmsgs < MaxMsg THEN "passed" ELSE "failed")
    /\ UNCHANGED <<cpu, state, ie, call, buf, messages, curmsgs, senders,
                   receivers, panic>>

SendRelist(t) ==
    /\ Runs(t, "failed")
    /\ senders' = Insert(senders, call[t])
    /\ Goto(t, "listed")
    /\ UNCHANGED <<cpu, state, ie, call, buf, messages, curmsgs, receivers,
                   panic>>

\* update_thread(current_thread, THREAD_WAITING), for both wait loops and
\* for do_poll.
SleepAgain(t) ==
    /\ Runs(t, "listed")
    /\ state' = [state EXCEPT ![t] = "waiting"]
    /\ Goto(t, "asleep")
    /\ UNCHANGED <<cpu, ie, call, buf, messages, curmsgs, senders, receivers,
                   panic>>

\* assert(mq_curmsgs < mq_maxmsg).
SendAssert(t) ==
    /\ Runs(t, "passed")
    /\ IF curmsgs < MaxMsg THEN Goto(t, "room") /\ UNCHANGED panic
       ELSE panic' = 193 /\ UNCHANGED pc
    /\ UNCHANGED <<cpu, state, ie, call, buf, messages, curmsgs, senders,
                   receivers>>

SendAdd(t) ==
    /\ Runs(t, "room")
    /\ AddMessage(call[t])
    /\ Goto(t, "added")
    /\ UNCHANGED <<cpu, state, ie, call, buf, senders, receivers, panic>>

SendHandOver(t) ==
    /\ Runs(t, "added")
    /\ HandOver(t, curmsgs, ie)
    /\ UNCHANGED <<cpu, call, buf, messages, curmsgs, senders>>

\* Mutant: mq_send returns without wake_up.
NotifyNobody(t) ==
    /\ Runs(t, "notify")
    /\ ie' = TRUE
    /\ Goto(t, "out")
    /\ call' = [call EXCEPT ![t] = NoMessage]
    /\ UNCHANGED <<cpu, state, buf, messages, curmsgs, senders, receivers,
                   panic>>

\* wake_up(&mq->wait), and back to user mode.
Notify(t) ==
    /\ Runs(t, "notify")
    /\ state' = [u \in Thread |-> IF u \in Poller /\ pc[u] # "out" THEN "ready"
                                  ELSE state[u]]
    /\ ie' = TRUE
    /\ Goto(t, "out")
    /\ call' = [call EXCEPT ![t] = NoMessage]
    /\ UNCHANGED <<cpu, buf, messages, curmsgs, senders, receivers, panic>>

-----------------------------------------------------------------------------
(* mq_receive.                                                             *)


\* The first message is copied out and removed.
Take(t) ==
    /\ messages' = Tail(messages)
    /\ curmsgs' = curmsgs - 1
    /\ buf' = [buf EXCEPT ![t] = Head(messages)]


\* mq_receive from a queue that has messages: if it is full, the first sender
\* is made READY.
Receive(t) ==
    /\ Runs(t, "out")
    /\ curmsgs > 0
    /\ IF curmsgs = MaxMsg /\ senders # <<>>
       THEN senders' = Tail(senders) /\ MakeReady(Head(senders).from)
       ELSE UNCHANGED <<senders, state>>
    /\ Take(t)
    /\ UNCHANGED <<cpu, call, ie, pc, receivers, panic>>

\* mq_receive from an empty queue: the receiver is listed and WAITING.
ReceiveWait(t, r) ==
    /\ Runs(t, "out")
    /\ curmsgs = 0
    /\ call' = [call EXCEPT ![t] = r]
    /\ receivers' = Insert(receivers, r)
    /\ state' = [state EXCEPT ![t] = "waiting"]
    /\ ie' = TRUE
    /\ Goto(t, "asleep")
    /\ UNCHANGED <<cpu, buf, messages, curmsgs, senders, panic>>

ReceiveRecheck(t) ==
    /\ pc[t] \in {"woken", "stale"} /\ Runs(t, pc[t])
    /\ Goto(t, IF pc[t] = "woken" /\ curmsgs > 0 THEN "passed" ELSE "failed")
    /\ UNCHANGED <<cpu, state, ie, call, buf, messages, curmsgs, senders,
                   receivers, panic>>

ReceiveRelist(t) ==
    /\ Runs(t, "failed")
    /\ receivers' = Insert(receivers, call[t])
    /\ Goto(t, "listed")
    /\ UNCHANGED <<cpu, state, ie, call, buf, messages, curmsgs, senders, panic>>

\* assert(mqm), then the message is taken.
ReceiveTake(t) ==
    /\ Runs(t, "passed")
    /\ IF messages = <<>>
       THEN panic' = 256 /\ UNCHANGED <<messages, curmsgs, buf, pc, call>>
       ELSE /\ Take(t)
            /\ Goto(t, "out")
            /\ call' = [call EXCEPT ![t] = NoMessage]
            /\ UNCHANGED panic
    /\ UNCHANGED <<cpu, state, ie, senders, receivers>>

-----------------------------------------------------------------------------
(* do_poll on the queue, for POLLIN.                                       *)

\* The poller is on mq->wait and WAITING; with a message do_poll returns at
\* once and nothing changes.
Poll(t) ==
    /\ Runs(t, "out")
    /\ messages = <<>>
    /\ state' = [state EXCEPT ![t] = "waiting"]
    /\ ie' = TRUE
    /\ Goto(t, "asleep")
    /\ UNCHANGED <<cpu, call, buf, messages, curmsgs, senders, receivers, panic>>

\* The next round of do_poll's loop, up to the test of nr.
PollAgain(t) ==
    /\ pc[t] \in {"woken", "stale"} /\ Runs(t, pc[t])
    /\ Goto(t, IF messages # <<>> THEN "out" ELSE "listed")
    /\ UNCHANGED <<cpu, state, ie, call, buf, messages, curmsgs, senders,
                   receivers, panic>>

-----------------------------------------------------------------------------
(* The scheduler, as far as the queue sees it.                             *)

\* A READY thread gets the processor; schedule() returns with interrupts on.
Dispatch(t) ==
    /\ cpu = Idle /\ panic = 0
    /\ state[t] = "ready"
    /\ cpu' = t
    /\ state' = [state EXCEPT ![t] = "running"]
    /\ ie' = TRUE
    /\ Goto(t, IF pc[t] = "asleep" THEN "woken" ELSE pc[t])
    /\ UNCHANGED <<call, buf, messages, curmsgs, senders, receivers, panic>>

\* schedule() by a thread that sleeps in a wait loop.
Block(t) ==
    /\ Runs(t, "asleep")
    /\ cpu' = Idle
    /\ UNCHANGED <<state, ie, pc, call, buf, messages, curmsgs, senders,
                   receivers, panic>>

\* A thread in user mode gives up the processor: it blocks elsewhere, or its
\* time slice ends.
Yield(t) ==
    /\ Runs(t, "out")
    /\ cpu' = Idle
    /\ state' = [state EXCEPT ![t] = "ready"]
    /\ UNCHANGED <<ie, pc, call, buf, messages, curmsgs, senders, receivers,
                   panic>>

\* The time slice ends inside the kernel.  Before the thread comes back, any
\* other in the kernel may allocate the list entry that it has just freed.
Preempt(t, place) ==
    /\ cpu = t /\ panic = 0
    /\ t \in App /\ ie
    /\ state[t] = "running" /\ pc[t] # "out"
    /\ place = pc[t] \/ (pc[t] = "woken" /\ place = "stale" /\ t \notin Poller)
    /\ cpu' = Idle
    /\ state' = [state EXCEPT ![t] = "ready"]
    /\ Goto(t, place)
    /\ cut' = TRUE
    /\ UNCHANGED <<ie, call, buf, messages, curmsgs, senders, receivers, panic,
                   skipped>>

-----------------------------------------------------------------------------
Sending(t) ==
    /\ \/ \E p \in Priority : LET m == [from |-> t, priority |-> p]
                              IN  Send(t, m) \/ SendWait(t, m)
       \/ SendRecheck(t) \/ SendRelist(t) \/ SendAssert(t) \/ SendAdd(t)
       \/ SendHandOver(t) \/ Notify(t) \/ AssertBound(t, 176)
    /\ UNCHANGED <<cut, skipped>>

Skips(t) ==
    /\ senders # <<>>
    /\ pc[t] = "passed" \/ (pc[t] = "out" /\ curmsgs \in 1 .. MaxMsg - 1)

Receiving(t) ==
    /\ \/ Receive(t)
       \/ \E p \in ReceiverPriority : ReceiveWait(t, [from |-> t, priority |-> p])
       \/ ReceiveRecheck(t) \/ ReceiveRelist(t) \/ ReceiveTake(t)
       \/ AssertBound(t, 227)
    /\ skipped' = (skipped \/ (~cut /\ Skips(t)))
    /\ UNCHANGED cut

Polling(t) == (Poll(t) \/ PollAgain(t)) /\ UNCHANGED <<cut, skipped>>

Scheduling(t) ==
    /\ Dispatch(t) \/ Block(t) \/ Yield(t) \/ SleepAgain(t)
    /\ UNCHANGED <<cut, skipped>>

Preempting(t) == \E place \in Places : Preempt(t, place)

Next ==
    \/ \E t \in Sender : Sending(t)
    \/ \E t \in Receiver : Receiving(t)
    \/ \E t \in Poller : Polling(t)
    \/ \E t \in Thread : Scheduling(t) \/ Preempting(t)

Spec == Init /\ [][Next]_vars

-----------------------------------------------------------------------------
(* Properties.                                                             *)

\* With one receiver no assert of mq_send or mq_receive fails before a time
\* slice has ended inside the kernel.
NoPanic == panic # 0 => cut

\* The assert at the end of mq_send: a receiver waits only on an empty queue,
\* so the message just added is the only one.
AssertOneMessage == panic # 207

InSend(place) == \E s \in Sender : pc[s] = place

\* Nobody sleeps through a message: a listed receiver has nothing to receive,
\* but for the moment between mq_add_message and the hand-over, and a poller
\* sleeps beside a message only until the sender calls wake_up; until a time
\* slice ends in the kernel.
NoMessageMissed ==
    cut \/ messages = <<>> \/ InSend("added")
        \/ /\ receivers = <<>>
           /\ (\E p \in Poller : state[p] = "waiting") => InSend("notify")

Listings(t) ==
    Cardinality({i \in DOMAIN senders : senders[i].from = t}) +
    Cardinality({i \in DOMAIN receivers : receivers[i].from = t})

\* A thread sleeps in mq_send or mq_receive only while it is listed: whoever
\* waits can be found and made READY, until a time slice ends between the
\* listing and THREAD_WAITING.  Even then nobody is listed twice, or listed
\* for a call that is over.
ListedIffAsleep ==
    \A t \in Sender \cup Receiver :
        /\ Listings(t) <= 1
        /\ Listings(t) = 1 => pc[t] \in {"asleep", "listed"}
        /\ ~cut => (Listings(t) = 1 <=> state[t] = "waiting" \/ pc[t] = "listed")


Abstract == INSTANCE PriorityQueue WITH
    queue <- messages, got <- buf,
    Capacity <- MaxMsg + Cardinality(App \cap Sender)


=============================================================================
