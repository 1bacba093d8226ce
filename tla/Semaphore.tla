------------------------------ MODULE Semaphore ------------------------------
(***************************************************************************)
(* kernel/locking/semaphore.c with the spin lock of locking/spinlock.h, on *)
(* one processor.  Interrupts are off from disable_interrupts until the    *)
(* enable_interrupts at the end, except that update_thread turns them on   *)
(* again (unlock_scheduler), with the spin lock still held.  A preempted   *)
(* thread stays READY and may be resumed at any time; a thread that blocks *)
(* calls schedule.                                                         *)
(***************************************************************************)
EXTENDS Integers, Sequences, FiniteSets, SequencesExt

CONSTANTS
    Thread,
    Capacity,   \* the n of sema_init
    Idle        \* the processor in the idle loop of schedule

ASSUME SemaphoreAssumption == Capacity \in Nat \ {0} /\ Idle \notin Thread

VARIABLES
    cpu,        \* current_thread, or Idle
    state,      \* struct thread.state
    pc,         \* where each thread is
    ie,         \* the processor's interrupt flag
    lock,       \* sem->lock
    count,      \* sem->count
    waitList    \* sem->wait_list, by the threads of its waiters

vars == <<cpu, state, pc, ie, lock, count, waitList>>

Places == {"outside",   \* before acquire_semaphore
           "queued",    \* on wait_list and WAITING, lock still held
           "blocked",   \* in or before schedule()
           "inside",    \* acquire_semaphore has returned
           "handed",    \* in release_semaphore, the waiter is READY, lock held
           "spinOut",   \* spins in acquire_semaphore
           "spinIn"}    \* spins in release_semaphore

TypeOK ==
    /\ cpu \in Thread \cup {Idle}
    /\ state \in [Thread -> {"running", "ready", "waiting"}]
    /\ pc \in [Thread -> Places]
    /\ ie \in BOOLEAN
    /\ lock \in BOOLEAN
    /\ count \in Nat
    /\ waitList \in Seq(Thread)

Init ==
    /\ cpu = Idle
    /\ state = [t \in Thread |-> "ready"]
    /\ pc = [t \in Thread |-> "outside"]
    /\ ie = TRUE
    /\ lock = FALSE
    /\ count = Capacity
    /\ waitList = <<>>

\* Mutant: the count is taken without being looked at.
AcquireFreeNoCheck(t) ==
    /\ cpu = t /\ pc[t] = "outside"
    /\ ~lock
    /\ count' = count - 1
    /\ pc' = [pc EXCEPT ![t] = "inside"]
    /\ ie' = TRUE
    /\ UNCHANGED <<cpu, state, lock, waitList>>

\* acquire_semaphore with the semaphore free: nothing can come in between.
AcquireFree(t) ==
    /\ cpu = t /\ pc[t] = "outside"
    /\ ~lock
    /\ count > 0
    /\ count' = count - 1
    /\ pc' = [pc EXCEPT ![t] = "inside"]
    /\ ie' = TRUE
    /\ UNCHANGED <<cpu, state, lock, waitList>>

\* Mutant: the waiter is listed but not put to sleep.
AcquireQueueAwake(t) ==
    /\ cpu = t /\ pc[t] = "outside"
    /\ ~lock
    /\ count = 0
    /\ lock' = TRUE
    /\ waitList' = Append(waitList, t)
    /\ pc' = [pc EXCEPT ![t] = "queued"]
    /\ ie' = TRUE
    /\ UNCHANGED <<cpu, state, count>>

\* acquire_semaphore with the semaphore taken, up to the end of
\* update_thread, which leaves interrupts on.
AcquireQueue(t) ==
    /\ cpu = t /\ pc[t] = "outside"
    /\ ~lock
    /\ count = 0
    /\ lock' = TRUE
    /\ waitList' = Append(waitList, t)
    /\ state' = [state EXCEPT ![t] = "waiting"]
    /\ pc' = [pc EXCEPT ![t] = "queued"]
    /\ ie' = TRUE
    /\ UNCHANGED <<cpu, count>>

\* Mutant: the waiter calls schedule without spin_unlock.
AcquireUnlockForgotten(t) ==
    /\ cpu = t /\ pc[t] = "queued"
    /\ lock' = lock
    /\ pc' = [pc EXCEPT ![t] = "blocked"]
    /\ UNCHANGED <<cpu, state, ie, count, waitList>>

\* spin_unlock, then schedule.
AcquireUnlock(t) ==
    /\ cpu = t /\ pc[t] = "queued"
    /\ lock' = FALSE
    /\ pc' = [pc EXCEPT ![t] = "blocked"]
    /\ UNCHANGED <<cpu, state, ie, count, waitList>>

\* spin_lock finds the lock taken: the loop runs with interrupts off.
Spin(t) ==
    /\ cpu = t /\ pc[t] \in {"outside", "inside"}
    /\ lock
    /\ pc' = [pc EXCEPT ![t] = IF @ = "outside" THEN "spinOut" ELSE "spinIn"]
    /\ ie' = FALSE
    /\ UNCHANGED <<cpu, state, lock, count, waitList>>

\* release_semaphore with nobody waiting.
ReleaseFree(t) ==
    /\ cpu = t /\ pc[t] = "inside"
    /\ ~lock
    /\ waitList = <<>>
    /\ count' = IF count < Capacity THEN count + 1 ELSE count
    /\ pc' = [pc EXCEPT ![t] = "outside"]
    /\ ie' = TRUE
    /\ UNCHANGED <<cpu, state, lock, waitList>>

\* Mutant: the last waiter is taken.
ReleaseHandLast(t) ==
    /\ cpu = t /\ pc[t] = "inside"
    /\ ~lock
    /\ waitList # <<>>
    /\ waitList' = Front(waitList)
    /\ state' = [state EXCEPT ![Last(waitList)] = "ready"]
    /\ lock' = TRUE
    /\ pc' = [pc EXCEPT ![t] = "handed"]
    /\ ie' = TRUE
    /\ UNCHANGED <<cpu, count>>

\* Mutant: the waiter leaves the list but is not made READY.
ReleaseHandNoWake(t) ==
    /\ cpu = t /\ pc[t] = "inside"
    /\ ~lock
    /\ waitList # <<>>
    /\ waitList' = Tail(waitList)
    /\ lock' = TRUE
    /\ pc' = [pc EXCEPT ![t] = "handed"]
    /\ ie' = TRUE
    /\ UNCHANGED <<cpu, state, count>>

\* release_semaphore with a waiter, up to the end of update_thread.
ReleaseHand(t) ==
    /\ cpu = t /\ pc[t] = "inside"
    /\ ~lock
    /\ waitList # <<>>
    /\ waitList' = Tail(waitList)
    /\ state' = [state EXCEPT ![Head(waitList)] = "ready"]
    /\ lock' = TRUE
    /\ pc' = [pc EXCEPT ![t] = "handed"]
    /\ ie' = TRUE
    /\ UNCHANGED <<cpu, count>>

\* spin_unlock and enable_interrupts.
ReleaseUnlock(t) ==
    /\ cpu = t /\ pc[t] = "handed"
    /\ lock' = FALSE
    /\ pc' = [pc EXCEPT ![t] = "outside"]
    /\ UNCHANGED <<cpu, state, ie, count, waitList>>

-----------------------------------------------------------------------------
(* The scheduler, as far as semaphores see it.                             *)

\* A READY thread gets the processor; a waiter that was handed the semaphore
\* returns from acquire_semaphore.
Dispatch(t) ==
    /\ cpu = Idle
    /\ state[t] = "ready"
    /\ cpu' = t
    /\ state' = [state EXCEPT ![t] = "running"]
    /\ pc' = [pc EXCEPT ![t] = IF @ = "blocked" THEN "inside" ELSE @]
    /\ ie' = TRUE
    /\ UNCHANGED <<lock, count, waitList>>

\* schedule() by a thread that blocks.
Block(t) ==
    /\ cpu = t /\ pc[t] = "blocked"
    /\ cpu' = Idle
    /\ UNCHANGED <<state, pc, ie, lock, count, waitList>>

\* A clock tick preempts the running thread where interrupts are on.  A
\* thread that is WAITING is left alone by irq_schedule_handler.
Preempt(t) ==
    /\ cpu = t /\ ie
    /\ state[t] = "running"
    /\ cpu' = Idle
    /\ state' = [state EXCEPT ![t] = "ready"]
    /\ UNCHANGED <<pc, ie, lock, count, waitList>>

-----------------------------------------------------------------------------
Enter(t) == AcquireFree(t) \/ AcquireQueue(t) \/ AcquireUnlock(t)

Release(t) == ReleaseFree(t) \/ ReleaseHand(t) \/ ReleaseUnlock(t)

Next == \E t \in Thread : \/ Enter(t) \/ Release(t) \/ Spin(t)
                          \/ Dispatch(t) \/ Block(t) \/ Preempt(t)

\* Programs give the processor up now and then (by a tick or by blocking
\* elsewhere), the ready lists are first in first out, and a thread inside
\* gets through its critical section, which never blocks.
Fairness ==
    \A t \in Thread :
        /\ SF_vars(Dispatch(t))
        /\ SF_vars(Release(t))
        /\ WF_vars(AcquireUnlock(t))
        /\ WF_vars(Block(t) \/ Preempt(t))

Spec == Init /\ [][Next]_vars

FairSpec == Spec /\ Fairness

-----------------------------------------------------------------------------
(* Properties.                                                             *)

\* The threads that own a unit: they returned from acquire_semaphore, or
\* release_semaphore took them off the list and they have not run yet.
Inside ==
    {t \in Thread : \/ pc[t] \in {"inside", "spinIn"}
                    \/ pc[t] \in {"queued", "blocked"} /\ t \notin ToSet(waitList)}

\* Threads wait only while the semaphore is taken, asleep and listed once:
\* no release can be missed.
WaitersAsleep ==
    /\ waitList # <<>> => count = 0
    /\ \A i, j \in DOMAIN waitList : waitList[i] = waitList[j] => i = j
    /\ \A t \in ToSet(waitList) : state[t] = "waiting"

\* The spin lock is contended only behind a thread that was preempted in
\* release_semaphore after it had made the next owner READY: everywhere else
\* interrupts are off, or the thread is WAITING and not preemptible, while
\* the lock is held.
SpinBehindRelease ==
    \A t \in Thread :
        pc[t] \in {"spinIn", "spinOut"} =>
            \E u \in Thread \ {t} : pc[u] = "handed" /\ state[u] = "ready"

\* semaphore.c implements the first-come first-served counting semaphore.
Abstract == INSTANCE CountingSemaphore WITH inside <- Inside, queue <- waitList

ImplementsCounting == Abstract!Spec

Hung == \E t \in Thread : pc[t] \in {"spinIn", "spinOut"}

\* A queued thread is let in eventually, unless the processor hangs in the
\* spin lock.
WaiterServed ==
    \A t \in Thread : pc[t] = "blocked" ~> (pc[t] = "inside" \/ Hung)

=============================================================================
