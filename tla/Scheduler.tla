------------------------------ MODULE Scheduler ------------------------------
(***************************************************************************)
(* The single-processor thread scheduler of mOS (kernel/proc/sched.c), the *)
(* context switch (proc/scheduler.asm), the creation, sleep and exit of    *)
(* threads (proc/task.c, proc/exit.c) as far as they touch the scheduler,  *)
(* the clock interrupt IRQ8 with its three chained handlers (cpu/idt.c,    *)
(* cpu/rtc.c, sched.c) and the delivery of signals at the two places where *)
(* a thread can leave the kernel abnormally (ipc/signal.c).                *)
(*                                                                         *)
(* One thread owns the processor (current).  Its pc says where in the      *)
(* kernel it is; every other thread is parked inside do_switch ("switched")*)
(* or has never run ("entry").  Interrupts are taken only when ie holds.   *)
(* waiting_list and terminated_list are never read by the code, so they    *)
(* are represented by the thread's state alone.                            *)
(***************************************************************************)
EXTENDS Integers, Sequences, SequencesExt, Plist

CONSTANTS
    Thread,         \* every thread that may ever exist
    NoThread,       \* the null thread pointer
    Swapper,        \* the boot thread, current when task_init ends
    InitThread,     \* the thread that runs kernel_init
    Loaded,         \* the threads kernel_init loads before it idles
    Policy,         \* enum thread_policy of each thread
    Killable,       \* the threads a signal may be sent to
    SliceThreshold, \* SLICE_THRESHOLD
    MaxPrio,        \* bound: largest priority number round-robin may reach
    MaxLost         \* bound: abandoned lock regions explored

Policies == {"kernel", "system", "app"}

ASSUME ThreadAssumption ==
    /\ {Swapper, InitThread} \subseteq Thread
    /\ Swapper # InitThread
    /\ NoThread \notin Thread
    /\ Loaded \subseteq Thread \ {Swapper, InitThread}
    /\ Killable \subseteq Thread \ {Swapper, InitThread}

ASSUME PolicyAssumption ==
    /\ Policy \in [Thread -> Policies]
    /\ Policy[Swapper] = "kernel"
    /\ Policy[InitThread] = "kernel"

ASSUME BoundAssumption ==
    /\ SliceThreshold \in Nat \ {0}
    /\ MaxPrio \in Nat
    /\ MaxLost \in Nat

VARIABLES
    current,    \* current_thread
    state,      \* struct thread.state, "none" before the thread is created
    ready,      \* kernel_ready_list, system_ready_list, app_ready_list
    prio,       \* struct thread.sched_sibling.prio
    slice,      \* struct thread.time_slice
    counter,    \* scheduler_lock_counter
    ie,         \* the processor's interrupt flag
    pc,         \* where each thread is
    ret,        \* what the clock interrupt that preempted the thread will
                \* return to; "none" when the thread was not preempted
    child,      \* the thread that fork or load made and will queue
    queued,     \* history: threads that queue_thread has been called for
    pending,    \* struct thread.pending, by the effect of the signal
    inService,  \* IRQ8 is in service: not acknowledged yet
    lost        \* history: lock regions left without unlock_scheduler

vars == <<current, state, ready, prio, slice, counter, ie, pc, ret, child,
          queued, pending, inService, lost>>

States == {"none", "ready", "running", "waiting", "terminated"}

Places == {"none", "entry", "user", "kernel", "queue", "block", "halt",
           "resumed", "switched"}

Effects == {"fatal", "caught"}

TypeOK ==
    /\ current \in Thread
    /\ state \in [Thread -> States]
    /\ ready \in [Policies -> Seq(Thread)]
    /\ prio \in [Thread -> Int]
    /\ slice \in [Thread -> Nat]
    /\ counter \in Nat
    /\ ie \in BOOLEAN
    /\ pc \in [Thread -> Places]
    /\ ret \in [Thread -> {"none", "user", "kernel", "queue"}]
    /\ child \in [Thread -> Thread \cup {NoThread}]
    /\ queued \in SUBSET Thread
    /\ pending \in [Thread -> SUBSET Effects]
    /\ inService \in BOOLEAN
    /\ lost \in Nat

(***************************************************************************)
(* When task_init calls schedule: the swapper is terminated, the init      *)
(* thread is queued, interrupts are on.                                    *)
(***************************************************************************)
Init ==
    /\ current = Swapper
    /\ state = [t \in Thread |-> IF t = Swapper THEN "terminated"
                                 ELSE IF t = InitThread THEN "ready"
                                 ELSE "none"]
    /\ ready = [p \in Policies |-> IF p = "kernel" THEN <<InitThread>>
                                   ELSE <<>>]
    /\ prio = [t \in Thread |-> IF t = InitThread THEN 1 ELSE 0]
    /\ slice = [t \in Thread |-> 0]
    /\ counter = 0
    /\ ie = TRUE
    /\ pc = [t \in Thread |-> IF t = Swapper THEN "block"
                              ELSE IF t = InitThread THEN "entry"
                              ELSE "none"]
    /\ ret = [t \in Thread |-> "none"]
    /\ child = [t \in Thread |-> NoThread]
    /\ queued = {Swapper, InitThread}
    /\ pending = [t \in Thread |-> {}]
    /\ inService = FALSE
    /\ lost = 0

-----------------------------------------------------------------------------
(* The ready lists.                                                        *)

\* Mutant: get_next_thread_to_run without the system list.
NextThreadNoSystem ==
    IF ready["kernel"] # <<>> THEN Head(ready["kernel"])
    ELSE IF ready["app"] # <<>> THEN Head(ready["app"])
    ELSE NoThread

\* get_next_thread_to_run: kernel, then system, then app threads.
NextThread ==
    IF ready["kernel"] # <<>> THEN Head(ready["kernel"])
    ELSE IF ready["system"] # <<>> THEN Head(ready["system"])
    ELSE IF ready["app"] # <<>> THEN Head(ready["app"])
    ELSE NoThread

\* Mutant: update_thread without remove_thread.
RelistedNoRemove(rl, st, t, s) ==
    IF s # st[t] /\ s = "ready"
    THEN [rl EXCEPT ![Policy[t]] = PlistAdd(@, t, prio)]
    ELSE rl

\* The ready lists rl after update_thread moves t from st[t] to state s.
Relisted(rl, st, t, s) ==
    IF s = st[t] THEN rl
    ELSE IF s = "ready"
         THEN [rl EXCEPT ![Policy[t]] = PlistAdd(@, t, prio)]
    ELSE IF st[t] = "ready"
         THEN [rl EXCEPT ![Policy[t]] = PlistDel(@, t)]
    ELSE rl

\* update_thread(t, s), called with the lock counter at counter.  Its unlock
\* turns interrupts on exactly when nobody else holds the scheduler.
UpdateThread(t, s) ==
    /\ state' = [state EXCEPT ![t] = s]
    /\ ready' = Relisted(ready, state, t, s)

FlagAfterUpdate(t, s) == IF state[t] = s THEN ie ELSE counter = 0

-----------------------------------------------------------------------------
(* schedule and the context switch.                                        *)

\* switch_thread(nt), entered with the scheduler locked and interrupts off.
\* A real switch ends in the sti of do_switch, in the context of nt.
SwitchThread(nt) ==
    /\ current' = nt
    /\ state' = [state EXCEPT ![nt] = "running"]
    /\ slice' = [slice EXCEPT ![nt] = 0]
    /\ pc' = IF nt = current THEN [pc EXCEPT ![nt] = "resumed"]
             ELSE [pc EXCEPT ![current] = "switched",
                             ![nt] = IF @ = "entry" THEN "entry"
                                     ELSE "resumed"]
    /\ ie' = (nt # current)

\* pop_next_thread_to_run, then the switch.
PopAndSwitch(nt) ==
    /\ ready' = [ready EXCEPT ![Policy[nt]] = PlistDel(@, nt)]
    /\ counter' = counter + 1
    /\ SwitchThread(nt)
    /\ UNCHANGED <<prio, ret, child, queued, pending, inService, lost>>

\* schedule() with a thread to run.
Schedule ==
    /\ pc[current] = "block"
    /\ state[current] # "running"
    /\ NextThread # NoThread
    /\ PopAndSwitch(NextThread)

\* Mutant: schedule() halts before it unlocks.
ScheduleIdleLocked ==
    /\ pc[current] = "block"
    /\ state[current] # "running"
    /\ NextThread = NoThread
    /\ pc' = [pc EXCEPT ![current] = "halt"]
    /\ ie' = FALSE
    /\ UNCHANGED <<current, state, ready, prio, slice, counter, ret, child, queued,
                   pending, inService, lost>>

\* schedule() with nothing to run: unlock, then halt.
ScheduleIdle ==
    /\ pc[current] = "block"
    /\ state[current] # "running"
    /\ NextThread = NoThread
    /\ pc' = [pc EXCEPT ![current] = "halt"]
    /\ ie' = (counter = 0)
    /\ UNCHANGED <<current, state, ready, prio, slice, counter, ret, child, queued,
                   pending, inService, lost>>

\* An interrupt ended the halt and a handler had made a thread ready.
HaltSchedule ==
    /\ pc[current] = "halt"
    /\ ie
    /\ NextThread # NoThread
    /\ PopAndSwitch(NextThread)

\* An interrupt ended the halt and there is still nothing to run.
HaltAgain ==
    /\ pc[current] = "halt"
    /\ ie
    /\ NextThread = NoThread
    /\ UNCHANGED vars

\* Mutant: rtc_irq_handler without irq_ack.
FinishScheduleNoAck ==
    /\ counter' = counter - 1
    /\ pc' = [pc EXCEPT ![current] = IF ret[current] = "none" THEN "kernel"
                                     ELSE ret[current]]
    /\ ie' = (ie \/ counter = 1 \/ ret[current] # "none")
    /\ ret' = [ret EXCEPT ![current] = "none"]
    /\ UNCHANGED <<current, state, ready, prio, slice, child, queued, inService, lost>>

\* The end of schedule(): unlock_scheduler, and return to the caller.  The
\* interrupt handlers that schedule() delayed run now: rtc_irq_handler
\* acknowledges IRQ8.
FinishSchedule ==
    /\ counter' = counter - 1
    /\ pc' = [pc EXCEPT ![current] = IF ret[current] = "none" THEN "kernel"
                                     ELSE ret[current]]
    /\ ie' = (ie \/ counter = 1 \/ ret[current] # "none")
    /\ ret' = [ret EXCEPT ![current] = "none"]
    /\ inService' = (inService /\ ret[current] = "none")
    /\ UNCHANGED <<current, state, ready, prio, slice, child, queued, lost>>

Resume ==
    /\ pc[current] = "resumed"
    /\ pending[current] = {}
    /\ FinishSchedule
    /\ UNCHANGED pending

\* Mutants: a new thread that does not unlock the scheduler, or does it twice.
StartStillLocked ==
    /\ pc[current] = "entry"
    /\ pc' = [pc EXCEPT ![current] = "kernel"]
    /\ UNCHANGED <<current, state, ready, prio, slice, counter, ie, ret, child, queued,
                   pending, inService, lost>>

StartUnlockTwice ==
    /\ pc[current] = "entry"
    /\ counter' = counter - 2
    /\ pc' = [pc EXCEPT ![current] = "kernel"]
    /\ ie' = (ie \/ counter = 2)
    /\ UNCHANGED <<current, state, ready, prio, slice, ret, child, queued, pending,
                   inService, lost>>

\* The first instructions of a new thread: unlock_scheduler.
Start ==
    /\ pc[current] = "entry"
    /\ counter' = counter - 1
    /\ pc' = [pc EXCEPT ![current] = "kernel"]
    /\ ie' = (ie \/ counter = 1)
    /\ UNCHANGED <<current, state, ready, prio, slice, ret, child, queued, pending,
                   inService, lost>>

-----------------------------------------------------------------------------
(* What a thread does between two calls of schedule.                       *)

\* int 0x7f through an interrupt gate.
Syscall ==
    /\ pc[current] = "user"
    /\ pc' = [pc EXCEPT ![current] = "kernel"]
    /\ ie' = FALSE
    /\ UNCHANGED <<current, state, ready, prio, slice, counter, ret, child, queued,
                   pending, inService, lost>>

\* The return to user mode, no signal being deliverable.
SysReturn ==
    /\ pc[current] = "kernel"
    /\ current # InitThread
    /\ pending[current] = {}
    /\ pc' = [pc EXCEPT ![current] = "user"]
    /\ ie' = TRUE
    /\ UNCHANGED <<current, state, ready, prio, slice, counter, ret, child, queued,
                   pending, inService, lost>>

\* update_thread(current_thread, THREAD_WAITING); schedule() comes next.
\* kernel_init loads its programs before it idles.
Sleep ==
    /\ pc[current] = "kernel"
    /\ current = InitThread => \A t \in Loaded : state[t] # "none"
    /\ UpdateThread(current, "waiting")
    /\ ie' = FlagAfterUpdate(current, "waiting")
    /\ pc' = [pc EXCEPT ![current] = "block"]
    /\ UNCHANGED <<current, prio, slice, counter, ret, child, queued, pending,
                   inService, lost>>

\* Mutant: the woken thread is marked RUNNING.
WakeRunning(t) ==
    /\ pc[current] = "kernel"
    /\ current # InitThread
    /\ t # InitThread
    /\ state[t] = "waiting"
    /\ UpdateThread(t, "running")
    /\ ie' = FlagAfterUpdate(t, "running")
    /\ UNCHANGED <<current, prio, slice, counter, pc, ret, child, queued, pending,
                   inService, lost>>

\* update_thread(t, THREAD_READY) by a thread in the kernel.
Wake(t) ==
    /\ pc[current] = "kernel"
    /\ current # InitThread
    /\ t # InitThread
    /\ state[t] = "waiting"
    /\ UpdateThread(t, "ready")
    /\ ie' = FlagAfterUpdate(t, "ready")
    /\ UNCHANGED <<current, prio, slice, counter, pc, ret, child, queued, pending,
                   inService, lost>>

\* process_fork, or create_process and create_user_thread: the thread is
\* READY but in no list.
Create(t) ==
    /\ pc[current] = "kernel"
    /\ state[t] = "none"
    /\ IF current = InitThread THEN t \in Loaded
       ELSE t \notin Loaded /\ Policy[t] = "app"
    /\ state' = [state EXCEPT ![t] = "ready"]
    /\ prio' = [prio EXCEPT ![t] = IF current = InitThread THEN 0
                                   ELSE prio[current]]
    /\ pc' = [pc EXCEPT ![t] = "entry", ![current] = "queue"]
    /\ child' = [child EXCEPT ![current] = t]
    /\ ie' = (counter = 0)
    /\ UNCHANGED <<current, ready, slice, counter, ret, queued, pending,
                   inService, lost>>

\* queue_thread(th), outside the lock.
QueueThread ==
    /\ pc[current] = "queue"
    /\ LET t == child[current]
       IN  ready' = IF state[t] = "ready"
                    THEN [ready EXCEPT ![Policy[t]] = PlistAdd(@, t, prio)]
                    ELSE ready
    /\ queued' = queued \cup {child[current]}
    /\ child' = [child EXCEPT ![current] = NoThread]
    /\ pc' = [pc EXCEPT ![current] = "kernel"]
    /\ UNCHANGED <<current, state, prio, slice, counter, ie, ret, pending,
                   inService, lost>>

\* do_exit: the current thread terminates, p (a parent blocked in do_wait)
\* is made ready, and schedule() comes next.  It returns with interrupts on
\* exactly when the counter is zero.
DoExit(p) ==
    LET gone == [state EXCEPT ![current] = "terminated"]
        left == Relisted(ready, state, current, "terminated")
    IN  /\ state' = IF p = NoThread THEN gone ELSE [gone EXCEPT ![p] = "ready"]
        /\ ready' = IF p = NoThread THEN left
                    ELSE Relisted(left, gone, p, "ready")
        /\ pc' = [pc EXCEPT ![current] = "block"]
        /\ ie' = (counter = 0)
        /\ UNCHANGED <<current, prio, slice, counter, child, queued, inService>>

Parents == {NoThread} \cup {t \in Thread \ {InitThread} : state[t] = "waiting"}

\* sys_exit.
Exit(p) ==
    /\ pc[current] = "kernel"
    /\ current # InitThread
    /\ p \in Parents
    /\ DoExit(p)
    /\ UNCHANGED <<ret, pending, lost>>

-----------------------------------------------------------------------------
(* Signals.                                                                *)

\* do_kill: SIGKILL also wakes its target, whatever the target's state.
Kill(t, sig) ==
    /\ pc[current] = "kernel"
    /\ t \in Killable
    /\ state[t] # "none"
    /\ pending' = [pending EXCEPT ![t] =
                       @ \cup {IF sig = "kill" THEN "fatal" ELSE sig}]
    /\ IF sig = "kill" /\ t # current
       THEN UpdateThread(t, "ready") /\ ie' = FlagAfterUpdate(t, "ready")
       ELSE UNCHANGED <<state, ready, ie>>
    /\ UNCHANGED <<current, prio, slice, counter, pc, ret, child, queued, inService,
                   lost>>

\* signal_handler on the way back to user mode, from a system call or from
\* an interrupt taken in user mode: handle_signal ends the process ...
ReturnFatal(p) ==
    /\ pc[current] = "kernel" \/ (pc[current] = "user" /\ ie)
    /\ "fatal" \in pending[current]
    /\ p \in Parents
    /\ DoExit(p)
    /\ pending' = [pending EXCEPT ![current] = {}]
    /\ UNCHANGED <<ret, lost>>

\* ... or enters the user's handler.
ReturnCaught ==
    /\ pc[current] = "kernel" \/ (pc[current] = "user" /\ ie)
    /\ "caught" \in pending[current]
    /\ pending' = [pending EXCEPT ![current] = @ \ {"caught"}]
    /\ pc' = [pc EXCEPT ![current] = "user"]
    /\ ie' = TRUE
    /\ UNCHANGED <<current, state, ready, prio, slice, counter, ret, child, queued,
                   inService, lost>>

\* handle_signal inside schedule(), the scheduler being locked: do_exit never
\* comes back to unlock it.
ResumeFatal(p) ==
    /\ pc[current] = "resumed"
    /\ "fatal" \in pending[current]
    /\ lost < MaxLost
    /\ p \in Parents
    /\ DoExit(p)
    /\ pending' = [pending EXCEPT ![current] = {}]
    /\ ret' = [ret EXCEPT ![current] = "none"]
    /\ lost' = lost + 1

\* The frame at the top of the kernel stack is a system call's unless the
\* thread was preempted in user mode: return_usermode leaves schedule().
ResumeCaughtInSyscall ==
    /\ pc[current] = "resumed"
    /\ "caught" \in pending[current]
    /\ ret[current] # "user"
    /\ lost < MaxLost
    /\ pending' = [pending EXCEPT ![current] = @ \ {"caught"}]
    /\ pc' = [pc EXCEPT ![current] = "user"]
    /\ ret' = [ret EXCEPT ![current] = "none"]
    /\ ie' = TRUE
    /\ lost' = lost + 1
    /\ UNCHANGED <<current, state, ready, prio, slice, counter, child, queued,
                   inService>>

\* Preempted in user mode: only the saved registers change.
ResumeCaughtInUser ==
    /\ pc[current] = "resumed"
    /\ "caught" \in pending[current]
    /\ ret[current] = "user"
    /\ pending' = [pending EXCEPT ![current] = @ \ {"caught"}]
    /\ FinishSchedule

-----------------------------------------------------------------------------
(* Interrupts.                                                             *)

\* A device handler (keyboard, mouse, timer callback) makes t ready.
IrqWake(t) ==
    /\ ie
    /\ t # InitThread
    /\ state[t] = "waiting"
    /\ UpdateThread(t, "ready")
    /\ UNCHANGED <<current, prio, slice, counter, ie, pc, ret, child, queued, pending,
                   inService, lost>>

\* irq_schedule_handler looks only at a running app thread.
Timed == Policy[current] = "app" /\ state[current] = "running"

\* IRQ8 short of the threshold, or with nothing else to run: all three
\* handlers run and the interrupt is acknowledged.  Beyond the threshold the
\* exact time_slice is never looked at.
TickCount ==
    /\ ie /\ ~inService
    /\ Timed
    /\ slice[current] + 1 < SliceThreshold \/ NextThread = NoThread
    /\ slice[current] < SliceThreshold
    /\ slice' = [slice EXCEPT ![current] = @ + 1]
    /\ UNCHANGED <<current, state, ready, prio, counter, ie, pc, ret, child, queued,
                   pending, inService, lost>>

\* The app threads' priorities when the current thread is sent behind the
\* last of them.
RoundRobinPrio ==
    LET apps == ready["app"]
        scale == prio[Head(apps)]
    IN  IF Policy[NextThread] # "app" THEN prio
        ELSE [t \in Thread |->
                 IF t = current THEN prio[apps[Len(apps)]] - scale + 1
                 ELSE IF t \in ToSet(apps) THEN prio[t] - scale
                 ELSE prio[t]]

\* IRQ8 at the threshold: the current thread becomes READY.  If nobody holds
\* the scheduler, irq_schedule_handler calls schedule() before
\* rtc_irq_handler, the last handler of the chain, acknowledges IRQ8.
\* Between a switch and the following unlock there is no time for a whole
\* slice, so those places are left out.
Preempt ==
    /\ ie /\ ~inService
    /\ Timed
    /\ pc[current] \in {"user", "kernel", "queue"}
    /\ slice[current] + 1 >= SliceThreshold
    /\ NextThread # NoThread
    /\ RoundRobinPrio[current] <= MaxPrio
    /\ prio' = RoundRobinPrio
    /\ state' = [state EXCEPT ![current] = "ready"]
    /\ ready' = [ready EXCEPT !["app"] = PlistAdd(@, current, RoundRobinPrio)]
    /\ slice' = [slice EXCEPT ![current] = SliceThreshold]
    /\ IF counter = 0
       THEN /\ ret' = [ret EXCEPT ![current] = pc[current]]
            /\ pc' = [pc EXCEPT ![current] = "block"]
            /\ inService' = TRUE
       ELSE UNCHANGED <<ret, pc, inService>>
    /\ UNCHANGED <<current, counter, ie, child, queued, pending, lost>>

-----------------------------------------------------------------------------
\* Steps the processor takes by itself once it is in the kernel.
KernelStep ==
    Schedule \/ ScheduleIdle \/ HaltSchedule \/ Resume \/ Start \/ QueueThread

SignalStep ==
    \/ \E t \in Thread, sig \in {"kill", "fatal", "caught"} : Kill(t, sig)
    \/ \E p \in Parents : ReturnFatal(p) \/ ResumeFatal(p)
    \/ ReturnCaught \/ ResumeCaughtInSyscall \/ ResumeCaughtInUser

Next ==
    \/ KernelStep \/ HaltAgain
    \/ Syscall \/ SysReturn \/ Sleep
    \/ \E t \in Thread : Wake(t) \/ Create(t) \/ IrqWake(t)
    \/ \E p \in Parents : Exit(p)
    \/ SignalStep
    \/ TickCount \/ Preempt

\* A system call ends: it returns, blocks or exits.
LeaveKernel ==
    \/ SysReturn \/ Sleep \/ ReturnCaught
    \/ \E p \in Parents : Exit(p) \/ ReturnFatal(p)

\* The processor executes kernel code, system calls end, and the clock keeps
\* interrupting while IRQ8 can be delivered.  User code may compute for ever.
Fairness ==
    /\ WF_vars(KernelStep)
    /\ WF_vars(LeaveKernel)
    /\ WF_vars(TickCount)
    /\ WF_vars(Preempt)

Spec == Init /\ [][Next]_vars

FairSpec == Spec /\ Fairness

-----------------------------------------------------------------------------
(* Properties.                                                             *)

\* The threads that the list of policy p has to hold.
Listed(p, st, q) ==
    {t \in Thread : Policy[t] = p /\ st[t] = "ready" /\ t \in q}

ListsMatch(rl, st, q) ==
    \A p \in Policies : IsInjective(rl[p]) /\ ToSet(rl[p]) = Listed(p, st, q)

\* The ready lists hold exactly the READY threads that have been queued, each
\* once and in the list of its policy: update_thread, pop_next_thread_to_run
\* and queue_thread never lose a thread nor list it twice.
ListsMatchState == ListsMatch(ready, state, queued)

\* Only the thread that owns the processor is RUNNING: switch_thread is never
\* left with a RUNNING thread parked in do_switch, which no list would hold.
RunningIsCurrent == \A t \in Thread : state[t] = "running" => t = current

\* Every ready list is in increasing priority number, also after the
\* round-robin rescaling of irq_schedule_handler rewrites priorities in place.
ReadySorted ==
    \A p \in Policies : \A i, j \in DOMAIN ready[p] :
        i < j => prio[ready[p][i]] <= prio[ready[p][j]]

\* scheduler_lock_counter counts the open lock regions: the one handed over
\* by a switch, plus the ones that handle_signal abandoned inside schedule().
LockBalance ==
    counter = lost + IF pc[current] \in {"resumed", "entry"} THEN 1 ELSE 0

\* "If counter is 1, it means that there is not running scheduler"
\* (sched.c:230), "balance the counter" (main.c:77): outside schedule() the
\* scheduler is unlocked, so that a tick in user mode may preempt.
UserUnlocked == pc[current] = "user" => counter = 0

\* schedule() halts the processor with interrupts on exactly when nobody has
\* left the scheduler locked; a halt with interrupts off can never end.
HaltFlag == pc[current] = "halt" => (ie <=> counter = 0)

\* schedule() never halts the processor with interrupts off.
HaltInterruptible == pc[current] = "halt" => ie

\* While IRQ8 is unacknowledged exactly one preempted thread still has
\* rtc_irq_handler to run; no thread owes a second acknowledgement.
EoiOwed ==
    /\ inService <=> \E t \in Thread : ret[t] # "none"
    /\ \A t, u \in Thread : ret[t] # "none" /\ ret[u] # "none" => t = u

-----------------------------------------------------------------------------
(* The inductive invariant that carries the safety properties.             *)

\* Every thread but the current one is parked, and a thread that is leaving
\* the processor is not RUNNING.
Parked ==
    /\ \A t \in Thread \ {current} : pc[t] \in {"none", "entry", "switched"}
    /\ pc[current] \notin {"none", "switched"}
    /\ pc[current] \in {"block", "halt"} => state[current] # "running"

\* fork and load queue a thread at most once, and nothing runs it before.
Forking(c) == pc[c] = "queue" \/ ret[c] = "queue"

QueuedOnce ==
    /\ current \in queued
    /\ \A t \in queued : state[t] # "none" /\ pc[t] # "none"
    /\ \A t \in Thread \ queued : \/ state[t] = "none" /\ pc[t] = "none"
                                  \/ state[t] = "ready" /\ pc[t] = "entry"
    /\ \A c \in Thread : Forking(c) => /\ child[c] \in Thread \ queued
                                       /\ state[child[c]] = "ready"
    /\ \A c, d \in Thread :
           Forking(c) /\ Forking(d) /\ child[c] = child[d] => c = d

\* A thread that was preempted in the clock interrupt is still inside the
\* schedule() of irq_schedule_handler, and IRQ8 waits for it alone.
Preempted ==
    /\ \A t \in Thread :
           ret[t] # "none" => /\ pc[t] \in {"block", "halt", "switched", "resumed"}
                              /\ inService
    /\ \A t, u \in Thread : ret[t] # "none" /\ ret[u] # "none" => t = u

\* What signals alone can break.
Undisturbed ==
    Killable = {} => /\ lost = 0
                     /\ \A t \in Thread : pending[t] = {}
                     /\ inService => \E t \in Thread : ret[t] # "none"

IInv ==
    /\ TypeOK
    /\ Parked
    /\ QueuedOnce
    /\ Preempted
    /\ Undisturbed
    /\ ListsMatchState
    /\ RunningIsCurrent
    /\ LockBalance
    /\ HaltFlag

-----------------------------------------------------------------------------
(* Liveness.                                                               *)

\* An idle processor with a ready thread does not stay halted.
IdleEnds ==
    (pc[current] = "halt" /\ \E p \in Policies : ready[p] # <<>>)
        ~> pc[current] # "halt"

\* A locked scheduler is eventually unlocked: each switch hands its lock over
\* to a thread that releases it.
LockReleased == counter > 0 ~> counter = 0

=============================================================================
