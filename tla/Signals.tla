------------------------------- MODULE Signals -------------------------------
(***************************************************************************)
(* The signal state of one process (kernel/ipc/signal.c): pending and      *)
(* blocked signals, dispositions, the signal frames on the user stack, and *)
(* the three callers of handle_signal: signal_handler on the way back to   *)
(* user mode, schedule() when the thread is switched to, and sigsuspend.   *)
(* SIGCONT and the stop signals never become pending; ProcessTree has      *)
(* them.  The machine has one processor: while the process is in user mode *)
(* nobody else sends it a signal.                                          *)
(***************************************************************************)
EXTENDS Integers, Sequences, SequencesExt

CONSTANTS
    Signal,         \* signal numbers
    CoreDump,       \* SIG_KERNEL_COREDUMP_MASK
    Ignore,         \* SIG_KERNEL_IGNORE_MASK
    KernelOnly,     \* SIG_KERNEL_ONLY_MASK
    SIGKILL,
    Mask,           \* the sets the program passes to sigprocmask and sigsuspend
    SaMask,         \* the sa_mask of its handlers
    MaxFrames,      \* bound: nested handlers
    MaxSent,        \* bound: signals sent
    CanSuspend      \* the program calls sigsuspend

ASSUME SignalAssumption ==
    /\ Signal \subseteq Nat \ {0}
    /\ CoreDump \cup Ignore \cup KernelOnly \cup SaMask \subseteq Signal
    /\ SIGKILL \in KernelOnly
    /\ KernelOnly \cap Ignore = {}
    /\ Mask \subseteq SUBSET Signal
    /\ MaxFrames \in Nat /\ MaxSent \in Nat
    /\ CanSuspend \in BOOLEAN

VARIABLES
    mode,       \* where the process is, see Mode
    pending,    \* thread->pending
    blocked,    \* thread->blocked
    handler,    \* process->sighand
    signaling,  \* thread->signaling
    manual,     \* TIF_SIGNAL_MANUAL in thread->flags
    frames,     \* the signal_frames on the user stack, the innermost last
    sent,       \* signals sent so far, bounded by MaxSent
    base,       \* history: the mask the program set outside its handlers
    lost,       \* history: sigsuspend came back without a signal, or a handler called execve
    touched     \* history: the running handler changed the mask itself

vars == <<mode, pending, blocked, handler, signaling, manual, frames, sent,
          base, lost, touched>>

\* "syscall" and "irq": about to return to user mode from a completed system
\* call or from an interrupt; "asleep": switched out inside a system call;
\* "hang": spinning with interrupts off; "panic": stopped by a failed assert.
Mode == {"user", "syscall", "irq", "asleep", "dead", "hang", "panic"}
Disposition == {"SIG_DFL", "SIG_IGN", "user"}
Frame == [signum : Signal, signaling : BOOLEAN, blocked : SUBSET Signal]
Gone == mode \in {"dead", "hang", "panic"}

\* Every variable has its type, SIGKILL and SIGSTOP keep their default action,
\* and no more handlers are active than there are frames for.
TypeOK ==
    /\ mode \in Mode
    /\ pending \subseteq Signal
    /\ blocked \subseteq Signal
    /\ handler \in [Signal -> Disposition]
    /\ \A s \in KernelOnly : handler[s] = "SIG_DFL"
    /\ signaling \in BOOLEAN
    /\ manual \in BOOLEAN
    /\ frames \in Seq(Frame) /\ Len(frames) <= MaxFrames
    /\ sent \in 0 .. MaxSent
    /\ base \subseteq Signal \ KernelOnly
    /\ lost \in BOOLEAN
    /\ touched \in BOOLEAN

Init ==
    /\ mode = "user"
    /\ pending = {}
    /\ blocked = {}
    /\ handler = [s \in Signal |-> IF s \in Ignore THEN "SIG_IGN" ELSE "SIG_DFL"]
    /\ signaling = FALSE
    /\ manual = FALSE
    /\ frames = <<>>
    /\ sent = 0
    /\ base = {}
    /\ lost = FALSE
    /\ touched = FALSE

-----------------------------------------------------------------------------
\* ffz(~mask) + 1: the lowest signal of a non-empty mask.
Lowest(mask) == CHOOSE s \in mask : \A r \in mask : s <= r

\* next_signal: core-dumping signals first, then by number.
NextSignal(pend, block) ==
    LET mask == pend \ block
    IN  IF mask = {} THEN 0
        ELSE IF mask \cap CoreDump # {} THEN Lowest(mask \cap CoreDump)
        ELSE Lowest(mask)

\* sig_ignored.
Ignored(s, block) ==
    /\ s \notin block
    /\ handler[s] = "SIG_IGN" \/ (handler[s] = "SIG_DFL" /\ s \in Ignore)

\* Mutant: a handler runs with its own signal unblocked.
HandlerMaskOpen(mask, s) == mask \cup (SaMask \ {s})

\* The mask while the handler of s runs.
HandlerMask(mask, s) == mask \cup {s} \cup SaMask

\* Mutant: the frame remembers the mask with s already blocked.
PushFrameMask(s, restored) ==
    Append(frames, [signum |-> s, signaling |-> signaling,
                    blocked |-> (restored \cup {s}) \ KernelOnly])

\* The signal_frame of a user handler; its return restores the mask `restored`.
PushFrame(s, restored) ==
    Append(frames, [signum |-> s, signaling |-> signaling, blocked |-> restored])

\* handle_signal with thread->blocked = mask.  It leaves the process in mode
\* `to` if there is no signal to take; a handler starts in user mode.
HandleSignal(mask, restored, to) ==
    LET s == NextSignal(pending, mask)
    IN  \/ /\ s = 0
           /\ mode' = to /\ blocked' = mask
           /\ UNCHANGED <<pending, signaling, frames>>
        \/ /\ s # 0 /\ Ignored(s, mask)         \* assert(!sig_ignored(...))
           /\ mode' = "panic" /\ blocked' = mask /\ signaling' = TRUE
           /\ pending' = pending \ {s}
           /\ UNCHANGED frames
        \/ /\ s # 0 /\ ~Ignored(s, mask) /\ handler[s] = "SIG_DFL"
           /\ mode' = "dead" /\ blocked' = mask /\ signaling' = FALSE
           /\ pending' = {}
           /\ UNCHANGED frames
        \/ /\ s # 0 /\ handler[s] = "user"
           /\ mode' = "user" /\ blocked' = HandlerMask(mask, s) /\ signaling' = TRUE
           /\ pending' = pending \ {s}
           /\ frames' = PushFrame(s, restored)

-----------------------------------------------------------------------------
\* do_kill of a signal of Signal, by the process itself (a system call) or
\* by somebody else while this process is not in user mode.
Kill(s) ==
    /\ ~Gone
    /\ sent < MaxSent
    /\ sent' = sent + 1
    /\ mode' = IF mode = "user" THEN "syscall" ELSE mode
    /\ pending' = IF Ignored(s, blocked) THEN pending ELSE pending \cup {s}
    /\ UNCHANGED <<blocked, handler, signaling, manual, frames, base, lost, touched>>

\* The mask that do_sigprocmask computes before it clears SIG_KERNEL_ONLY_MASK.
NewMask(how, set) ==
    CASE how = "SIG_BLOCK"   -> blocked \cup set
      [] how = "SIG_UNBLOCK" -> blocked \ set
      [] how = "SIG_SETMASK" -> set

\* do_sigprocmask.
Sigprocmask(how, set) ==
    /\ mode = "user"
    /\ mode' = "syscall"
    /\ blocked' = NewMask(how, set) \ KernelOnly
    /\ base' = IF frames = <<>> THEN blocked' ELSE base
    /\ touched' = (frames # <<>>)
    /\ UNCHANGED <<pending, handler, signaling, manual, frames, sent, lost>>

\* Mutant: SIGKILL and SIGSTOP can be handled.
SigactionAll(s, action) ==
    /\ mode = "user"
    /\ mode' = "syscall"
    /\ handler' = [handler EXCEPT ![s] = action]
    /\ UNCHANGED <<pending, blocked, signaling, manual, frames, sent, base, lost, touched>>

\* do_sigaction.
Sigaction(s, action) ==
    /\ mode = "user"
    /\ s \notin KernelOnly
    /\ mode' = "syscall"
    /\ handler' = [handler EXCEPT ![s] = action]
    /\ UNCHANGED <<pending, blocked, signaling, manual, frames, sent, base, lost, touched>>

\* do_sigsuspend.  The thread stays THREAD_RUNNING, so schedule() returns at
\* once, and interrupts are still off from the system call gate: with nothing
\* pending the loop never ends.
Sigsuspend(set) ==
    /\ CanSuspend
    /\ mode = "user"
    /\ Len(frames) < MaxFrames
    /\ manual' = TRUE
    /\ IF pending = {}
       THEN mode' = "hang" /\ blocked' = set /\ UNCHANGED <<pending, signaling, frames>>
       ELSE HandleSignal(set, blocked, "syscall")
    /\ lost' = (lost \/ mode' = "syscall")
    /\ touched' = (frames # <<>>)
    /\ UNCHANGED <<handler, sent, base>>

\* A system call that sleeps, and the switch back to the thread in schedule():
\* a signal abandons the system call.
Block ==
    /\ mode = "user"
    /\ Len(frames) < MaxFrames
    /\ mode' = "asleep"
    /\ UNCHANGED <<pending, blocked, handler, signaling, manual, frames, sent, base,
                   lost, touched>>

Resume ==
    /\ mode = "asleep"
    /\ IF manual
       THEN mode' = "syscall" /\ UNCHANGED <<pending, blocked, signaling, frames>>
       ELSE HandleSignal(blocked, blocked, "syscall")
    /\ UNCHANGED <<handler, manual, sent, base, lost, touched>>

\* An interrupt of the program, and the switch back to it in schedule() when
\* the clock had taken the processor away.
Interrupt ==
    /\ mode = "user"
    /\ mode' = "irq"
    /\ UNCHANGED <<pending, blocked, handler, signaling, manual, frames, sent, base,
                   lost, touched>>

ResumeIrq ==
    /\ mode = "irq"
    /\ ~manual
    /\ Len(frames) < MaxFrames
    /\ HandleSignal(blocked, blocked, "irq")
    /\ UNCHANGED <<handler, manual, sent, base, lost, touched>>


\* signal_handler, and the return to user mode.
SignalHandler ==
    /\ mode \in {"syscall", "irq"}
    /\ IF signaling
       THEN mode' = "user" /\ UNCHANGED <<pending, blocked, signaling, frames>>
       ELSE HandleSignal(blocked, blocked, "user")
    /\ UNCHANGED <<handler, manual, sent, base, lost, touched>>


\* The handler returns to the address of sigreturn; the page fault runs it.
Sigreturn ==
    /\ mode = "user" /\ frames # <<>>
    /\ mode' = "irq"
    /\ blocked' = Last(frames).blocked
    /\ signaling' = Last(frames).signaling
    /\ frames' = Front(frames)
    /\ manual' = FALSE
    /\ touched' = (touched /\ frames' # <<>>)
    /\ UNCHANGED <<pending, handler, sent, base, lost>>

\* process_execve replaces the user stack and enters user mode without passing
\* signal_handler; the signal state stays.
Exec ==
    /\ mode = "user"
    /\ frames' = <<>>
    /\ lost' = (lost \/ frames # <<>>)
    /\ UNCHANGED <<mode, pending, blocked, handler, signaling, manual, sent, base, touched>>

Next ==
    \/ \E s \in Signal : Kill(s)
    \/ \E how \in {"SIG_BLOCK", "SIG_UNBLOCK", "SIG_SETMASK"} : \E set \in Mask : Sigprocmask(how, set)
    \/ \E s \in Signal : \E action \in Disposition : Sigaction(s, action)
    \/ \E set \in Mask : Sigsuspend(set)
    \/ Block \/ Resume \/ Interrupt \/ ResumeIrq
    \/ SignalHandler \/ Sigreturn \/ Exec

Spec == Init /\ [][Next]_vars

\* The kernel returns to the program, a sleeping system call wakes up (SIGKILL
\* makes the thread ready), clock interrupts arrive, and handlers return.
Fairness ==
    /\ WF_vars(SignalHandler) /\ WF_vars(Resume) /\ WF_vars(Interrupt)
    /\ SF_vars(Sigreturn)

FairSpec == Spec /\ Fairness

-----------------------------------------------------------------------------

\* Outside its handlers the program has the mask it set itself: handlers,
\* nested handlers and sigsuspend undo what they did to blocked, signaling and
\* TIF_SIGNAL_MANUAL, unless sigsuspend returned without a signal or a handler
\* called execve.
MaskRestored ==
    mode = "user" /\ frames = <<>> /\ ~lost
        => blocked = base /\ ~signaling /\ ~manual

\* "When a handler is invoked on a signal, that kind of signal is
\* automatically blocked until it returns" (apps/terminal/README.md): a
\* handler is entered again only if the program changed its mask inside it.
HandlersNest ==
    touched \/ \A i, j \in 1 .. Len(frames) : frames[i].signum = frames[j].signum => i = j


\* assert(!sig_ignored(current_thread, signum)) in handle_signal holds.
AssertNotIgnored == mode # "panic"
=============================================================================
