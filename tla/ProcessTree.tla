----------------------------- MODULE ProcessTree -----------------------------
(***************************************************************************)
(* Parents and children: process_fork, do_exit, do_wait, do_kill of one    *)
(* process or a process group, stop and continue, and the hang-up of a     *)
(* terminal's session (kernel/proc/exit.c, proc/task.c, ipc/signal.c).     *)
(* Signals other than the stop signals and SIGCONT are taken with their    *)
(* default, fatal action here (SIGCHLD is ignored); Signals has the rest.  *)
(* System calls run with interrupts off until they first change a thread's *)
(* state; once do_wait has been woken up, the clock can stop it between    *)
(* looking at the children and going to sleep.                             *)
(***************************************************************************)
EXTENDS Integers, Sequences, SequencesExt, FiniteSets

CONSTANTS
    MaxPid,     \* bound: processes are 1 .. MaxPid
    Wants,      \* the [id, options] that programs pass to do_wait
    Signals,    \* the signals that programs send
    MaxCalls    \* bound: calls of fork and kill together

INIT_PID == 1
Shell == 2          \* the session leader of the terminal
AnyChild == 0       \* idtype P_ALL
Pid == 1 .. MaxPid

ASSUME ProcessAssumption ==
    /\ MaxPid \in Nat /\ MaxPid >= Shell
    /\ Wants \subseteq [id : {AnyChild} \cup Pid,
                        options : SUBSET {"WEXITED", "WSTOPPED", "WCONTINUED", "WNOHANG"}]
    /\ Signals \subseteq {"SIGKILL", "SIGTERM", "SIGSTOP", "SIGCONT"}
    /\ MaxCalls \in Nat

VARIABLES
    state,      \* thread->state: "NEW" (not forked), "READY" (or running), "WAITING", "TERMINATED"
    pc,         \* where the process is in the kernel, see Place
    want,       \* the arguments of its do_wait
    parent,     \* process->parent
    children,   \* process->children, a sequence of pids
    gid,        \* process->gid
    flags,      \* process->flags
    pending,    \* a fatal signal is pending
    left,       \* how often its group kill will still stop the process itself
    pgrp,       \* tty->pgrp of the shell's terminal, 0 if none
    kills,      \* calls of kill so far
    exited,     \* history: the processes that have run do_exit
    reports,    \* history: how often a wait has reported the process
    raced,      \* history: do_wait went to sleep although a child or a signal had
                \* come since its look
    held,       \* history: the process was sent a stop signal or SIGTERM, which
                \* leave it asleep, or put it to sleep, wherever it is
    poked       \* history: after its exit the process was sent a signal, or was
                \* told of an exit, stop or continue as somebody's parent

vars == <<state, pc, want, parent, children, gid, flags, pending, left, pgrp,
          kills, exited, reports, raced, held, poked>>

\* "asleep" and "looked" are inside do_wait, "stopped" inside do_kill.
Place == {"user", "asleep", "looked", "stopped"}
Flag == {"SIGNAL_STOPED", "SIGNAL_CONTINUED", "SIGNAL_TERMINATED", "EXIT_TERMINATED"}
NoWant == [id |-> AnyChild, options |-> {}]

\* Every variable has its type and a process is in one children list at most.
TypeOK ==
    /\ state \in [Pid -> {"NEW", "READY", "WAITING", "TERMINATED"}]
    /\ pc \in [Pid -> Place]
    /\ want \in [Pid -> Wants \cup {NoWant}]
    /\ parent \in [Pid -> 0 .. MaxPid]
    /\ children \in [Pid -> Seq(Pid)]
    /\ \A p, q \in Pid : p # q => ToSet(children[p]) \cap ToSet(children[q]) = {}
    /\ gid \in [Pid -> 0 .. MaxPid]
    /\ flags \in [Pid -> SUBSET Flag]
    /\ pending \in [Pid -> BOOLEAN]
    /\ left \in [Pid -> 0 .. MaxPid]
    /\ pgrp \in 0 .. MaxPid
    /\ kills \in 0 .. MaxCalls
    /\ exited \subseteq Pid
    /\ reports \in [Pid -> Nat]
    /\ raced \subseteq Pid
    /\ held \subseteq Pid
    /\ poked \subseteq Pid

Init ==
    /\ state = [p \in Pid |-> IF p <= Shell THEN "READY" ELSE "NEW"]
    /\ pc = [p \in Pid |-> "user"]
    /\ want = [p \in Pid |-> NoWant]
    /\ parent = [p \in Pid |-> IF p = Shell THEN INIT_PID ELSE 0]
    /\ children = [p \in Pid |-> IF p = INIT_PID THEN <<Shell>> ELSE <<>>]
    /\ gid = [p \in Pid |-> IF p <= Shell THEN p ELSE 0]
    /\ flags = [p \in Pid |-> {}]
    /\ pending = [p \in Pid |-> FALSE]
    /\ left = [p \in Pid |-> 0]
    /\ pgrp = Shell
    /\ kills = 0
    /\ exited = {}
    /\ reports = [p \in Pid |-> 0]
    /\ raced = {}
    /\ held = {}
    /\ poked = {}

-----------------------------------------------------------------------------
Born == {p \in Pid : state[p] # "NEW"}
Alive == Born \ exited

MoreCalls == Cardinality(Born) - Shell + kills < MaxCalls

\* A process that can take a step at its place.  init only idles.
CanRun(p) == p # INIT_PID /\ p \in Alive /\ state[p] = "READY"

\* A process in user mode: a pending signal would have been taken on the way.
InUser(p) == CanRun(p) /\ pc[p] = "user" /\ ~pending[p]

\* The state of every thread after wake_up(&process->wait_chld) of process w,
\* whose entries are on the stacks of do_wait.
WakeUp(st, w) ==
    IF w # 0 /\ pc[w] \in {"asleep", "looked"} THEN [st EXCEPT ![w] = "READY"] ELSE st

\* process_fork and queue_thread.
Fork(p) ==
    LET c == Cardinality(Born) + 1
    IN  /\ InUser(p)
        /\ c \in Pid /\ MoreCalls
        /\ state' = [state EXCEPT ![c] = "READY"]
        /\ parent' = [parent EXCEPT ![c] = p]
        /\ children' = [children EXCEPT ![p] = Append(@, c)]
        /\ gid' = [gid EXCEPT ![c] = gid[p]]
        /\ UNCHANGED <<pc, want, flags, pending, left, pgrp, exited, reports,
                       raced, poked, kills, held>>

\* sys_setpgid(0, 0), and TIOCSPGRP on the shell's terminal.
Setpgid(p) ==
    /\ InUser(p)
    /\ gid[p] # p
    /\ gid' = [gid EXCEPT ![p] = p]
    /\ UNCHANGED <<state, pc, want, parent, children, flags, pending, left, pgrp, exited,
                   reports, raced, poked, kills, held>>

Tiocspgrp(p, g) ==
    /\ InUser(p)
    /\ g \in Born \ {INIT_PID} /\ g # pgrp
    /\ Shell \notin exited         \* tty->session = p->sid
    /\ pgrp' = g
    /\ UNCHANGED <<state, pc, want, parent, children, gid, flags, pending, left, exited,
                   reports, raced, poked, kills, held>>

-----------------------------------------------------------------------------
\* Mutant: orphans keep their parent.
ExitOrphans(p, cause) ==
    /\ state' = WakeUp([state EXCEPT ![p] = "TERMINATED"], parent[p])
    /\ flags' = [flags EXCEPT ![p] = IF cause = "exit" THEN @ \cup {"EXIT_TERMINATED"}
                                     ELSE {"SIGNAL_TERMINATED"}]
    /\ pgrp' = IF p = Shell THEN 0 ELSE pgrp
    /\ pending' = [pending EXCEPT ![p] = (p = Shell)]
    /\ exited' = exited \cup {p}
    /\ poked' = poked \cup ({parent[p]} \cap exited)
    /\ UNCHANGED <<pc, want, parent, children, gid, left, reports, raced, kills, held>>

\* Mutant: the parent is not woken.
ExitSilent(p, cause) ==
    /\ state' = [state EXCEPT ![p] = "TERMINATED"]
    /\ parent' = [c \in Pid |-> IF c \in ToSet(children[p]) THEN INIT_PID ELSE parent[c]]
    /\ flags' = [flags EXCEPT ![p] = IF cause = "exit" THEN @ \cup {"EXIT_TERMINATED"}
                                     ELSE {"SIGNAL_TERMINATED"}]
    /\ pgrp' = IF p = Shell THEN 0 ELSE pgrp
    /\ pending' = [pending EXCEPT ![p] = (p = Shell)]
    /\ exited' = exited \cup {p}
    /\ poked' = poked \cup ({parent[p]} \cap exited)
    /\ UNCHANGED <<pc, want, children, gid, left, reports, raced, kills, held>>

\* Mutant: init adopts the orphans without taking them out of the old list.
ExitAdopts(p, cause) ==
    /\ state' = WakeUp([state EXCEPT ![p] = "TERMINATED"], parent[p])
    /\ parent' = [c \in Pid |-> IF c \in ToSet(children[p]) THEN INIT_PID ELSE parent[c]]
    /\ children' = [children EXCEPT ![INIT_PID] = @ \o children[p]]
    /\ flags' = [flags EXCEPT ![p] = IF cause = "exit" THEN @ \cup {"EXIT_TERMINATED"}
                                     ELSE {"SIGNAL_TERMINATED"}]
    /\ pgrp' = IF p = Shell THEN 0 ELSE pgrp
    /\ pending' = [pending EXCEPT ![p] = (p = Shell)]
    /\ exited' = exited \cup {p}
    /\ poked' = poked \cup ({parent[p]} \cap exited)
    /\ UNCHANGED <<pc, want, gid, left, reports, raced, kills, held>>

\* Mutant: the process takes itself off its parent's list.
ExitForgets(p, cause) ==
    /\ state' = WakeUp([state EXCEPT ![p] = "TERMINATED"], parent[p])
    /\ parent' = [c \in Pid |-> IF c \in ToSet(children[p]) THEN INIT_PID ELSE parent[c]]
    /\ children' = [q \in Pid |-> SelectSeq(children[q], LAMBDA c : c # p)]
    /\ flags' = [flags EXCEPT ![p] = IF cause = "exit" THEN @ \cup {"EXIT_TERMINATED"}
                                     ELSE {"SIGNAL_TERMINATED"}]
    /\ pgrp' = IF p = Shell THEN 0 ELSE pgrp
    /\ pending' = [pending EXCEPT ![p] = (p = Shell)]
    /\ exited' = exited \cup {p}
    /\ poked' = poked \cup ({parent[p]} \cap exited)
    /\ UNCHANGED <<pc, want, gid, left, reports, raced, kills, held>>


\* do_exit, after handle_signal's changes to the flags if a signal is the
\* cause.  The session leader clears tty->pgrp before it sends SIGHUP to the
\* group -tty->pgrp: the signal goes to the leader of its own group, itself.
Exit(p, cause) ==
    /\ state' = WakeUp([state EXCEPT ![p] = "TERMINATED"], parent[p])
    /\ parent' = [c \in Pid |-> IF c \in ToSet(children[p]) THEN INIT_PID ELSE parent[c]]
    /\ flags' = [flags EXCEPT ![p] = IF cause = "exit" THEN @ \cup {"EXIT_TERMINATED"}
                                     ELSE {"SIGNAL_TERMINATED"}]
    /\ pgrp' = IF p = Shell THEN 0 ELSE pgrp
    /\ pending' = [pending EXCEPT ![p] = (p = Shell)]
    /\ exited' = exited \cup {p}
    /\ poked' = poked \cup ({parent[p]} \cap exited)
    /\ UNCHANGED <<pc, want, children, gid, left, reports, raced, kills, held>>

ExitCall(p) == InUser(p) /\ Exit(p, "exit")

\* A fatal signal is taken: on the way to user mode, or in schedule().
TakeSignal(p) == CanRun(p) /\ pc[p] # "looked" /\ pending[p] /\ Exit(p, "signal")

-----------------------------------------------------------------------------
Eligible(w, c) == w.id = AnyChild \/ w.id = c

Available(w, c) ==
    /\ Eligible(w, c)
    /\ \/ "WEXITED" \in w.options /\ flags[c] \cap {"SIGNAL_TERMINATED", "EXIT_TERMINATED"} # {}
       \/ "WSTOPPED" \in w.options /\ "SIGNAL_STOPED" \in flags[c]
       \/ "WCONTINUED" \in w.options /\ "SIGNAL_CONTINUED" \in flags[c]

\* The children that do_wait's loop would stop at, in list order.
Ready(p, w) == SelectSeq(children[p], LAMBDA c : Available(w, c))

\* infop->si_code.
ChildCode(c) ==
    IF "SIGNAL_STOPED" \in flags[c] THEN "CLD_STOPPED"
    ELSE IF "SIGNAL_CONTINUED" \in flags[c] THEN "CLD_CONTINUED"
    ELSE IF "SIGNAL_TERMINATED" \in flags[c] THEN "CLD_KILLED"
    ELSE "CLD_EXITED"


\* do_wait has found c: it fills infop (see ChildCode), unlinks the child and returns 1.
Report(p, c) ==
    /\ want' = [want EXCEPT ![p] = NoWant]
    /\ children' = [children EXCEPT ![p] = SelectSeq(@, LAMBDA d : d # c)]
    /\ reports' = [reports EXCEPT ![c] = @ + 1]
    /\ pc' = [pc EXCEPT ![p] = "user"]
    /\ UNCHANGED <<state, raced>>

\* update_thread(current_thread, THREAD_WAITING); schedule().
Sleep(p, w) ==
    /\ state' = [state EXCEPT ![p] = "WAITING"]
    /\ pc' = [pc EXCEPT ![p] = "asleep"]
    /\ want' = [want EXCEPT ![p] = w]
    /\ raced' = IF Ready(p, w) = <<>> /\ ~pending[p] THEN raced ELSE raced \cup {p}
    /\ UNCHANGED <<children, reports>>

\* do_wait up to its first sleep, with interrupts off.
Wait(p, w) ==
    /\ InUser(p)
    /\ \/ Ready(p, w) # <<>> /\ Report(p, Head(Ready(p, w)))
       \/ /\ Ready(p, w) = <<>> /\ "WNOHANG" \in w.options
          /\ UNCHANGED <<state, pc, want, children, reports, raced>>
       \/ Ready(p, w) = <<>> /\ "WNOHANG" \notin w.options /\ Sleep(p, w)
    /\ UNCHANGED <<parent, gid, flags, pending, left, pgrp, exited, poked, kills,
                   held>>

\* do_wait looks again after a wake-up, now with interrupts on.
WaitAgain(p) ==
    /\ CanRun(p) /\ pc[p] = "asleep" /\ ~pending[p]
    /\ \/ Ready(p, want[p]) # <<>> /\ Report(p, Head(Ready(p, want[p])))
       \/ /\ Ready(p, want[p]) = <<>>
          /\ pc' = [pc EXCEPT ![p] = "looked"]
          /\ UNCHANGED <<state, want, children, reports, raced>>
    /\ UNCHANGED <<parent, gid, flags, pending, left, pgrp, exited, poked, kills,
                   held>>

\* After the look, and whatever happened since, do_wait goes to sleep.
SleepLate(p) ==
    /\ CanRun(p) /\ pc[p] = "looked"
    /\ Sleep(p, want[p])
    /\ UNCHANGED <<parent, gid, flags, pending, left, pgrp, exited, poked, kills,
                   held>>

-----------------------------------------------------------------------------

\* do_kill(t, sig) with t > 0, called by c: stop and continue mark the caller
\* and tell the caller's parent; SIGKILL makes the target ready.
KillOne(c, t, sig) ==
    /\ state' = CASE sig = "SIGCONT" /\ t # c -> WakeUp([state EXCEPT ![t] = "READY"], parent[c])
                  [] sig = "SIGCONT" /\ t = c -> WakeUp(state, parent[c])
                  [] sig = "SIGSTOP" -> WakeUp([state EXCEPT ![t] = "WAITING"], parent[c])
                  [] sig = "SIGKILL" /\ t # c -> [state EXCEPT ![t] = "READY"]
                  [] OTHER -> state
    /\ flags' = CASE sig = "SIGCONT" ->
                       [flags EXCEPT ![c] = (@ \cup {"SIGNAL_CONTINUED"}) \ {"SIGNAL_STOPED"}]
                  [] sig = "SIGSTOP" ->
                       [flags EXCEPT ![c] = (@ \cup {"SIGNAL_STOPED"}) \ {"SIGNAL_CONTINUED"}]
                  [] OTHER -> flags
    /\ pending' = [pending EXCEPT ![t] = @ \/ sig \in {"SIGKILL", "SIGTERM"}]
    /\ pc' = IF sig = "SIGSTOP" /\ t = c THEN [pc EXCEPT ![c] = "stopped"] ELSE pc
    /\ held' = IF sig \in {"SIGSTOP", "SIGTERM"} THEN held \cup {t} ELSE held
    /\ poked' = poked \cup (exited \cap IF sig \in {"SIGCONT", "SIGSTOP"} THEN {t, parent[c]} ELSE {t})

Kill(c, t, sig) ==
    /\ InUser(c)
    /\ t \in Born \ {INIT_PID}
    /\ MoreCalls
    /\ kills' = kills + 1
    /\ KillOne(c, t, sig)
    /\ UNCHANGED <<want, parent, children, gid, left, pgrp, exited, reports, raced>>

Members(g) == {p \in Born : gid[p] = g}

\* do_kill(-g, sig), or do_kill(0, sig) for the caller's own group: the loop
\* over the group calls do_kill(proc->gid, sig) for every member.
KillGroup(c, g, sig) ==
    /\ InUser(c)
    /\ g \in Born \ {INIT_PID} /\ Members(g) # {}
    /\ MoreCalls
    /\ kills' = kills + 1
    /\ KillOne(c, g, sig)
    /\ left' = IF sig = "SIGSTOP" /\ g = c
               THEN [left EXCEPT ![c] = Cardinality(Members(g)) - 1] ELSE left
    /\ UNCHANGED <<want, parent, children, gid, pgrp, exited, reports, raced>>

\* A process that stopped itself goes on: with the loop over the group, which
\* may stop it again, or back to user mode.
Continue(p) ==
    /\ CanRun(p) /\ pc[p] = "stopped" /\ ~pending[p]
    /\ \/ /\ left[p] = 0
          /\ pc' = [pc EXCEPT ![p] = "user"]
          /\ UNCHANGED <<state, flags, pending, left, poked, held>>
       \/ /\ left[p] > 0
          /\ left' = [left EXCEPT ![p] = @ - 1]
          /\ KillOne(p, p, "SIGSTOP")
    /\ UNCHANGED <<want, parent, children, gid, pgrp, exited, reports, raced, kills>>

Next ==
    \/ \E p \in Pid : Fork(p) \/ Setpgid(p) \/ ExitCall(p) \/ TakeSignal(p)
    \/ \E p, g \in Pid : Tiocspgrp(p, g)
    \/ \E p \in Pid : \E w \in Wants : Wait(p, w)
    \/ \E p \in Pid : WaitAgain(p) \/ SleepLate(p) \/ Continue(p)
    \/ \E c, t \in Pid : \E sig \in Signals : Kill(c, t, sig) \/ KillGroup(c, t, sig)

Spec == Init /\ [][Next]_vars

\* A ready thread is eventually run, and leaves the kernel.
FairSpec ==
    Spec /\ \A p \in Pid : WF_vars(WaitAgain(p) \/ SleepLate(p) \/ Continue(p) \/ TakeSignal(p))

-----------------------------------------------------------------------------

\* A zombie that nobody has waited for can still be found by its parent's
\* do_wait, unless the parent it had has exited first: then its parent is init.
ZombieFindable ==
    \A c \in exited \ {Shell} : reports[c] = 0 =>
        c \in ToSet(children[parent[c]]) \/ parent[c] = INIT_PID

\* No living process has an exited parent, except a child that a wait has
\* reported as stopped or continued and unlinked (exit_notify's reparenting).
ParentLives ==
    \A c \in Alive \ {INIT_PID} : reports[c] = 0 => parent[c] \notin exited



\* A parent waiting for an exited child returns from do_wait, unless it went to
\* sleep on a stale look at its children, or was stopped.
WaitReturns ==
    \A p \in Pid :
        (/\ p \in Alive /\ pc[p] = "asleep" /\ "WEXITED" \in want[p].options
         /\ \E c \in ToSet(children[p]) \cap exited : Eligible(want[p], c))
            ~> (pc[p] = "user" \/ p \in exited \cup raced \cup held)

\* "CLD_STOPPED 5 /* child has stopped */" (proc/wait.h): a child reported as
\* stopped is stopped.
StoppedMeansStopped ==
    [][\A c \in Pid : reports'[c] # reports[c] /\ ChildCode(c) = "CLD_STOPPED"
           => state[c] = "WAITING"]_vars
=============================================================================
