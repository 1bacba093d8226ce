----------------------------- MODULE MCScheduler -----------------------------
(* Small instances of Scheduler.                                           *)
EXTENDS Scheduler

CONSTANTS sw, it, ws, a1, a2

\* One system thread (the window server) and two app threads.
MixedThreads == {sw, it, ws, a1, a2}

MixedPolicy == [t \in MixedThreads |-> IF t \in {sw, it} THEN "kernel"
                                       ELSE IF t = ws THEN "system" ELSE "app"]

\* No signal is ever sent.
NoKill == {}

=============================================================================
