------------------------------ MODULE MCSignals ------------------------------
(***************************************************************************)
(* A process that meets SIGQUIT (dumps core), SIGKILL and SIGCHLD (ignored *)
(* by default).                                                            *)
(***************************************************************************)
EXTENDS Signals

SIGQUIT == 3
SIGCHLD == 17
MixedSignals == {SIGQUIT, 9, SIGCHLD}
QuitOnly == {SIGQUIT}
ChldOnly == {SIGCHLD}
KillOnly == {9}
Masks == {{}, {9, SIGQUIT}, {SIGCHLD}}
None == {}

=============================================================================
