---------------------------- MODULE MCProcessTree ----------------------------
(***************************************************************************)
(* init, a shell with a terminal, and its descendants.                     *)
(***************************************************************************)
EXTENDS ProcessTree

Exited == [id |-> AnyChild, options |-> {"WEXITED"}]
Third == [id |-> 3, options |-> {"WEXITED", "WNOHANG"}]
Stopped == [id |-> AnyChild, options |-> {"WSTOPPED", "WCONTINUED"}]

WaitAll == {Exited, Third, Stopped}
AllSignals == {"SIGKILL", "SIGTERM", "SIGSTOP", "SIGCONT"}

=============================================================================
