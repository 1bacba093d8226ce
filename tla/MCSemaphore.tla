----------------------------- MODULE MCSemaphore -----------------------------
(* Small instances of Semaphore.                                           *)
EXTENDS Semaphore
=============================================================================
