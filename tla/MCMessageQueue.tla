--------------------------- MODULE MCMessageQueue ----------------------------
(* Small instances of MessageQueue.                                        *)
EXTENDS MessageQueue, TLC
=============================================================================
