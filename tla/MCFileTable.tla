----------------------------- MODULE MCFileTable -----------------------------
(* Small instances of FileTable.                                           *)
EXTENDS FileTable, TLC
=============================================================================
