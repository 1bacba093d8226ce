---------------------------- MODULE CircularBuffer ----------------------------
(***************************************************************************)
(* utils/circular_buffer.c: the ring that pipes and the keyboard queue use,*)
(* with its head, tail and full flag.                                      *)
(***************************************************************************)
EXTENDS Integers, Sequences

CONSTANTS
    Max,        \* the size given to circular_buf_init
    Byte,
    NoByte      \* what get leaves when the buffer is empty

\* "Requires: buffer is not NULL, size > 0"
ASSUME SizeAssumption == Max \in Nat \ {0}

ASSUME ByteAssumption == NoByte \notin Byte

VARIABLES buffer, head, tail, full,
          got           \* the byte the last circular_buf_get delivered

vars == <<buffer, head, tail, full, got>>

TypeOK ==
    /\ buffer \in [0 .. Max - 1 -> Byte]
    /\ head \in 0 .. Max - 1
    /\ tail \in 0 .. Max - 1
    /\ full \in BOOLEAN
    /\ got \in Byte \cup {NoByte}

\* circular_buf_init on a buffer that holds anything.
Init ==
    /\ buffer \in [0 .. Max - 1 -> Byte]
    /\ head = 0
    /\ tail = 0
    /\ full = FALSE
    /\ got = NoByte

Empty == ~full /\ head = tail

\* circular_buf_size
Size ==
    IF full THEN Max
    ELSE IF head >= tail THEN head - tail
    ELSE Max + head - tail

\* circular_buf_reset
Reset ==
    /\ head' = 0
    /\ tail' = 0
    /\ full' = FALSE
    /\ UNCHANGED <<buffer, got>>

\* Mutant: the tail is left behind when the buffer is full.
AdvanceKeepTail ==
    /\ tail' = tail
    /\ head' = (head + 1) % Max
    /\ full' = (head' = tail')

\* advance_pointer
Advance ==
    /\ tail' = IF full THEN (tail + 1) % Max ELSE tail
    /\ head' = (head + 1) % Max
    /\ full' = (head' = tail')

\* Mutant: the tail runs past the end.
RetreatNoWrap ==
    /\ full' = FALSE
    /\ tail' = tail + 1

\* retreat_pointer
Retreat ==
    /\ full' = FALSE
    /\ tail' = (tail + 1) % Max

\* circular_buf_put
Put(d) ==
    /\ buffer' = [buffer EXCEPT ![head] = d]
    /\ Advance
    /\ got' = got

\* circular_buf_put2
Put2(d) ==
    IF full THEN UNCHANGED vars
    ELSE /\ buffer' = [buffer EXCEPT ![head] = d]
         /\ Advance
         /\ got' = got

\* circular_buf_get
Get ==
    IF Empty THEN got' = NoByte /\ UNCHANGED <<buffer, head, tail, full>>
    ELSE /\ got' = buffer[tail]
         /\ Retreat
         /\ UNCHANGED <<buffer, head>>

Next == Reset \/ Get \/ \E d \in Byte : Put(d) \/ Put2(d)

Spec == Init /\ [][Next]_vars

-----------------------------------------------------------------------------
(* Properties.                                                             *)

\* The full flag tells a full ring from an empty one.
FullMeansMet == full => head = tail

\* The i-th oldest byte of the ring.
Slot(i) == IF tail + i <= Max THEN tail + i - 1 ELSE tail + i - 1 - Max

Content == [i \in 1 .. Size |-> buffer[Slot(i)]]

Abstract == INSTANCE BoundedFifo WITH queue <- Content

\* circular_buffer.c is a queue of at most Max bytes whose oldest bytes give
\* way when it is full, as circular_buffer.h says.
ImplementsFifo == Abstract!Spec

=============================================================================
