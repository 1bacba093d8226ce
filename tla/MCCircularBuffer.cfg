\* A ring of four bytes, in every position of its two pointers.
SPECIFICATION Spec
CONSTANTS
    Max = 4
    Byte = {b1, b2}
    NoByte = NoByte
INVARIANTS TypeOK
PROPERTIES ImplementsFifo
