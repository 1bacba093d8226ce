\* Two processes share files and a pipe.  Both may exit, and the
\* time slice may end inside vfs_close.
SPECIFICATION Spec
CONSTANTS
    Proc = {p1, p2}
    First = p1
    File = {f1, f2, f3}
    NoFile = NoFile
    Pipe = {q1}
    NoPipe = NoPipe
    MaxFd = 2
    MaxOdd = 1
INVARIANTS TypeOK  CountCovers  
CHECK_DEADLOCK FALSE
