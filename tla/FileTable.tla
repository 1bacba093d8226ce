------------------------------ MODULE FileTable ------------------------------
(***************************************************************************)
(* Descriptor tables and the open files they share: vfs_open and vfs_close *)
(* (fs/open.c), F_DUPFD (fs/fcntl.c), dup2 (system/sysapi.c), pipes        *)
(* (fs/pipefs/pipe.c), and what fork (proc/task.c) and exit (proc/exit.c)  *)
(* do to them.  Every struct vfs_file and every struct pipe is a new       *)
(* element of File or Pipe, so a use after kfree shows.                    *)
(*                                                                         *)
(* System calls run with interrupts off or with the scheduler locked,      *)
(* except vfs_close, which turns interrupts on in acquire_semaphore: it is *)
(* two actions.                                                            *)
(***************************************************************************)
EXTENDS Integers, FiniteSets

CONSTANTS
    Proc, First,    \* the processes, and the one that exists at first
    File, NoFile,
    Pipe, NoPipe,
    MaxFd,          \* MAX_FD
    MaxOdd          \* bound: how many files may have a descriptor duplicated
                    \* or their vfs_close preempted

Fd == 0 .. MaxFd - 1

ASSUME FileTableAssumption ==
    /\ First \in Proc
    /\ NoFile \notin File
    /\ NoPipe \notin Pipe
    /\ MaxFd \in Nat \ {0}
    /\ MaxOdd \in Nat

VARIABLES
    life,       \* "unborn", "live" or "dead", for each process
    fd,         \* files->fd of each process
    closing,    \* the slot each process is closing in vfs_close, or MaxFd
    out,        \* the processes whose time slice ended there
    kind,       \* "none", "plain", "reader" or "writer", for each file
    count,      \* f_count
    released,   \* history: how often the file was released and freed
    raced,      \* history: files whose vfs_close was preempted
    duped,      \* history: files whose descriptor was duplicated
    pipe,       \* the pipe of each pipe end
    ends        \* pipe->readers and pipe->writers; pipe->files is their sum

vars == <<life, fd, closing, out, kind, count, released, raced,
          duped, pipe, ends>>

TypeOK ==
    /\ life \in [Proc -> {"unborn", "live", "dead"}]
    /\ fd \in [Proc -> [Fd -> File \cup {NoFile}]]
    /\ closing \in [Proc -> Fd \cup {MaxFd}]
    /\ out \subseteq Proc
    /\ kind \in [File -> {"none", "plain", "reader", "writer"}]
    /\ count \in [File -> Int] /\ \A f \in File \ duped : count[f] >= 0
    /\ released \in [File -> Nat]
    /\ raced \subseteq File
    /\ duped \subseteq File
    /\ pipe \in [File -> Pipe \cup {NoPipe}]
    /\ ends \in [Pipe -> [{"reader", "writer"} -> Int]]

Init ==
    /\ life = [p \in Proc |-> IF p = First THEN "live" ELSE "unborn"]
    /\ fd = [p \in Proc |-> [i \in Fd |-> NoFile]]
    /\ closing = [p \in Proc |-> MaxFd]
    /\ out = {}
    /\ kind = [f \in File |-> "none"]
    /\ count = [f \in File |-> 0]
    /\ released = [f \in File |-> 0]
    /\ raced = {}
    /\ duped = {}
    /\ pipe = [f \in File |-> NoPipe]
    /\ ends = [q \in Pipe |-> [e \in {"reader", "writer"} |-> 0]]


\* p has the processor: nobody else is inside vfs_close, unless preempted.
Runs(p) ==
    /\ life[p] = "live"
    /\ \A q \in Proc \ {p} : closing[q] # MaxFd => q \in out

\* p starts a system call.
Ready(p) == Runs(p) /\ closing[p] = MaxFd

Unused == {f \in File : kind[f] = "none"}

\* The unused slots from lowerlimit on, as find_unused_fd_slot meets them.
FreeSlots(p, lowerlimit) == {i \in Fd : i >= lowerlimit /\ fd[p][i] = NoFile}

FirstOf(slots) == CHOOSE i \in slots : \A j \in slots : i <= j

find_unused_fd_slot(p, lowerlimit) == FirstOf(FreeSlots(p, lowerlimit))

\* vfs_open of a file that has no release operation.
Open(p) ==
    /\ Ready(p)
    /\ FreeSlots(p, 0) # {}
    /\ Unused # {}
    /\ LET f == CHOOSE g \in Unused : TRUE
       IN  /\ kind' = [kind EXCEPT ![f] = "plain"]
           /\ count' = [count EXCEPT ![f] = 1]
           /\ fd' = [fd EXCEPT ![p][find_unused_fd_slot(p, 0)] = f]
    /\ UNCHANGED <<life, closing, released, out, raced, duped, pipe, ends>>

\* do_pipe: one file for each end.
DoPipe(p, q) ==
    /\ Ready(p)
    /\ Cardinality(FreeSlots(p, 0)) >= 2
    /\ \A f \in File : pipe[f] # q
    /\ Cardinality(Unused) >= 2
    /\ LET f1 == CHOOSE g \in Unused : TRUE
           f2 == CHOOSE g \in Unused \ {f1} : TRUE
           ufd1 == find_unused_fd_slot(p, 0)
           ufd2 == FirstOf(FreeSlots(p, 0) \ {ufd1})
       IN  /\ kind' = [kind EXCEPT ![f1] = "reader", ![f2] = "writer"]
           /\ count' = [count EXCEPT ![f1] = 1, ![f2] = 1]
           /\ pipe' = [pipe EXCEPT ![f1] = q, ![f2] = q]
           /\ fd' = [fd EXCEPT ![p][ufd1] = f1, ![p][ufd2] = f2]
    /\ ends' = [ends EXCEPT ![q] = [e \in {"reader", "writer"} |-> 1]]
    /\ UNCHANGED <<life, closing, released, out, raced, duped>>

FewOdd == Cardinality(duped' \cup raced') <= MaxOdd

\* F_DUPFD of do_fcntl.
Dup(p, i, lowerlimit) ==
    /\ Ready(p)
    /\ fd[p][i] # NoFile
    /\ FreeSlots(p, lowerlimit) # {}
    /\ fd' = [fd EXCEPT ![p][find_unused_fd_slot(p, lowerlimit)] = fd[p][i]]
    /\ duped' = duped \cup {fd[p][i]}
    /\ UNCHANGED <<life, closing, kind, count, released, out, raced, pipe, ends>>
    /\ FewOdd

\* sys_dup2.
Dup2(p, oldfd, newfd) ==
    /\ Ready(p)
    /\ fd' = [fd EXCEPT ![p][newfd] = fd[p][oldfd]]
    /\ duped' = duped \cup ({fd[p][oldfd]} \ {NoFile})
    /\ UNCHANGED <<life, closing, kind, count, released, out, raced, pipe, ends>>
    /\ FewOdd

-----------------------------------------------------------------------------
(* Releasing files.                                                        *)


\* pipe_release for each of the files fs that is a pipe end: its end of the
\* pipe is counted down.
ReleasedEnds(fs) ==
    [q \in Pipe |-> [e \in {"reader", "writer"} |->
        ends[q][e] - Cardinality({f \in fs : pipe[f] = q /\ kind[f] = e})]]

\* The operation release, if there is one, and kfree(file).
ReleaseFiles(fs) ==
    /\ released' = [f \in File |-> IF f \in fs THEN released[f] + 1 ELSE released[f]]
    /\ ends' = ReleasedEnds(fs)

\* vfs_close up to atomic_dec.  Bound: f_count goes no further below zero.
CloseDec(p, i) ==
    /\ Ready(p)
    /\ fd[p][i] # NoFile
    /\ count[fd[p][i]] >= 0
    /\ count' = [count EXCEPT ![fd[p][i]] = @ - 1]
    /\ closing' = [closing EXCEPT ![p] = i]
    /\ UNCHANGED <<life, fd, kind, released, out, raced, duped, pipe, ends>>


\* Mutant: the file is counted down again before it is freed.
CloseTestAgain(p) ==
    /\ Runs(p)
    /\ closing[p] # MaxFd
    /\ LET f == fd[p][closing[p]]
       IN  /\ ReleaseFiles(IF count[f] = 0 THEN {f} ELSE {})
           /\ count' = [count EXCEPT ![f] = IF @ = 0 THEN @ - 1 ELSE @]
    /\ fd' = [fd EXCEPT ![p][closing[p]] = NoFile]
    /\ closing' = [closing EXCEPT ![p] = MaxFd]
    /\ out' = out \ {p}
    /\ UNCHANGED <<life, kind, raced, duped, pipe>>

\* The rest of vfs_close: atomic_read, and the release if it is zero.
CloseTest(p) ==
    /\ Runs(p)
    /\ closing[p] # MaxFd
    /\ LET f == fd[p][closing[p]]
       IN  ReleaseFiles(IF count[f] = 0 THEN {f} ELSE {})
    /\ fd' = [fd EXCEPT ![p][closing[p]] = NoFile]
    /\ closing' = [closing EXCEPT ![p] = MaxFd]
    /\ out' = out \ {p}
    /\ UNCHANGED <<life, kind, count, raced, duped, pipe>>

\* The time slice ends between the two halves of vfs_close.
Preempt(p) ==
    /\ Runs(p)
    /\ closing[p] # MaxFd /\ p \notin out
    /\ out' = out \cup {p}
    /\ raced' = raced \cup {fd[p][closing[p]]}
    /\ UNCHANGED <<life, fd, closing, kind, count, released, duped, pipe, ends>>
    /\ FewOdd

\* Mutant: clone_file_descriptor_table without atomic_inc.
ForkUncounted(p, c) ==
    /\ Ready(p)
    /\ life[c] = "unborn"
    /\ life' = [life EXCEPT ![c] = "live"]
    /\ fd' = [fd EXCEPT ![c] = fd[p]]
    /\ UNCHANGED <<closing, kind, count, released, out, raced, duped, pipe, ends>>

\* clone_file_descriptor_table: the child shares every open file.
Fork(p, c) ==
    /\ Ready(p)
    /\ life[c] = "unborn"
    /\ life' = [life EXCEPT ![c] = "live"]
    /\ fd' = [fd EXCEPT ![c] = fd[p]]
    /\ count' = [f \in File |-> count[f] + Cardinality({i \in Fd : fd[p][i] = f})]
    /\ UNCHANGED <<closing, kind, released, out, raced, duped, pipe, ends>>

\* exit_files: the files nobody shares are released, if they have a release
\* operation; no count changes.  Two slots with one file release it twice.
Exit(p) ==
    LET gone == {i \in Fd : /\ fd[p][i] # NoFile
                            /\ count[fd[p][i]] = 1
                            /\ kind[fd[p][i]] # "plain"}
        times(f) == Cardinality({i \in gone : fd[p][i] = f})
    IN  /\ Ready(p)
        /\ released' = [f \in File |-> released[f] + times(f)]
        /\ ends' = [q \in Pipe |-> [e \in {"reader", "writer"} |->
                      ends[q][e] - Cardinality(
                          {i \in gone : pipe[fd[p][i]] = q /\ kind[fd[p][i]] = e})]]
        /\ fd' = [fd EXCEPT ![p] = [i \in Fd |-> IF i \in gone THEN NoFile ELSE @[i]]]
        /\ life' = [life EXCEPT ![p] = "dead"]
        /\ UNCHANGED <<closing, kind, count, out, raced, duped, pipe>>

-----------------------------------------------------------------------------
Next ==
    \E p \in Proc :
        \/ Open(p) \/ CloseTest(p) \/ Preempt(p) \/ Exit(p)
        \/ \E q \in Pipe : DoPipe(p, q)
        \/ \E i \in Fd : CloseDec(p, i)
        \/ \E i, j \in Fd : Dup(p, i, j) \/ Dup2(p, i, j)
        \/ \E c \in Proc : Fork(p, c)

Spec == Init /\ [][Next]_vars

-----------------------------------------------------------------------------
(* Properties.                                                             *)

\* The descriptors of live processes that refer to f, but for those whose
\* vfs_close has already counted down.
Users(f) == {<<p, i>> \in Proc \X Fd : /\ life[p] = "live"
                                       /\ fd[p][i] = f
                                       /\ closing[p] # i}

OpenFiles == {f \in File : kind[f] # "none" /\ released[f] = 0}


\* As long as nobody uses dup2 or F_DUPFD, f_count is never smaller than the
\* number of descriptors.
CountCovers == \A f \in OpenFiles \ duped : count[f] >= Cardinality(Users(f))



=============================================================================
