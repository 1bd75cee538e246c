------------------------------- MODULE Ftable -------------------------------
(***************************************************************************)
(* The table of open files (file.c), the descriptors of the processes and  *)
(* the system calls that fill, share and empty them (sysfile.c, fork() and *)
(* exit() of proc.c, pipealloc() of pipe.c).                               *)
(*                                                                         *)
(* What a process has still to do in its system call is a sequence todo of *)
(* operations, each a critical section of ftable.lock, of a pipe's lock or *)
(* of the inode cache; those of different processes interleave.            *)
(***************************************************************************)
EXTENDS Integers, Sequences, SequencesExt, FiniteSets, FiniteSetsExt

CONSTANTS Proc, Init1,    \* processes, and the one that runs at first
          NFILE, NOFILE,  \* size of the table; descriptors of a process
          NPIPE,          \* pages left for pipes
          Inode           \* inodes

VARIABLES file,      \* ftable.file
          ofile,     \* the descriptors of each process
          alive,     \* processes that exist
          todo,      \* what is left of the system call of each process
          pipes,     \* the ends of each pipe that are open; {} for a free page
          iref,      \* references to each inode
          panicked

vars == <<file, ofile, alive, todo, pipes, iref, panicked>>

Slot == 1 .. NFILE
Fd == 0 .. NOFILE - 1
Page == 1 .. NPIPE
NoFile == [ref |-> 0, type |-> "none", obj |-> 0, writable |-> FALSE]
Op(op, f, obj, w) == [op |-> op, f |-> f, obj |-> obj, w |-> w]
Closing(f) == Op("fileclose", f, 0, FALSE)
Iput(i) == Op("iput", 0, i, FALSE)

Init ==
    /\ file = [f \in Slot |-> NoFile]
    /\ ofile = [p \in Proc |-> [fd \in Fd |-> 0]]
    /\ alive = {Init1}
    /\ todo = [p \in Proc |-> <<>>]
    /\ pipes = [g \in Page |-> {}]
    /\ iref = [i \in Inode |-> 0]
    /\ panicked = FALSE

\* filealloc() finds f, the first slot that is not in use.
FreeSlots == {f \in Slot : file[f].ref = 0}
FreeFds(p) == {fd \in Fd : ofile[p][fd] = 0}

Ready(p) == p \in alive /\ todo[p] = <<>> /\ ~panicked
Doing(p, op) == ~panicked /\ todo[p] # <<>> /\ Head(todo[p]).op = op
Then(p, ops) == todo' = [todo EXCEPT ![p] = ops \o Tail(@)]
panic == panicked' = TRUE /\ UNCHANGED <<file, ofile, alive, todo, pipes, iref>>

-----------------------------------------------------------------------------
(* The parts of the calls *)

filedup(p) ==
    LET f == Head(todo[p]).f
    IN /\ Doing(p, "filedup")
       /\ IF file[f].ref < 1 THEN panic
          ELSE /\ file' = [file EXCEPT ![f].ref = @ + 1]
               /\ Then(p, <<>>)
               /\ UNCHANGED <<ofile, alive, pipes, iref, panicked>>

\* Mutant: the slot is copied after it has been cleared.
Copy_Late(f) == NoFile

\* ff, the copy of the slot that fileclose() takes.
Copy(f) == file[f]

\* fileclose(), up to the release of the lock; the rest works on ff.
fileclose(p) ==
    LET f == Head(todo[p]).f
        ff == Copy(f)
    IN /\ Doing(p, "fileclose")
       /\ IF file[f].ref < 1 THEN panic
          ELSE /\ file' = [file EXCEPT ![f] = IF @.ref > 1 THEN [@ EXCEPT !.ref = @ - 1]
                                              ELSE [@ EXCEPT !.ref = 0, !.type = "none"]]
               /\ Then(p, IF file[f].ref > 1 \/ ff.type = "none" THEN <<>>
                          ELSE IF ff.type = "pipe" THEN <<Op("pipeclose", 0, ff.obj, ff.writable)>>
                          ELSE <<Iput(ff.obj)>>)
               /\ UNCHANGED <<ofile, alive, pipes, iref, panicked>>

\* pipeclose(): the page is free when both ends are closed.
pipeclose(p) ==
    /\ Doing(p, "pipeclose")
    /\ pipes' = [pipes EXCEPT ![Head(todo[p]).obj] = @ \ {Head(todo[p]).w}]
    /\ Then(p, <<>>)
    /\ UNCHANGED <<file, ofile, alive, iref, panicked>>

iput(p) ==
    /\ Doing(p, "iput")
    /\ iref' = [iref EXCEPT ![Head(todo[p]).obj] = @ - 1]
    /\ Then(p, <<>>)
    /\ UNCHANGED <<file, ofile, alive, pipes, panicked>>

-----------------------------------------------------------------------------
(* sysfile.c *)

\* sys_dup(): the descriptor comes before the reference.
sys_dup(p, fd) ==
    /\ Ready(p) /\ ofile[p][fd] # 0
    /\ IF FreeFds(p) = {} THEN UNCHANGED <<ofile, todo>>
       ELSE /\ ofile' = [ofile EXCEPT ![p][Min(FreeFds(p))] = ofile[p][fd]]
            /\ todo' = [todo EXCEPT ![p] = <<Op("filedup", ofile[p][fd], 0, FALSE)>>]
    /\ UNCHANGED <<file, alive, pipes, iref, panicked>>

sys_close(p, fd) ==
    /\ Ready(p) /\ ofile[p][fd] # 0
    /\ ofile' = [ofile EXCEPT ![p][fd] = 0]
    /\ todo' = [todo EXCEPT ![p] = <<Closing(ofile[p][fd])>>]
    /\ UNCHANGED <<file, alive, pipes, iref, panicked>>

\* sys_open() has found inode i (namei() or create()).
sys_open(p, i) ==
    /\ Ready(p)
    /\ iref' = [iref EXCEPT ![i] = @ + 1]
    /\ todo' = [todo EXCEPT ![p] = <<Op("open", 0, i, FALSE)>>]
    /\ UNCHANGED <<file, ofile, alive, pipes, panicked>>

\* What sys_open() undoes when it has no file structure or no descriptor.
OpenFailed(f, i) == IF f = 0 THEN <<Iput(i)>> ELSE <<Closing(f), Iput(i)>>

\* sys_open(): filealloc() and fdalloc().
open_alloc(p) ==
    LET i == Head(todo[p]).obj
        f == Min(FreeSlots)
        fd == Min(FreeFds(p))
    IN /\ Doing(p, "open")
       /\ IF FreeSlots = {} THEN Then(p, OpenFailed(0, i)) /\ UNCHANGED <<file, ofile>>
          ELSE /\ file' = [file EXCEPT ![f].ref = 1]
               /\ IF FreeFds(p) = {} THEN Then(p, OpenFailed(f, i)) /\ UNCHANGED ofile
                  ELSE /\ ofile' = [ofile EXCEPT ![p][fd] = f]
                       /\ Then(p, <<Op("fill", f, i, FALSE)>>)
       /\ UNCHANGED <<alive, pipes, iref, panicked>>

\* sys_open(), of a file to be read: the file structure is filled after the
\* inode is unlocked.
open_fill(p) ==
    LET o == Head(todo[p])
    IN /\ Doing(p, "fill")
       /\ file' = [file EXCEPT ![o.f] = [@ EXCEPT !.type = "inode", !.obj = o.obj, !.writable = FALSE]]
       /\ Then(p, <<>>)
       /\ UNCHANGED <<ofile, alive, pipes, iref, panicked>>

\* sys_pipe(), up to the first filealloc() of pipealloc().
sys_pipe(p) ==
    /\ Ready(p)
    /\ IF FreeSlots = {} THEN UNCHANGED <<file, todo>>
       ELSE /\ file' = [file EXCEPT ![Min(FreeSlots)].ref = 1]
            /\ todo' = [todo EXCEPT ![p] = <<Op("pipe1", Min(FreeSlots), 0, FALSE)>>]
    /\ UNCHANGED <<ofile, alive, pipes, iref, panicked>>

\* pipealloc(): the second filealloc().
pipe_file1(p) ==
    LET f0 == Head(todo[p]).f
    IN /\ Doing(p, "pipe1")
       /\ IF FreeSlots = {} THEN Then(p, <<Closing(f0)>>) /\ UNCHANGED file
          ELSE /\ file' = [file EXCEPT ![Min(FreeSlots)].ref = 1]
               /\ Then(p, <<Op("pipe2", f0, Min(FreeSlots), FALSE)>>)
       /\ UNCHANGED <<ofile, alive, pipes, iref, panicked>>

\* pipealloc(): kalloc() and the two ends.
pipe_kalloc(p) ==
    LET f0 == Head(todo[p]).f
        f1 == Head(todo[p]).obj
        free == {g \in Page : pipes[g] = {}}
        g == Min(free)
    IN /\ Doing(p, "pipe2")
       /\ IF free = {} THEN Then(p, <<Closing(f0), Closing(f1)>>) /\ UNCHANGED <<file, pipes>>
          ELSE /\ pipes' = [pipes EXCEPT ![g] = BOOLEAN]
               /\ file' = [file EXCEPT ![f0] = [@ EXCEPT !.type = "pipe", !.obj = g, !.writable = FALSE],
                                       ![f1] = [@ EXCEPT !.type = "pipe", !.obj = g, !.writable = TRUE]]
               /\ Then(p, <<Op("pipe3", f0, f1, FALSE)>>)
       /\ UNCHANGED <<ofile, alive, iref, panicked>>

\* The descriptors after a failure of sys_pipe().
PipeFds(p, f0, f1) == ofile[p]

\* What sys_pipe() undoes when there are not two descriptors left.
PipeFailed(p, f0, f1) == <<Closing(f0), Closing(f1)>>

\* sys_pipe(): the two descriptors, or neither.
pipe_fdalloc(p) ==
    LET f0 == Head(todo[p]).f
        f1 == Head(todo[p]).obj
        fd0 == Min(FreeFds(p))
        fd1 == Min(FreeFds(p) \ {fd0})
    IN /\ Doing(p, "pipe3")
       /\ IF Cardinality(FreeFds(p)) < 2
          THEN /\ ofile' = [ofile EXCEPT ![p] = PipeFds(p, f0, f1)]
               /\ Then(p, PipeFailed(p, f0, f1))
          ELSE /\ ofile' = [ofile EXCEPT ![p][fd0] = f0, ![p][fd1] = f1]
               /\ Then(p, <<>>)
       /\ UNCHANGED <<file, alive, pipes, iref, panicked>>

-----------------------------------------------------------------------------
(* proc.c *)

OpenFds(p) == SetToSortSeq({fd \in Fd : ofile[p][fd] # 0}, LAMBDA a, b : a < b)

\* fork(): each open descriptor is duplicated in turn; np is not runnable yet.
fork(p, np) ==
    /\ Ready(p) /\ np \notin alive /\ todo[np] = <<>>
    /\ \A q \in alive : \A k \in DOMAIN todo[q] : todo[q][k].op = "forked" => todo[q][k].obj # np
    /\ todo' = [todo EXCEPT ![p] = [k \in DOMAIN OpenFds(p) |->
                                      Op("forkdup", ofile[p][OpenFds(p)[k]], <<np, OpenFds(p)[k]>>, FALSE)]
                                   \o <<Op("forked", 0, np, FALSE)>>]
    /\ UNCHANGED <<file, ofile, alive, pipes, iref, panicked>>

fork_dup(p) ==
    LET o == Head(todo[p])
    IN /\ Doing(p, "forkdup")
       /\ IF file[o.f].ref < 1 THEN panic
          ELSE /\ file' = [file EXCEPT ![o.f].ref = @ + 1]
               /\ ofile' = [ofile EXCEPT ![o.obj[1]][o.obj[2]] = o.f]
               /\ Then(p, <<>>)
               /\ UNCHANGED <<alive, pipes, iref, panicked>>

forked(p) ==
    /\ Doing(p, "forked")
    /\ alive' = alive \union {Head(todo[p]).obj}
    /\ Then(p, <<>>)
    /\ UNCHANGED <<file, ofile, pipes, iref, panicked>>

\* exit(): the descriptors are closed in turn.
exit(p) ==
    /\ Ready(p) /\ p # Init1
    /\ todo' = [todo EXCEPT ![p] = <<Op("exit", 0, 0, FALSE)>>]
    /\ UNCHANGED <<file, ofile, alive, pipes, iref, panicked>>

exit_close(p) ==
    /\ Doing(p, "exit")
    /\ IF OpenFds(p) = <<>> THEN alive' = alive \ {p} /\ Then(p, <<>>) /\ UNCHANGED ofile
       ELSE /\ ofile' = [ofile EXCEPT ![p][Head(OpenFds(p))] = 0]
            /\ todo' = [todo EXCEPT ![p] = <<Closing(ofile[p][Head(OpenFds(p))])>> \o @]
            /\ UNCHANGED alive
    /\ UNCHANGED <<file, pipes, iref, panicked>>

Next ==
    \E p \in Proc :
       \/ filedup(p) \/ fileclose(p) \/ pipeclose(p) \/ iput(p)
       \/ \E fd \in Fd : sys_dup(p, fd) \/ sys_close(p, fd)
       \/ \E i \in Inode : sys_open(p, i)
       \/ open_alloc(p) \/ open_fill(p)
       \/ sys_pipe(p) \/ pipe_file1(p) \/ pipe_kalloc(p) \/ pipe_fdalloc(p)
       \/ \E np \in Proc : fork(p, np)
       \/ fork_dup(p) \/ forked(p)
       \/ exit(p) \/ exit_close(p)

Spec == Init /\ [][Next]_vars

-----------------------------------------------------------------------------
(* Properties *)

\* How many operations that satisfy Is(_) are still to come.
Pending(Is(_)) == Cardinality({x \in UNION {{p} \X DOMAIN todo[p] : p \in Proc} : Is(todo[x[1]][x[2]])})
FdsOf(f) == Cardinality({x \in Proc \X Fd : ofile[x[1]][x[2]] = f})
Holds(o, f) == \/ o.op \in {"fileclose", "pipe1"} /\ o.f = f
               \/ o.op \in {"pipe2", "pipe3"} /\ f \in {o.f, o.obj}

\* A file structure counts its descriptors and the pointers that calls in
\* progress hold, less the duplications that they have not counted yet: no
\* interleaving and no failure half-way loses or invents a reference.
FileRefsExact ==
    ~panicked => \A f \in Slot :
       file[f].ref = FdsOf(f) + Pending(LAMBDA o : Holds(o, f))
                     - Pending(LAMBDA o : o.op = "filedup" /\ o.f = f)

\* An end of a pipe is open as long as some file structure in use, or a
\* close in progress, stands for it: the last close reaches pipeclose(), and
\* only the last one, even when the slot is used again before it.
PipeEndsExact ==
    ~panicked => \A g \in Page, w \in BOOLEAN :
       (w \in pipes[g]) <=>
          \/ \E f \in Slot : file[f].ref > 0 /\ file[f].type = "pipe" /\ file[f].obj = g
                             /\ file[f].writable = w
          \/ Pending(LAMBDA o : o.op = "pipeclose" /\ o.obj = g /\ o.w = w) > 0

\* An inode has a reference for every file structure open on it and for every
\* open or close in progress, the failed ones included.
InodeRefsExact ==
    ~panicked => \A i \in Inode :
       iref[i] = Cardinality({f \in Slot : file[f].ref > 0 /\ file[f].type = "inode" /\ file[f].obj = i})
                 + Pending(LAMBDA o : o.op \in {"iput", "open", "fill"} /\ o.obj = i)

\* filedup() and fileclose() never meet a file structure without a reference.
NoFilePanic == ~panicked
=============================================================================
