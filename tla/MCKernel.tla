------------------------------ MODULE MCKernel ------------------------------
(***************************************************************************)
(* Parts of the kernel that several processes or CPUs use at once, on small *)
(* instances.  A behaviour is that of one of these machines: m says which. *)
(* The process table has its own variables and the constants that          *)
(* MCKernel.cfg gives; the other machines share v1, v2, ..., which are     *)
(* "off" if unused, and leave the process table in its initial state.      *)
(***************************************************************************)
EXTENDS Proc, Sequences

VARIABLES m, v1, v2, v3, v4, v5, v6, v7, v8, v9, v10

others == <<v1, v2, v3, v4, v5, v6, v7, v8, v9, v10>>

\* Three processes and three ticks.
Times == INSTANCE Times WITH
    Slot <- {1, 2, 3}, First <- 1, NoSlot <- 0, MaxTicks <- 3,
    ticks <- v1, proc <- v2, cpu0 <- v3, counting <- v4, waited <- v5, report <- v6

\* Two CPUs and two locks.
Spinlock == INSTANCE Spinlock WITH
    Cpu <- {1, 2}, NoCpu <- 0, Lock <- {1, 2},
    locked <- v1, owner <- v2, IF_ <- v3, ncli <- v4, intena <- v5, code <- v6, found <- v7,
    panicked <- v8

\* Two processes with two descriptors each share three file structures.
Ftable == INSTANCE Ftable WITH
    Proc <- {1, 2}, Init1 <- 1, NFILE <- 3, NOFILE <- 2, NPIPE <- 1, Inode <- {1},
    file <- v1, ofile <- v2, alive <- v3, todo <- v4, pipes <- v5, iref <- v6, panicked <- v7

\* Two processes share two files; one is on the disk and reaches its indirect
\* block, the other is a free inode.
Blocks == INSTANCE Blocks WITH
    Proc <- {1, 2}, NoProc <- 0, BSIZE <- 2, NDIRECT <- 1, LOGSIZE <- 1, IPB <- 2, FSSIZE <- 17, BPB <- 5,
    NINODES <- 3, MAXOPBLOCKS <- 6, WriteLen <- {5}, ReadLen <- {1},
    Images <- {<< <<2, 2, 2>> >>}, File <- <<2, 3>>,
    bitmap <- v1, blk <- v2, dinode <- v3, inode <- v4, lock <- v5, off <- v6, frame <- v7,
    logged <- v8, want <- v9, panicked <- v10

ASSUME Blocks!BlocksAssumption /\ Spinlock!SpinlockAssumption

Off == "off"

KernelInit ==
    /\ Init
    /\ \/ m = "proc" /\ v1 = Off /\ v2 = Off /\ v3 = Off /\ v4 = Off /\ v5 = Off
          /\ v6 = Off /\ v7 = Off /\ v8 = Off /\ v9 = Off /\ v10 = Off
       \/ m = "times" /\ Times!Init /\ v7 = Off /\ v8 = Off /\ v9 = Off /\ v10 = Off
       \/ m = "spinlock" /\ Spinlock!Init /\ v9 = Off /\ v10 = Off
       \/ m = "ftable" /\ Ftable!Init /\ v8 = Off /\ v9 = Off /\ v10 = Off
       \/ m = "blocks" /\ Blocks!Init

KernelNext ==
    \/ m = "proc" /\ Next /\ UNCHANGED <<m, others>>
    \/ m = "times" /\ Times!Next /\ UNCHANGED <<m, vars, v7, v8, v9, v10>>
    \/ m = "spinlock" /\ Spinlock!Next /\ UNCHANGED <<m, vars, v9, v10>>
    \/ m = "ftable" /\ Ftable!Next /\ UNCHANGED <<m, vars, v8, v9, v10>>
    \/ m = "blocks" /\ Blocks!Next /\ UNCHANGED <<m, vars>>

KernelSpec == KernelInit /\ [][KernelNext]_<<m, vars, others>>

-----------------------------------------------------------------------------
(* The properties of the other machines *)

\* What etime - ctime of a process that has ended says: the ticks, since it
\* began or last forked, in which it did not run on CPU 0 - the timer moves
\* ctime forward while the process runs.  It is never negative.
EndMinusCreation == m = "times" => Times!EndMinusCreation

\* Two CPUs never hold the same lock; a CPU that holds or waits for a lock
\* cannot be interrupted by a handler, which would spin on it forever; code
\* that holds no lock any more has the interrupt flag that its outermost
\* acquire() found, in whatever order it released them; and no code panics
\* for taking a lock that it holds or releasing one that it does not.
LocksSound ==
    m = "spinlock" => /\ Spinlock!MutualExclusion
                      /\ Spinlock!NoInterruptWithLock
                      /\ Spinlock!FlagRestored
                      /\ Spinlock!NoLockPanic

\* No interleaving and no failure half-way loses or invents a reference.  A
\* file structure counts its descriptors and the pointers that calls in
\* progress hold, less the duplications that they have not counted yet.  An
\* end of a pipe is open, and an inode is referenced, as long as some file
\* structure in use, or an open or close in progress, stands for it, even
\* when the slot is used again before the close.  filedup() and fileclose()
\* never meet a structure without a reference.
FilesCounted ==
    m = "ftable" => /\ Ftable!FileRefsExact
                    /\ Ftable!PipeEndsExact
                    /\ Ftable!InodeRefsExact
                    /\ Ftable!NoFilePanic

\* While no inode is locked, the bitmap marks exactly the blocks before the
\* data and the blocks that inodes own, no block has two owners, and every
\* block below the end of a file is allocated: neither the image of mkfs, nor
\* allocation by two writers at once, nor itrunc() loses or shares one.  The
\* chunks of filewrite() and itrunc() stay within what begin_op() reserves,
\* wherever in a block a write begins, and only a full disk panics.
BlocksAccounted ==
    m = "blocks" => /\ Blocks!TypeOK
                    /\ Blocks!BitmapExact /\ Blocks!NoHoles
                    /\ Blocks!TransactionFits /\ Blocks!PanicOnlyWhenFull

\* A file that nobody has locked holds what the chunks written to it say, in
\* the cached inode and in the one on the disk, so that it survives the
\* inode's leaving the cache; and a read reaches no word beyond them.
ContentsKept == m = "blocks" => Blocks!ContentsKept /\ Blocks!ReadsWithin
=============================================================================
