-------------------------------- MODULE Log --------------------------------
(***************************************************************************)
(* The write-ahead log of log.c: concurrent file-system calls between      *)
(* begin_op() and end_op(), log_write(), group commit by the last call to  *)
(* end, crashes at any moment and recovery in initlog().                   *)
(*                                                                         *)
(* A critical section of log.lock is one action; so is one synchronous     *)
(* bwrite().  The in-memory header lh and the header block on disk are     *)
(* sequences of block numbers (n is the length).  A block's contents are   *)
(* one value.  The buffer cache is seen through bread(): a block is either *)
(* cached or not, and bget() recycles only buffers that are neither in use *)
(* nor B_DIRTY.                                                            *)
(***************************************************************************)
EXTENDS Naturals, Sequences, FiniteSets, Functions

CONSTANTS
    Proc,         \* processes that make file-system calls
    Block,        \* numbers of the blocks that hold file-system data
    Value,        \* contents of a block
    NoValue,      \* "not cached"
    NoBlock,      \* "holds no buffer"
    MAXOPBLOCKS,  \* distinct blocks one file-system call may write
    LOGSIZE,      \* slots of a log header
    Size          \* log.size: blocks of the on-disk log, its header included

ASSUME LogAssumption ==
    /\ IsFiniteSet(Proc)
    /\ IsFiniteSet(Block)
    /\ NoValue \notin Value
    /\ NoBlock \notin Block
    /\ MAXOPBLOCKS \in Nat \ {0}
    /\ LOGSIZE \in Nat \ {0}
    /\ Size \in Nat \ {0}

VARIABLES
    home,         \* on disk: every data block at its home location
    logblk,       \* on disk: the data blocks of the log
    head,         \* on disk: the log's header block
    cache,        \* contents of the cached buffers
    dirty,        \* blocks whose buffer is B_DIRTY
    lh,           \* log.lh
    outstanding,  \* log.outstanding
    committing,   \* log.committing
    step,         \* where commit() or recover_from_log() is
    tail,         \* the loop counter of write_log() and install_trans()
    pc,           \* where each process is
    held,         \* the buffer a process holds while it calls log_write()
    wrote         \* the blocks a process has logged in its current call

disk == <<home, logblk, head>>
mem  == <<cache, dirty, lh, outstanding, committing>>
ctl  == <<step, tail>>
proc == <<pc, held, wrote>>
vars == <<disk, mem, ctl, proc>>

\* Processes between begin_op() and end_op().
Active == {p \in Proc : pc[p] \in {"op", "log_write", "panic"}}

\* What bread(b) returns: the cached buffer, or the block read from disk.
bread(b) == IF cache[b] # NoValue THEN cache[b] ELSE home[b]

Init ==
    /\ home \in [Block -> Value]
    /\ logblk \in [1..LOGSIZE -> Value]
    /\ head = <<>>
    /\ cache = [b \in Block |-> NoValue]
    /\ dirty = {}
    /\ lh = <<>>
    /\ outstanding = 0
    /\ committing = FALSE
    /\ step = "none"
    /\ tail = 0
    /\ pc = [p \in Proc |-> "idle"]
    /\ held = [p \in Proc |-> NoBlock]
    /\ wrote = [p \in Proc |-> {}]

\* initlog() has returned.
Up == step # "none" => committing

-----------------------------------------------------------------------------
(* begin_op() *)

\* Mutant: the reservation forgets the call that asks.
NoSpace_ForgetsSelf == Len(lh) + outstanding * MAXOPBLOCKS > LOGSIZE

\* this op might exhaust log space
NoSpace == Len(lh) + (outstanding + 1) * MAXOPBLOCKS > LOGSIZE

begin_op_sleep(p) ==
    /\ Up
    /\ pc[p] \in {"idle", "begin_op"}
    /\ committing \/ NoSpace
    /\ pc' = [pc EXCEPT ![p] = "sleep"]
    /\ UNCHANGED <<disk, mem, ctl, held, wrote>>

begin_op(p) ==
    /\ Up
    /\ pc[p] \in {"idle", "begin_op"}
    /\ ~committing /\ ~NoSpace
    /\ outstanding' = outstanding + 1
    /\ pc' = [pc EXCEPT ![p] = "op"]
    /\ wrote' = [wrote EXCEPT ![p] = {}]
    /\ UNCHANGED <<disk, cache, dirty, lh, committing, ctl, held>>

\* Mutant: the wakeup is missing.
Wakeup_Nobody(p, s) == pc' = [pc EXCEPT ![p] = s]

\* wakeup(&log), and process p goes on to state s.
Wakeup(p, s) ==
    pc' = [q \in Proc |-> IF q = p THEN s
                          ELSE IF pc[q] = "sleep" THEN "begin_op" ELSE pc[q]]

-----------------------------------------------------------------------------
(* log_write() *)

\* The caller has locked and modified a buffer; log_write() makes its two
\* checks before it takes log.lock.
log_write_check(p, b, v) ==
    /\ Up
    /\ pc[p] = "op"
    /\ \A q \in Proc : held[q] # b
    /\ b \in wrote[p] \/ Cardinality(wrote[p]) < MAXOPBLOCKS
    /\ cache' = [cache EXCEPT ![b] = v]
    /\ held' = [held EXCEPT ![p] = b]
    /\ pc' = [pc EXCEPT ![p] =
                IF \/ Len(lh) >= LOGSIZE \/ Len(lh) >= Size - 1
                   \/ outstanding < 1
                THEN "panic" ELSE "log_write"]
    /\ UNCHANGED <<disk, dirty, lh, outstanding, committing, ctl, wrote>>

\* Under log.lock: absorb or append, pin the buffer; the caller's brelse().
log_write(p) ==
    /\ Up
    /\ pc[p] = "log_write"
    /\ LET b == held[p]
       IN /\ lh' = IF b \in Range(lh) THEN lh ELSE Append(lh, b)
          /\ dirty' = dirty \union {b}
          /\ wrote' = [wrote EXCEPT ![p] = @ \union {b}]
    /\ held' = [held EXCEPT ![p] = NoBlock]
    /\ pc' = [pc EXCEPT ![p] = "op"]
    /\ UNCHANGED <<disk, cache, outstanding, committing, ctl>>

-----------------------------------------------------------------------------
(* end_op() and commit() *)

end_op(p) ==
    /\ Up
    /\ pc[p] = "op"
    /\ outstanding' = outstanding - 1
    /\ IF ~committing /\ outstanding = 1
       THEN /\ committing' = TRUE
            /\ step' = IF lh # <<>> THEN "write_log" ELSE "committed"
            /\ pc' = [pc EXCEPT ![p] = "commit"]
       ELSE /\ Wakeup(p, IF committing THEN "panic" ELSE "idle")
            /\ UNCHANGED <<committing, step>>
    /\ UNCHANGED <<disk, cache, dirty, lh, tail, held, wrote>>

\* Mutant: the loop stops one entry early.
Turn_Short(next) ==
    IF tail + 2 < Len(lh) THEN tail' = tail + 1 /\ UNCHANGED step
                          ELSE tail' = 0 /\ step' = next

\* Mutant: the loop counter is not incremented.
Turn_Stuck(next) ==
    IF tail + 1 < Len(lh) THEN UNCHANGED <<tail, step>>
                          ELSE tail' = 0 /\ step' = next

\* One turn of a loop over the header, and the step that follows the loop.
Turn(next) ==
    IF tail + 1 < Len(lh) THEN tail' = tail + 1 /\ UNCHANGED step
                          ELSE tail' = 0 /\ step' = next

write_log ==
    /\ step = "write_log"
    /\ LET b == lh[tail + 1]
       IN /\ logblk' = [logblk EXCEPT ![tail + 1] = bread(b)]
          /\ cache' = [cache EXCEPT ![b] = bread(b)]
    /\ Turn("write_head")
    /\ UNCHANGED <<home, head, dirty, lh, outstanding, committing, proc>>

write_head ==
    /\ step = "write_head"
    /\ head' = lh
    /\ step' = "install_trans"
    /\ UNCHANGED <<home, logblk, mem, tail, proc>>

install_trans ==
    /\ step = "install_trans"
    /\ LET b == lh[tail + 1]
       IN /\ home' = [home EXCEPT ![b] = logblk[tail + 1]]
          /\ cache' = [cache EXCEPT ![b] = logblk[tail + 1]]
          /\ dirty' = dirty \ {b}
    /\ Turn("erase")
    /\ UNCHANGED <<logblk, head, lh, outstanding, committing, proc>>

\* log.lh.n = 0 and the second write_head(), in commit() and in recovery.
erase ==
    /\ step = "erase"
    /\ lh' = <<>>
    /\ head' = <<>>
    /\ step' = IF committing THEN "committed" ELSE "none"
    /\ UNCHANGED <<home, logblk, cache, dirty, outstanding, committing, tail, proc>>

\* The committing process returns from end_op().
end_commit(p) ==
    /\ step = "committed"
    /\ pc[p] = "commit"
    /\ committing' = FALSE
    /\ step' = "none"
    /\ Wakeup(p, "idle")
    /\ UNCHANGED <<disk, cache, dirty, lh, outstanding, tail, held, wrote>>

-----------------------------------------------------------------------------
(* The buffer cache around the log *)

\* Any process reads a block that is not cached.
Load(b) ==
    /\ Up
    /\ cache[b] = NoValue
    /\ cache' = [cache EXCEPT ![b] = home[b]]
    /\ UNCHANGED <<disk, dirty, lh, outstanding, committing, ctl, proc>>

\* Mutant: bget() takes a B_DIRTY buffer whose refcnt is 0.
Recycle_Dirty(b) ==
    /\ Up
    /\ cache[b] # NoValue
    /\ \A p \in Proc : held[p] # b
    /\ cache' = [cache EXCEPT ![b] = NoValue]
    /\ UNCHANGED <<disk, dirty, lh, outstanding, committing, ctl, proc>>

\* bget() recycles a buffer for another block.
Recycle(b) ==
    /\ Up
    /\ cache[b] # NoValue
    /\ b \notin dirty
    /\ \A p \in Proc : held[p] # b
    /\ cache' = [cache EXCEPT ![b] = NoValue]
    /\ UNCHANGED <<disk, dirty, lh, outstanding, committing, ctl, proc>>

-----------------------------------------------------------------------------
(* Crash, restart and recovery *)

\* Power fails or the machine is reset: memory is lost.
Crash ==
    /\ cache' = [b \in Block |-> NoValue]
    /\ dirty' = {}
    /\ lh' = <<>>
    /\ outstanding' = 0
    /\ committing' = FALSE
    /\ step' = "read_head"
    /\ tail' = 0
    /\ pc' = [p \in Proc |-> "idle"]
    /\ held' = [p \in Proc |-> NoBlock]
    /\ wrote' = [p \in Proc |-> {}]
    /\ UNCHANGED disk

\* recover_from_log(): read_head(), then install_trans and erase above.
read_head ==
    /\ step = "read_head"
    /\ lh' = head
    /\ step' = IF head # <<>> THEN "install_trans" ELSE "erase"
    /\ UNCHANGED <<disk, cache, dirty, outstanding, committing, tail, proc>>

-----------------------------------------------------------------------------
LogStep == read_head \/ write_log \/ write_head \/ install_trans \/ erase

ProcStep(p) ==
    \/ begin_op_sleep(p)
    \/ begin_op(p)
    \/ \E b \in Block, v \in Value : log_write_check(p, b, v)
    \/ log_write(p)
    \/ end_op(p)
    \/ end_commit(p)

Next ==
    \/ \E p \in Proc : ProcStep(p)
    \/ LogStep
    \/ \E b \in Block : Load(b) \/ Recycle(b)
    \/ Crash

Spec == Init /\ [][Next]_vars

\* A process that runs in the kernel is scheduled again; a file-system call
\* logs finitely many blocks and then ends; the disk answers.
Fairness ==
    /\ WF_vars(LogStep)
    /\ \A p \in Proc :
        /\ WF_vars(pc[p] = "begin_op" /\ (begin_op(p) \/ begin_op_sleep(p)))
        /\ WF_vars(log_write(p))
        /\ SF_vars(end_op(p))
        /\ WF_vars(end_commit(p))

FairSpec == Spec /\ Fairness

-----------------------------------------------------------------------------
(* Properties *)

\* Every variable has its type.
TypeOK ==
    /\ home \in [Block -> Value]
    /\ logblk \in [1..LOGSIZE -> Value]
    /\ head \in Seq(Block)
    /\ cache \in [Block -> Value \union {NoValue}]
    /\ dirty \subseteq Block
    /\ lh \in Seq(Block)
    /\ outstanding \in Nat
    /\ committing \in BOOLEAN
    /\ step \in {"none", "read_head", "write_log", "write_head",
                 "install_trans", "erase", "committed"}
    /\ tail \in Nat
    /\ pc \in [Proc -> {"idle", "begin_op", "sleep", "op", "log_write",
                        "commit", "panic"}]
    /\ held \in [Proc -> Block \union {NoBlock}]
    /\ wrote \in [Proc -> SUBSET Block]

\* The blocks the running calls may still add to the log: the k-th block of a
\* call that has logged fewer than k.
Reserved ==
    {r \in Active \X (1..MAXOPBLOCKS) : Cardinality(wrote[r[1]]) < r[2]}

\* begin_op()'s reservation covers every block the admitted calls may still
\* log, so the log header never overflows, although log_write() tests its
\* length before it takes log.lock (log.c:132, log.c:218).
SpaceReserved == Len(lh) + Cardinality(Reserved) <= LOGSIZE

\* "The logging system only commits when there are no FS system calls
\* active" (log.c:12): while commit() runs no call is outstanding, nobody
\* else commits, and nobody holds a block it has yet to log.
CommitAlone ==
    committing =>
        /\ outstanding = 0 /\ Active = {}
        /\ \A p, q \in Proc : pc[p] = "commit" /\ pc[q] = "commit" => p = q

\* The contents of a disk onto which a log with header hd is installed.
Installed(hd, copies, at_home) ==
    [b \in Block |-> IF b \in Range(hd)
                     THEN copies[CHOOSE i \in DOMAIN hd : hd[i] = b]
                     ELSE at_home[b]]

\* The contents a restart now would recover.
Recovered == Installed(head, logblk, home)

\* The contents the running system reads; after a crash there is no running
\* system until recovery is done.
View == IF Up THEN [b \in Block |-> bread(b)] ELSE Recovered

\* When no call is in progress and none is being committed, everything the
\* finished calls wrote would survive a crash: the last end_op() returns
\* only after commit() (log.c:168).
QuiescentDurable == Up /\ outstanding = 0 /\ ~committing => View = Recovered

\* The only panic the log can run into is "too big a transaction": no
\* interleaving reaches "log_write outside of trans" or "log.committing"
\* (log.c:153, log.c:219, log.c:221).
PanicOnlyWhenFull ==
    (\E p \in Proc : pc[p] = "panic") => Len(lh) >= LOGSIZE \/ Len(lh) >= Size - 1

\* A call that begin_op() admits, and that writes at most MAXOPBLOCKS blocks,
\* finds room in the log: begin_op() waits when "this op might exhaust log
\* space" (log.c:133).
AdmittedOpsFit == \A p \in Proc : pc[p] # "panic"

\* The log implements a disk on which file-system calls are atomic and a
\* crash loses only whole calls.
AtomicDisk == INSTANCE AtomicDisk
    WITH durable <- Recovered, current <- View, active <- Active

CrashAtomic == AtomicDisk!Spec

\* A process that sleeps in begin_op() is woken, unless some call panics:
\* end_op() wakes on both of its paths (log.c:161, log.c:171).
SleeperWoken ==
    \A p \in Proc :
        pc[p] = "sleep" ~> pc[p] # "sleep" \/ \E q \in Proc : pc[q] = "panic"

\* Unless the machine crashes for ever, every commit and every recovery comes
\* to its end: no step of commit() waits for a process that waits for it.
CommitEnds == <>[][~Crash]_vars => (committing \/ ~Up ~> ~committing /\ Up)
=============================================================================
