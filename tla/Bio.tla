-------------------------------- MODULE Bio --------------------------------
(***************************************************************************)
(* The buffer cache of bio.c over the disk driver of ide.c, with the       *)
(* sleep-locks of sleeplock.c that protect the buffers.                    *)
(*                                                                         *)
(* A section under bcache.lock, under idelock or under the spin-lock of a  *)
(* sleep-lock is one action.  Each process uses one buffer at a time:      *)
(* bread(), any number of changes that it passes to log_write() or to      *)
(* bwrite(), and brelse().  All blocks are on one device; the contents of  *)
(* a block are one value.                                                  *)
(***************************************************************************)
EXTENDS Naturals, Sequences, Functions, FiniteSets

CONSTANTS
    Proc,     \* processes that use blocks
    NoProc,   \* "not locked"
    Block,    \* block numbers
    NoBlock,  \* "caches nothing yet": the zeroed dev of an unused buffer
    Value,    \* contents of a block
    NBUF,     \* number of buffers
    Flaky     \* blocks that the disk may fail to read

ASSUME BioAssumption ==
    /\ IsFiniteSet(Proc) /\ NoProc \notin Proc
    /\ NoBlock \notin Block
    /\ NBUF \in Nat \ {0}
    /\ Flaky \subseteq Block

VARIABLES
    blockno, refcnt, valid, dirty, data,  \* the fields of every buffer
    owner,   \* the process that holds a buffer's sleep-lock
    lru,     \* the buffers, most recently used first
    queue,   \* idequeue
    cmd,     \* the command the disk works on
    disk,    \* the contents of the disk
    bad,     \* history: blocks that the disk has failed to read
    pc,      \* where each process is
    want,    \* the block it has asked for
    buf      \* the buffer it uses or waits for

bcache == <<blockno, refcnt, lru>>
flags  == <<valid, dirty>>
ide    == <<queue, cmd, disk, bad>>
frame  == <<want, buf>>
vars   == <<bcache, flags, data, owner, ide, pc, frame>>

Buf == 1 .. NBUF
NoBuf == 0
NoCmd == [write |-> FALSE, no |-> NoBlock]
Command ==
    {NoCmd} \union [write : {FALSE}, no : Block]
            \union [write : {TRUE}, no : Block, data : Value]

Label == {"idle", "acquiresleep", "lock_sleep", "use", "iderw", "io_sleep",
          "io_wait", "brelse", "no_buffers", "panic"}

\* binit(): the buffers are zero, whichever of the values that is.
Init ==
    /\ blockno = [b \in Buf |-> NoBlock]
    /\ refcnt = [b \in Buf |-> 0]
    /\ valid = [b \in Buf |-> FALSE]
    /\ dirty = [b \in Buf |-> FALSE]
    /\ disk \in [Block -> Value]
    /\ \E zero \in Value : data = [b \in Buf |-> zero]
    /\ owner = [b \in Buf |-> NoProc]
    /\ lru = [i \in Buf |-> NBUF + 1 - i]
    /\ queue = <<>>
    /\ cmd = NoCmd
    /\ bad = {}
    /\ pc = [p \in Proc |-> "idle"]
    /\ want = [p \in Proc |-> NoBlock]
    /\ buf = [p \in Proc |-> NoBuf]

Goto(p, l) == pc' = [pc EXCEPT ![p] = l]

\* Mutant: nobody is woken.
wakeup_Nobody(s, b, l) == pc

\* wakeup(): the processes asleep at s for buffer b go on at l.
wakeup(s, b, l) == [q \in Proc |-> IF pc[q] = s /\ buf[q] = b THEN l ELSE pc[q]]

-----------------------------------------------------------------------------
(* bget() and brelse() *)

\* Mutant: a buffer counts as cached only once it has been read.
Cached_Valid(k) == {b \in Buf : blockno[b] = k /\ valid[b]}

\* The buffer of block k.
Cached(k) == {b \in Buf : blockno[b] = k}

\* Mutant: a logged buffer is recycled before it is written.
Unused_Dirty(b) == refcnt[b] = 0

\* Mutant: a buffer is recycled as soon as nobody has it locked.
Unused_Unlocked(b) == owner[b] = NoProc /\ ~dirty[b]

\* The buffers that may be recycled.
Unused(b) == refcnt[b] = 0 /\ ~dirty[b]

\* bget(k), up to the lock: the buffer of the block, or the least recently
\* used one that is unused.
bget(p, k) ==
    /\ pc[p] = "idle"
    /\ LET unused == {i \in Buf : Unused(lru[i])}
           last == CHOOSE i \in unused : \A j \in unused : j <= i
           b == IF Cached(k) # {} THEN CHOOSE c \in Cached(k) : TRUE ELSE lru[last]
       IN \/ /\ Cached(k) # {}
             /\ refcnt' = [refcnt EXCEPT ![b] = @ + 1]
             /\ want' = [want EXCEPT ![p] = k]
             /\ buf' = [buf EXCEPT ![p] = b]
             /\ Goto(p, "acquiresleep")
             /\ UNCHANGED <<blockno, flags>>
          \/ /\ Cached(k) = {} /\ unused # {}
             /\ blockno' = [blockno EXCEPT ![b] = k]
             /\ valid' = [valid EXCEPT ![b] = FALSE]
             /\ dirty' = [dirty EXCEPT ![b] = FALSE]
             /\ refcnt' = [refcnt EXCEPT ![b] = 1]
             /\ want' = [want EXCEPT ![p] = k]
             /\ buf' = [buf EXCEPT ![p] = b]
             /\ Goto(p, "acquiresleep")
          \/ /\ Cached(k) = {} /\ unused = {}
             /\ Goto(p, "no_buffers")
             /\ UNCHANGED <<blockno, refcnt, flags, frame>>
    /\ UNCHANGED <<lru, data, owner, ide>>

\* bread() with the locked buffer b: it has the contents, or reads them.
bread(b) == IF valid[b] THEN "use" ELSE "iderw"

\* acquiresleep(), and the rest of bread() once it has the lock.
acquiresleep(p) ==
    /\ pc[p] = "acquiresleep"
    /\ LET b == buf[p]
       IN \/ /\ owner[b] = NoProc
             /\ owner' = [owner EXCEPT ![b] = p]
             /\ Goto(p, bread(b))
          \/ /\ owner[b] # NoProc
             /\ Goto(p, "lock_sleep")
             /\ UNCHANGED owner
    /\ UNCHANGED <<bcache, flags, data, ide, frame>>

\* The first half of brelse(): holdingsleep() and releasesleep().
releasesleep(p) ==
    /\ pc[p] = "use"
    /\ IF owner[buf[p]] = p
       THEN /\ owner' = [owner EXCEPT ![buf[p]] = NoProc]
            /\ pc' = [wakeup("lock_sleep", buf[p], "acquiresleep") EXCEPT ![p] = "brelse"]
       ELSE Goto(p, "panic") /\ UNCHANGED owner
    /\ UNCHANGED <<bcache, flags, data, ide, frame>>

\* refcnt--
unref(n) == n - 1

\* The list with b moved to its front.
ToHead(b) ==
    LET at == CHOOSE i \in Buf : lru[i] = b
    IN [i \in Buf |-> IF i = 1 THEN b ELSE IF i <= at THEN lru[i - 1] ELSE lru[i]]

\* The second half of brelse(): the last user moves the buffer to the front.
brelse(p) ==
    /\ pc[p] = "brelse"
    /\ LET b == buf[p]
       IN /\ refcnt' = [refcnt EXCEPT ![b] = unref(@)]
          /\ lru' = IF refcnt'[b] = 0 THEN ToHead(b) ELSE lru
    /\ want' = [want EXCEPT ![p] = NoBlock]
    /\ buf' = [buf EXCEPT ![p] = NoBuf]
    /\ Goto(p, "idle")
    /\ UNCHANGED <<blockno, flags, data, owner, ide>>

-----------------------------------------------------------------------------
(* The users of a locked buffer *)

\* The caller changes the contents and calls log_write(), which pins the
\* buffer: it will be written by a later bwrite().
log_write(p, v) ==
    /\ pc[p] = "use"
    /\ data' = [data EXCEPT ![buf[p]] = v]
    /\ dirty' = [dirty EXCEPT ![buf[p]] = TRUE]
    /\ UNCHANGED <<bcache, valid, owner, ide, pc, frame>>

\* The caller changes the contents and calls bwrite().
bwrite(p, v) ==
    /\ pc[p] = "use"
    /\ IF owner[buf[p]] = p
       THEN /\ data' = [data EXCEPT ![buf[p]] = v]
            /\ dirty' = [dirty EXCEPT ![buf[p]] = TRUE]
            /\ Goto(p, "iderw")
       ELSE Goto(p, "panic") /\ UNCHANGED <<data, dirty>>
    /\ UNCHANGED <<bcache, valid, owner, ide, frame>>

-----------------------------------------------------------------------------
(* The disk driver *)

Synced(b) == valid[b] /\ ~dirty[b]

\* idestart(): the command registers, and the data of a write.
idestart(b) ==
    IF dirty[b] THEN [write |-> TRUE, no |-> blockno[b], data |-> data[b]]
                ELSE [write |-> FALSE, no |-> blockno[b]]

\* Whether iderw() starts its own request: when it is the first.
Starts == queue = <<>>

\* iderw() queues the buffer, starts the disk if necessary and sleeps.
iderw(p) ==
    /\ pc[p] = "iderw"
    /\ LET b == buf[p]
       IN IF owner[b] # p \/ Synced(b)
          THEN Goto(p, "panic") /\ UNCHANGED <<queue, cmd>>
          ELSE /\ queue' = Append(queue, b)
               /\ cmd' = IF Starts THEN idestart(b) ELSE cmd
               /\ Goto(p, "io_sleep")
    /\ UNCHANGED <<bcache, flags, data, owner, disk, bad, frame>>

\* The condition of iderw()'s loop.
Finished(b) == Synced(b)

\* iderw() after sleep(): it returns, or sleeps again.
iderw_wait(p) ==
    /\ pc[p] = "io_wait"
    /\ Goto(p, IF Finished(buf[p]) THEN "use" ELSE "io_sleep")
    /\ UNCHANGED <<bcache, flags, data, owner, ide, frame>>

\* Mutant: the next request waits for another iderw().
Following_None(q) == NoCmd

\* What ideintr() starts next.
Following(q) == IF q = <<>> THEN NoCmd ELSE idestart(Head(q))

\* The disk has finished its command and interrupts: ideintr() takes the
\* first request off the queue and starts the next one.  A failed read
\* leaves the data as it was.  (With an empty queue ideintr() does nothing.)
ideintr ==
    /\ cmd # NoCmd /\ queue # <<>>
    /\ LET b == Head(queue)
       IN /\ queue' = Tail(queue)
          /\ \/ /\ dirty[b]
                /\ UNCHANGED <<data, bad>>
             \/ /\ ~dirty[b]
                /\ data' = [data EXCEPT ![b] = disk[cmd.no]]
                /\ UNCHANGED bad
             \/ /\ ~dirty[b] /\ cmd.no \in Flaky
                /\ bad' = bad \union {cmd.no}
                /\ UNCHANGED data
          /\ disk' = IF cmd.write THEN [disk EXCEPT ![cmd.no] = cmd.data] ELSE disk
          /\ valid' = [valid EXCEPT ![b] = TRUE]
          /\ dirty' = [dirty EXCEPT ![b] = FALSE]
          /\ pc' = wakeup("io_sleep", b, "io_wait")
          /\ cmd' = Following(Tail(queue))
    /\ UNCHANGED <<bcache, owner, frame>>

\* kill() of a process that sleeps here only wakes it.
kill(p) ==
    /\ \/ pc[p] = "lock_sleep" /\ Goto(p, "acquiresleep")
       \/ pc[p] = "io_sleep" /\ Goto(p, "io_wait")
    /\ UNCHANGED <<bcache, flags, data, owner, ide, frame>>

-----------------------------------------------------------------------------
(* Specification *)

\* What a process does once it is in the cache's code.
Kernel(p) == acquiresleep(p) \/ brelse(p) \/ iderw(p) \/ iderw_wait(p)

Next ==
    \/ \E p \in Proc :
          \/ \E k \in Block : bget(p, k)
          \/ \E v \in Value : log_write(p, v) \/ bwrite(p, v)
          \/ Kernel(p) \/ releasesleep(p) \/ kill(p)
    \/ ideintr

Spec == Init /\ [][Next]_vars

\* The disk answers, and a process in the kernel goes on.
Fairness == WF_vars(ideintr) /\ \A p \in Proc : WF_vars(Kernel(p))

FairSpec == Spec /\ Fairness

-----------------------------------------------------------------------------
(* Properties *)

\* The types of the variables.
TypeOK ==
    /\ blockno \in [Buf -> Block \union {NoBlock}]
    /\ refcnt \in [Buf -> Nat]
    /\ valid \in [Buf -> BOOLEAN] /\ dirty \in [Buf -> BOOLEAN]
    /\ data \in [Buf -> Value]
    /\ owner \in [Buf -> Proc \union {NoProc}]
    /\ lru \in [Buf -> Buf]
    /\ queue \in Seq(Buf)
    /\ cmd \in Command
    /\ disk \in [Block -> Value]
    /\ bad \subseteq Flaky
    /\ pc \in [Proc -> Label]
    /\ want \in [Proc -> Block \union {NoBlock}]
    /\ buf \in [Proc -> Buf \union {NoBuf}]

\* No block is in two buffers ("a synchronization point for disk blocks used
\* by multiple processes", bio.c:6), also while the first one is being read.
CachedOnce == \A b, c \in Buf : blockno[b] = blockno[c] /\ b # c => blockno[b] = NoBlock

\* Whoever uses a buffer, or has it read or written, is the one who has it
\* locked, and no panic() but "bget: no buffers" is ever reached.
OneUser ==
    \A p \in Proc :
        /\ pc[p] \in {"use", "iderw", "io_sleep", "io_wait"} => owner[buf[p]] = p
        /\ pc[p] # "panic"

\* A buffer does not pass to another block under its user, nor under a
\* process that waits for its lock without holding bcache.lock.
KeepsBlock == \A p \in Proc : buf[p] # NoBuf => blockno[buf[p]] = want[p]

\* "First queued buffer is the active request" (ide.c:108): the disk works
\* on the first request, and works whenever there is one.
FirstIsActive == cmd = IF queue = <<>> THEN NoCmd ELSE idestart(Head(queue))

\* Nobody sleeps for a lock that is free, or for a request that is not on
\* its way: no wakeup is lost.
SleepsForReason ==
    \A p \in Proc :
        /\ pc[p] = "lock_sleep" => owner[buf[p]] # NoProc
        /\ pc[p] = "io_sleep" => buf[p] \in Range(queue)

\* The contents of a block as its next user will see them, and who uses it.
val == [k \in Block |->
    IF \E b \in Buf : blockno[b] = k /\ (valid[b] \/ dirty[b])
    THEN data[CHOOSE b \in Buf : blockno[b] = k] ELSE disk[k]]

holder == [k \in Block |->
    IF Cached(k) = {} THEN NoProc ELSE owner[CHOOSE b \in Cached(k) : TRUE]]

Store == INSTANCE BlockStore

\* The cache implements the store of blocks: an update is not lost when its
\* buffer is recycled, and a recycled buffer shows nobody its old contents,
\* unless the disk has failed to read the block.
IsBlockStore == Store!Spec

\* Every read and write of the disk returns.
IoReturns == \A p \in Proc : pc[p] = "iderw" ~> pc[p] = "use"
=============================================================================
