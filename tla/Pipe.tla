-------------------------------- MODULE Pipe --------------------------------
(***************************************************************************)
(* One pipe (pipe.c) and the processes that share it.                      *)
(*                                                                         *)
(* A process keeps pipe.lock from acquire() to release() or sleep(), so    *)
(* only kill(), which takes no pipe lock, comes between the steps of the   *)
(* holder: the bytes it moves one by one, its look at `killed' and its     *)
(* sleep.  The counters nread and nwrite are unsigned and wrap around.     *)
(*                                                                         *)
(* Every process has inherited both ends and may close its own at any      *)
(* time; the last close of an end (fileclose() in file.c) reaches          *)
(* pipeclose().                                                            *)
(***************************************************************************)
EXTENDS Naturals, FiniteSets, Sequences

CONSTANTS Proc,        \* the processes
          NoProc,      \* holder of a free lock
          Value,       \* the bytes
          PIPESIZE,    \* pipe.c
          UintRange,   \* the range of the counters, 2^32 in the code
          MaxCount,    \* bound: bytes per call
          Killable     \* the processes that may be killed

ASSUME PipeAssumption ==
    /\ NoProc \notin Proc /\ IsFiniteSet(Proc) /\ Killable \subseteq Proc
    /\ PIPESIZE \in Nat \ {0} /\ UintRange \in Nat
    /\ PIPESIZE < UintRange /\ UintRange % PIPESIZE = 0
    /\ MaxCount \in Nat

VARIABLES data, nread, nwrite, readopen, writeopen, lock,   \* struct pipe
          freed,       \* the page has been given to kfree()
          files,       \* for each end, the processes that have it open
          pc, todo,    \* where each process is, and n - i there
          killed,
          got          \* the byte read last, as a sequence of one

pipe == <<data, nread, nwrite, readopen, writeopen, freed>>
vars == <<pipe, lock, files, pc, todo, killed, got>>

End == {"read", "write"}

\* "idle": in no call on the pipe; "r_sleep", "w_sleep": about to sleep with
\* the lock; "r_asleep", "w_asleep": asleep on &nread, &nwrite; "r_woken",
\* "w_woken": runnable, waiting for the lock in sleep(); "copy": in
\* piperead()'s second loop; "close_read", "close_write": in pipeclose().
Label == {"idle", "read", "r_sleep", "r_asleep", "r_woken", "copy",
          "write", "w_sleep", "w_asleep", "w_woken", "close_read", "close_write"}

TypeOK ==
    /\ data \in [0 .. PIPESIZE - 1 -> Value]
    /\ nread \in 0 .. UintRange - 1 /\ nwrite \in 0 .. UintRange - 1
    /\ readopen \in BOOLEAN /\ writeopen \in BOOLEAN /\ freed \in BOOLEAN
    /\ lock \in Proc \union {NoProc}
    /\ files \in [End -> SUBSET Proc]
    /\ pc \in [Proc -> Label]
    /\ todo \in [Proc -> 0 .. MaxCount]
    /\ killed \in [Proc -> BOOLEAN]
    /\ got \in {<<>>} \union {<<v>> : v \in Value}

\* pipealloc(), and the forks that share the ends; the page holds garbage.
Init ==
    /\ data \in [0 .. PIPESIZE - 1 -> Value]
    /\ nread = 0 /\ nwrite = 0
    /\ readopen = TRUE /\ writeopen = TRUE /\ freed = FALSE
    /\ lock = NoProc
    /\ files = [e \in End |-> Proc]
    /\ pc = [p \in Proc |-> "idle"]
    /\ todo = [p \in Proc |-> 0]
    /\ killed = [p \in Proc |-> FALSE]
    /\ got = <<>>

-----------------------------------------------------------------------------
Empty == nread = nwrite

\* Mutant: the counters do not wrap around.
inc_Wide(x) == x + 1

\* nread++ and nwrite++, unsigned.
inc(x) == (x + 1) % UintRange

\* Mutant: one byte too many fits.
Full_Late == nwrite = (nread + PIPESIZE + 1) % UintRange

Full == nwrite = (nread + PIPESIZE) % UintRange

\* Mutant: only readers are woken.
wakeup_Readers(p, from, to, l) ==
    pc' = [q \in Proc |-> IF q = p THEN l
                          ELSE IF pc[q] = from /\ from = "r_asleep" THEN to ELSE pc[q]]

\* Mutant: nobody is woken.
wakeup_Nobody(p, from, to, l) == pc' = [pc EXCEPT ![p] = l]

\* wakeup(): all that are at `from', asleep, move on to `to'; p goes to l.
wakeup(p, from, to, l) ==
    pc' = [q \in Proc |-> IF q = p THEN l ELSE IF pc[q] = from THEN to ELSE pc[q]]

Goto(p, l) == pc' = [pc EXCEPT ![p] = l]

\* A system call takes the lock; a killed process makes none.
acquire(p, e, n) ==
    /\ pc[p] = "idle" /\ p \in files[e] /\ ~killed[p] /\ lock = NoProc
    /\ lock' = p
    /\ Goto(p, e)
    /\ todo' = [todo EXCEPT ![p] = n]
    /\ UNCHANGED <<pipe, files, killed, got>>

\* The end of sleep(): the lock is taken again.
reacquire(p) ==
    /\ pc[p] \in {"r_woken", "w_woken"} /\ lock = NoProc
    /\ lock' = p
    /\ Goto(p, IF pc[p] = "r_woken" THEN "read" ELSE "write")
    /\ UNCHANGED <<pipe, files, todo, killed, got>>

\* sleep(): the lock is released and the process is asleep, in one step for
\* every other user of the pipe.
sleep(p) ==
    /\ pc[p] \in {"r_sleep", "w_sleep"}
    /\ lock' = NoProc
    /\ Goto(p, IF pc[p] = "r_sleep" THEN "r_asleep" ELSE "w_asleep")
    /\ UNCHANGED <<pipe, files, todo, killed, got>>

\* p->data[p->nwrite++ % PIPESIZE] = addr[i]
put(v) == data' = [data EXCEPT ![nwrite % PIPESIZE] = v]

\* One turn of pipewrite()'s loops, or its end.
pipewrite(p) ==
    /\ pc[p] = "write"
    /\ \/ /\ todo[p] = 0
          /\ wakeup(p, "r_asleep", "r_woken", "idle")
          /\ lock' = NoProc
          /\ UNCHANGED <<data, nwrite, todo>>
       \/ /\ todo[p] > 0 /\ Full
          /\ IF ~readopen \/ killed[p]
             THEN Goto(p, "idle") /\ lock' = NoProc
             ELSE wakeup(p, "r_asleep", "r_woken", "w_sleep") /\ UNCHANGED lock
          /\ UNCHANGED <<data, nwrite, todo>>
       \/ /\ todo[p] > 0 /\ ~Full
          /\ \E v \in Value : put(v)
          /\ nwrite' = inc(nwrite)
          /\ todo' = [todo EXCEPT ![p] = @ - 1]
          /\ UNCHANGED <<lock, pc>>
    /\ UNCHANGED <<nread, readopen, writeopen, freed, files, killed, got>>

\* piperead()'s first loop: is there anything to read, or to wait for?
piperead(p) ==
    /\ pc[p] = "read"
    /\ IF Empty /\ writeopen
       THEN IF killed[p] THEN Goto(p, "idle") /\ lock' = NoProc
                         ELSE Goto(p, "r_sleep") /\ UNCHANGED lock
       ELSE Goto(p, "copy") /\ UNCHANGED lock
    /\ UNCHANGED <<pipe, files, todo, killed, got>>

\* One turn of its second loop, or its end.
piperead_copy(p) ==
    /\ pc[p] = "copy"
    /\ IF todo[p] > 0 /\ ~Empty
       THEN /\ got' = <<data[nread % PIPESIZE]>>
            /\ nread' = inc(nread)
            /\ todo' = [todo EXCEPT ![p] = @ - 1]
            /\ UNCHANGED <<lock, pc>>
       ELSE /\ wakeup(p, "w_asleep", "w_woken", "idle")
            /\ lock' = NoProc
            /\ UNCHANGED <<nread, todo, got>>
    /\ UNCHANGED <<data, nwrite, readopen, writeopen, freed, files, killed>>

\* fileclose(): a process gives up one end; the last one goes on to
\* pipeclose().
fileclose(p, e) ==
    /\ pc[p] = "idle" /\ p \in files[e]
    /\ files' = [files EXCEPT ![e] = @ \ {p}]
    /\ IF files[e] = {p} THEN Goto(p, IF e = "read" THEN "close_read" ELSE "close_write")
                         ELSE UNCHANGED pc
    /\ UNCHANGED <<pipe, lock, todo, killed, got>>

\* Mutant: the page is freed with the first end that is closed.
Unused_Half(r, w) == ~r \/ ~w

\* pipeclose() frees the page when both ends are closed.
Unused(r, w) == ~r /\ ~w

pipeclose(p) ==
    /\ pc[p] \in {"close_read", "close_write"} /\ lock = NoProc
    /\ IF pc[p] = "close_write"
       THEN /\ writeopen' = FALSE /\ UNCHANGED readopen
            /\ wakeup(p, "r_asleep", "r_woken", "idle")
       ELSE /\ readopen' = FALSE /\ UNCHANGED writeopen
            /\ wakeup(p, "w_asleep", "w_woken", "idle")
    /\ freed' = Unused(readopen', writeopen')
    /\ UNCHANGED <<data, nread, nwrite, lock, files, todo, killed, got>>

\* kill(), under ptable.lock only.
kill(p) ==
    /\ p \in Killable /\ ~killed[p]
    /\ killed' = [killed EXCEPT ![p] = TRUE]
    /\ Goto(p, CASE pc[p] = "r_asleep" -> "r_woken"
                 [] pc[p] = "w_asleep" -> "w_woken"
                 [] OTHER -> pc[p])
    /\ UNCHANGED <<pipe, lock, files, todo, got>>

-----------------------------------------------------------------------------
\* The steps of a process inside the kernel.
Kernel(p) ==
    \/ reacquire(p) \/ sleep(p)
    \/ pipewrite(p) \/ piperead(p) \/ piperead_copy(p) \/ pipeclose(p)

Next ==
    \E p \in Proc :
        \/ Kernel(p)
        \/ \E e \in End : fileclose(p, e) \/ \E n \in 0 .. MaxCount : acquire(p, e, n)
        \/ kill(p)

Spec == Init /\ [][Next]_vars

\* A process in the kernel goes on, and gets the lock in the end; what a
\* user program does next is its own affair, but a killed one exits, which
\* closes its files.
Fairness ==
    \A p \in Proc :
        /\ SF_vars(Kernel(p))
        /\ \A e \in End : WF_vars(killed[p] /\ fileclose(p, e))

FairSpec == Spec /\ Fairness

-----------------------------------------------------------------------------
(* Properties *)

\* The bytes in the pipe, oldest first.
Contents ==
    [i \in 1 .. (nwrite + UintRange - nread) % UintRange |->
        data[(nread + i - 1) % PIPESIZE]]

Fifo == INSTANCE Fifo WITH queue <- Contents, Capacity <- PIPESIZE,
                           ropen <- readopen, wopen <- writeopen

\* The pipe is a bounded first-in first-out queue: whatever the
\* interleaving of readers and writers, the wrap-around of the buffer and of
\* the counters, bytes are neither lost nor reordered nor made up.
IsFifo == Fifo!Spec

\* No process is inside a call on a pipe whose page has been freed: only
\* pipeclose() frees it, after the last close of both ends.
NoUseAfterFree ==
    freed => \A p \in Proc : pc[p] = "idle"

\* A writer sleeps only while the pipe is full and someone may still read
\* it: piperead() and pipeclose() wake it when that changes.
WriterSleepsFull ==
    lock = NoProc => \A p \in Proc : pc[p] = "w_asleep" => Full /\ readopen

\* A reader sleeps only while the pipe is empty and someone may still write
\* to it ("pipe-empty", pipe.c:106).
ReaderSleepsEmpty ==
    lock = NoProc => \A p \in Proc : pc[p] = "r_asleep" => Empty /\ writeopen

\* The same, as long as nobody is killed.
ReaderSleepsEmptyUnkilled == (\A p \in Proc : ~killed[p]) => ReaderSleepsEmpty

\* Nobody sleeps without a reason, so that the two sides never wait for each
\* other: pipewrite(), piperead() and pipeclose() wake the other side whenever
\* the condition changes that it sleeps for.
SleepsForReason == WriterSleepsFull /\ ReaderSleepsEmptyUnkilled

\* "Wake process from sleep if necessary" (proc.c:553): no killed process is
\* asleep.
KilledAwake == \A p \in Proc : killed[p] => pc[p] \notin {"r_asleep", "w_asleep"}

\* Once nobody has the write end open any more, every read returns, and
\* likewise for writes and the read end: closing wakes those asleep.
HangUp ==
    \A p \in Proc :
        /\ files["write"] = {} /\ pc[p] = "r_asleep" ~> pc[p] = "idle"
        /\ files["read"] = {} /\ pc[p] = "w_asleep" ~> pc[p] = "idle"

=============================================================================
