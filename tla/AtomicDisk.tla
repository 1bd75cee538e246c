----------------------------- MODULE AtomicDisk -----------------------------
(***************************************************************************)
(* What the logging layer of log.c promises the file system: a disk whose  *)
(* contents after a crash are those at some moment when no file-system     *)
(* call was between begin_op() and end_op().  The updates of one call are  *)
(* therefore on the disk either all or not at all.                         *)
(***************************************************************************)
CONSTANTS Proc, Block, Value

VARIABLES
    durable,  \* the contents a restart would find
    current,  \* the contents the running system sees
    active    \* the processes inside a file-system call

vars == <<durable, current, active>>

Init ==
    /\ durable \in [Block -> Value]
    /\ current = durable
    /\ active = {}

Begin(p) ==
    /\ p \notin active
    /\ active' = active \union {p}
    /\ UNCHANGED <<durable, current>>

Write(p, b, v) ==
    /\ p \in active
    /\ current' = [current EXCEPT ![b] = v]
    /\ UNCHANGED <<durable, active>>

End(p) ==
    /\ p \in active
    /\ active' = active \ {p}
    /\ UNCHANGED <<durable, current>>

Commit ==
    /\ active = {}
    /\ durable' = current
    /\ UNCHANGED <<current, active>>

Crash ==
    /\ current' = durable
    /\ active' = {}
    /\ UNCHANGED durable

Next ==
    \/ \E p \in Proc : Begin(p) \/ End(p)
    \/ \E p \in Proc, b \in Block, v \in Value : Write(p, b, v)
    \/ Commit
    \/ Crash

Spec == Init /\ [][Next]_vars
=============================================================================
