----------------------------- MODULE BlockStore -----------------------------
(***************************************************************************)
(* What the buffer cache promises (bio.c:3-14): a store of blocks, each of *)
(* which one process at a time may use.  The contents of a block change    *)
(* only when the process that uses it changes them, unless the disk fails  *)
(* to read it.                                                             *)
(***************************************************************************)
CONSTANTS Proc, NoProc, Block, Value

VARIABLES
    val,     \* the contents of every block
    holder,  \* the process that uses a block
    bad      \* blocks that the disk once failed to read

vars == <<val, holder, bad>>

Init ==
    /\ val \in [Block -> Value]
    /\ holder = [k \in Block |-> NoProc]
    /\ bad = {}

Get(p, k) ==
    /\ holder[k] = NoProc
    /\ holder' = [holder EXCEPT ![k] = p]
    /\ UNCHANGED <<val, bad>>

Put(p, k) ==
    /\ holder[k] = p
    /\ holder' = [holder EXCEPT ![k] = NoProc]
    /\ UNCHANGED <<val, bad>>

Write(p, k, v) ==
    /\ holder[k] = p
    /\ val' = [val EXCEPT ![k] = v]
    /\ UNCHANGED <<holder, bad>>

Fault(k, v) ==
    /\ bad' = bad \union {k}
    /\ val' = [val EXCEPT ![k] = v]
    /\ UNCHANGED holder

Next ==
    \E k \in Block :
        \/ \E p \in Proc : Get(p, k) \/ Put(p, k) \/ \E v \in Value : Write(p, k, v)
        \/ \E v \in Value : Fault(k, v)

Spec == Init /\ [][Next]_vars
=============================================================================
