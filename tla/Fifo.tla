-------------------------------- MODULE Fifo --------------------------------
(***************************************************************************)
(* What a pipe promises: a bounded first-in first-out queue of bytes with  *)
(* two ends.  Nothing is put in once the write end is closed, nothing is   *)
(* taken out once the read end is.                                         *)
(***************************************************************************)
EXTENDS Naturals, Sequences

CONSTANTS Value,       \* the bytes
          Capacity     \* how many fit

VARIABLES queue,       \* the bytes on their way
          got,         \* the byte handed out last, as a sequence of one
          ropen, wopen \* whether the ends are open

vars == <<queue, got, ropen, wopen>>

Init == queue = <<>> /\ got = <<>> /\ ropen = TRUE /\ wopen = TRUE

Put(v) ==
    /\ wopen /\ Len(queue) < Capacity
    /\ queue' = Append(queue, v)
    /\ UNCHANGED <<got, ropen, wopen>>

Get ==
    /\ ropen /\ queue # <<>>
    /\ queue' = Tail(queue) /\ got' = <<Head(queue)>>
    /\ UNCHANGED <<ropen, wopen>>

CloseRead == ropen /\ ropen' = FALSE /\ UNCHANGED <<queue, got, wopen>>
CloseWrite == wopen /\ wopen' = FALSE /\ UNCHANGED <<queue, got, ropen>>

Next == (\E v \in Value : Put(v)) \/ Get \/ CloseRead \/ CloseWrite

Spec == Init /\ [][Next]_vars

=============================================================================
