------------------------------- MODULE Times --------------------------------
(***************************************************************************)
(* The times of a process: ctime, ttime and etime of proc.h, written by    *)
(* allocproc(), fork(), exit() (proc.c) and the timer (trap.c), reported   *)
(* by new_wait().  CPU 0 counts the ticks; the other CPUs run the rest.    *)
(***************************************************************************)
EXTENDS Integers, FiniteSets

CONSTANTS Slot,       \* of the process table
          First,      \* the slot of the first process
          NoSlot,
          MaxTicks    \* bound: ticks

VARIABLES ticks,
          proc,       \* the process table
          cpu0,       \* the process that CPU 0 runs
          counting,   \* the timer has counted a tick and not yet the process's time
          waited,     \* history: ticks that each process has not run on CPU 0
          report      \* what the last new_wait() has stored for its caller

vars == <<ticks, proc, cpu0, counting, waited, report>>

Unused == [state |-> "UNUSED", parent |-> NoSlot, ctime |-> 0, ttime |-> 0, etime |-> 0]
NoReport == [create |-> 0, stop |-> 0, run |-> 0, child |-> Unused]

Init ==
    /\ ticks = 0
    /\ proc = [s \in Slot |-> IF s = First THEN [Unused EXCEPT !.state = "ALIVE"] ELSE Unused]
    /\ cpu0 = NoSlot /\ counting = FALSE
    /\ waited = [s \in Slot |-> 0]
    /\ report = NoReport

Alive(s) == proc[s].state = "ALIVE"
Runs(s) == Alive(s) /\ (s = cpu0 => ~counting)

\* The scheduler of CPU 0.
schedule(s) ==
    /\ ~counting /\ cpu0 = NoSlot /\ Alive(s)
    /\ cpu0' = s
    /\ UNCHANGED <<ticks, proc, counting, waited, report>>

yield ==
    /\ ~counting /\ cpu0 # NoSlot
    /\ cpu0' = NoSlot
    /\ UNCHANGED <<ticks, proc, counting, waited, report>>

\* trap(): the timer interrupt of CPU 0 counts a tick under tickslock ...
tick ==
    /\ ~counting /\ ticks < MaxTicks
    /\ ticks' = ticks + 1
    /\ counting' = TRUE
    /\ waited' = [s \in Slot |-> IF Alive(s) /\ s # cpu0 THEN waited[s] + 1 ELSE waited[s]]
    /\ UNCHANGED <<proc, cpu0, report>>

\* Mutant: the tick is counted twice.
Counted_Twice(p) == [p EXCEPT !.ctime = @ + 2]

\* What the timer adds to the process that it has interrupted.
Counted(p) == [p EXCEPT !.ctime = @ + 1]

\* ... and then, under no lock, the time of the process.
count ==
    /\ counting
    /\ counting' = FALSE
    /\ proc' = IF cpu0 = NoSlot THEN proc ELSE [proc EXCEPT ![cpu0] = Counted(@)]
    /\ UNCHANGED <<ticks, cpu0, waited, report>>

\* allocproc() sets ctime; etime and ttime keep what the slot held.
Born(p, s) == [proc[s] EXCEPT !.state = "ALIVE", !.parent = p, !.ctime = ticks]

\* fork(): the creation time of the parent is set as well.
fork(p, s) ==
    /\ Runs(p) /\ proc[s].state = "UNUSED"
    /\ proc' = [proc EXCEPT ![s] = Born(p, s), ![p].ctime = ticks]
    /\ waited' = [waited EXCEPT ![s] = 0, ![p] = 0]
    /\ UNCHANGED <<ticks, cpu0, counting, report>>

\* exit(): children go to the first process.
exit(p) ==
    /\ Runs(p) /\ p # First
    /\ proc' = [s \in Slot |->
                  IF s = p THEN [proc[p] EXCEPT !.state = "ZOMBIE", !.etime = ticks]
                  ELSE IF proc[s].parent = p THEN [proc[s] EXCEPT !.parent = First] ELSE proc[s]]
    /\ cpu0' = IF cpu0 = p THEN NoSlot ELSE cpu0
    /\ UNCHANGED <<ticks, counting, waited, report>>

\* sys_new_wait() passes the pointers in the order of its caller's arguments,
\* create, stop, run; new_wait() takes the second for the run time.
Stored(c) == [create |-> c.ctime, stop |-> c.ttime, run |-> c.etime, child |-> c]

\* new_wait() finds a zombie.
new_wait(p, s) ==
    /\ Runs(p) /\ proc[s].parent = p /\ proc[s].state = "ZOMBIE"
    /\ report' = Stored(proc[s])
    /\ proc' = [proc EXCEPT ![s] = [@ EXCEPT !.state = "UNUSED", !.parent = NoSlot]]
    /\ UNCHANGED <<ticks, cpu0, counting, waited>>

\* The last tick has been counted.
Done == ticks = MaxTicks /\ ~counting /\ UNCHANGED vars

Next ==
    \/ \E s \in Slot : schedule(s) \/ exit(s) \/ \E p \in Slot : fork(p, s) \/ new_wait(p, s)
    \/ yield \/ tick \/ count \/ Done

Spec == Init /\ [][Next]_vars

-----------------------------------------------------------------------------
(* Properties *)

\* What etime - ctime of a process that has ended says: the ticks, since it
\* began or last forked, in which it did not run on CPU 0 - the timer moves
\* ctime forward while the process runs.  It is never negative.
EndMinusCreation ==
    \A s \in Slot : proc[s].state = "ZOMBIE" =>
       /\ proc[s].ctime <= proc[s].etime
       /\ proc[s].etime - proc[s].ctime = waited[s]

\* The user program new_wait prints the second value that it gets as the stop
\* time: it should be when the child stopped.
StopTimeReported == report # NoReport => report.stop = report.child.etime
=============================================================================
