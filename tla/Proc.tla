-------------------------------- MODULE Proc --------------------------------
(***************************************************************************)
(* The process table and the scheduler (proc.c, and the parts of trap.c    *)
(* and sysproc.c that drive them).                                         *)
(*                                                                         *)
(* A process is known by its slot in ptable.proc.  Code that runs under    *)
(* ptable.lock from acquire() to release() is one step.  Where the lock is *)
(* handed over with the CPU - sched() switches away with the lock held,    *)
(* and whoever is switched to releases it - the handover is made of steps  *)
(* of its own and `lock' says which CPU holds it.  Steps that touch the    *)
(* table without the lock (the failure paths of fork()) are unguarded.     *)
(*                                                                         *)
(* User programs are arbitrary sequences of system calls, except init's,   *)
(* which is init.c.  Memory is not modelled: kalloc() and copyuvm() may    *)
(* fail at any time.                                                       *)
(***************************************************************************)
EXTENDS Naturals, FiniteSets, FiniteSetsExt

CONSTANTS NPROC,       \* slots of the process table (param.h)
          Cpu,         \* the CPUs
          Cpu0,        \* the one whose timer interrupt counts ticks
          NoCpu,       \* holder of a lock that is free
          Call,        \* the system calls user programs make
          MaxPid       \* bound: processes ever created

ASSUME ProcAssumption ==
    /\ NPROC \in Nat \ {0}
    /\ Cpu0 \in Cpu /\ NoCpu \notin Cpu
    /\ Call \subseteq {"fork", "wait", "kill", "sleep", "exit"}
    /\ MaxPid \in Nat \ {0}

Slot == 1 .. NPROC
NoProc == 0            \* a null struct proc pointer
initproc == 1
NoChan == 0
TICKS == NPROC + 1     \* the channel &ticks; a process's own address, on
                       \* which wait() sleeps, is its slot

procstate == {"UNUSED", "EMBRYO", "SLEEPING", "RUNNABLE", "RUNNING", "ZOMBIE"}

VARIABLES
    \* ptable and nextpid
    state, pid, parent, chan, killed, kstack, nextpid,
    lock,              \* ptable.lock: the CPU that holds it, or NoCpu
    tickslock,         \* the same for tickslock
    proc,              \* struct cpu: the process each CPU runs
    intr,              \* CPU 0 is in its timer interrupt, after the tick
    \* the threads: where each is, fork()'s np, and the pid of init's shell
    pc, np, sh

table == <<state, pid, parent, chan, killed, kstack, nextpid>>
cpus == <<lock, tickslock, proc, intr>>
threads == <<pc, np, sh>>
vars == <<table, cpus, threads>>

\* Where a thread can be.  "user": in user mode; "sleep1": in sys_sleep(),
\* holding tickslock; "wait_sleep", "tick_sleep": inside sleep(); "rewait":
\* back in wait() from sleep(), holding ptable.lock.
Label == {"user", "fork", "kalloc", "copyuvm", "fork_run", "wait", "rewait",
          "wait_sleep", "kill", "sleep", "sleep1", "tick_sleep", "exit", "panic"}

TypeOK ==
    /\ state \in [Slot -> procstate]
    /\ pid \in [Slot -> 0 .. MaxPid]
    /\ parent \in [Slot -> 0 .. NPROC]
    /\ chan \in [Slot -> 0 .. NPROC + 1]
    /\ killed \in [Slot -> BOOLEAN]
    /\ kstack \in [Slot -> BOOLEAN]
    /\ nextpid \in 1 .. MaxPid + 1
    /\ lock \in Cpu \union {NoCpu}
    /\ tickslock \in Cpu \union {NoCpu}
    /\ proc \in [Cpu -> 0 .. NPROC]
    /\ intr \in BOOLEAN
    /\ pc \in [Slot -> Label]
    /\ np \in [Slot -> 0 .. NPROC]
    /\ sh \in 0 .. MaxPid

\* userinit() has run and no CPU has entered scheduler() yet.
Init ==
    /\ state = [s \in Slot |-> IF s = initproc THEN "RUNNABLE" ELSE "UNUSED"]
    /\ pid = [s \in Slot |-> IF s = initproc THEN 1 ELSE 0]
    /\ parent = [s \in Slot |-> NoProc]
    /\ chan = [s \in Slot |-> NoChan]
    /\ killed = [s \in Slot |-> FALSE]
    /\ kstack = [s \in Slot |-> s = initproc]
    /\ nextpid = 2
    /\ lock = NoCpu /\ tickslock = NoCpu
    /\ proc = [c \in Cpu |-> NoProc]
    /\ intr = FALSE
    /\ pc = [s \in Slot |-> "user"]
    /\ np = [s \in Slot |-> NoProc]
    /\ sh = 0

-----------------------------------------------------------------------------
(* Switching *)

\* CPU c executes the thread of its process, which does not hold
\* ptable.lock and is not in the timer interrupt.
Runs(c) ==
    /\ proc[c] # NoProc
    /\ state[proc[c]] = "RUNNING"
    /\ lock # c
    /\ ~(c = Cpu0 /\ intr)

At(c, label) == Runs(c) /\ pc[proc[c]] = label
Goto(c, label) == pc' = [pc EXCEPT ![proc[c]] = label]

\* Mutant: the lock is released before the switch.
sched_Releases(c) == lock' = NoCpu

\* sched() switches to scheduler() with ptable.lock held; its callers have
\* changed the state of the process.
sched(c) == lock' = c

\* Mutant: every pass starts from the first slot again.
ScanFrom_First(c) == 1

\* Where scheduler()'s loop is: at its start when the CPU is idle, past the
\* process that has just switched back otherwise.
ScanFrom(c) == proc[c] + 1

\* scheduler() looks for the next RUNNABLE process and switches to it with
\* the lock held, or ends its pass over the table and releases the lock.
scheduler(c) ==
    /\ \/ proc[c] = NoProc /\ lock = NoCpu
       \/ proc[c] # NoProc /\ state[proc[c]] # "RUNNING"
    /\ LET found == {s \in ScanFrom(c) .. NPROC : state[s] = "RUNNABLE"}
       IN IF found = {}
          THEN /\ proc' = [proc EXCEPT ![c] = NoProc]
               /\ lock' = NoCpu
               /\ UNCHANGED state
          ELSE /\ proc' = [proc EXCEPT ![c] = Min(found)]
               /\ state' = [state EXCEPT ![Min(found)] = "RUNNING"]
               /\ lock' = c
    /\ UNCHANGED <<pid, parent, chan, killed, kstack, nextpid, tickslock, intr,
                   threads>>

\* The thread switched to goes on: in forkret() and yield() it releases the
\* lock; in sleep() it first clears its channel, and if it sleeps in wait()
\* it keeps the lock, which is the one wait() passed to sleep().
resume(c) ==
    /\ proc[c] # NoProc /\ lock = c
    /\ LET p == proc[c]
       IN /\ state[p] = "RUNNING" /\ pc[p] # "rewait"
          /\ chan' = [chan EXCEPT ![p] = NoChan]
          /\ Goto(c, CASE pc[p] = "wait_sleep" -> "rewait"
                       [] pc[p] = "tick_sleep" -> "sleep"
                       [] OTHER -> pc[p])
          /\ lock' = IF pc[p] = "wait_sleep" THEN c ELSE NoCpu
    /\ UNCHANGED <<state, pid, parent, killed, kstack, nextpid, tickslock, proc,
                   intr, np, sh>>

-----------------------------------------------------------------------------
(* sleep(), wakeup(), yield() and the timer *)

\* Mutant: the wakeup is lost.
wakeup1_Lost(ch, st) == st

\* The states st after a wakeup of the processes that sleep on ch.
wakeup1(ch, st) ==
    [s \in Slot |-> IF st[s] = "SLEEPING" /\ chan[s] = ch THEN "RUNNABLE" ELSE st[s]]

\* The process of CPU c goes to sleep on ch, at label l.
sleep(c, ch, l) ==
    /\ chan' = [chan EXCEPT ![proc[c]] = ch]
    /\ state' = [state EXCEPT ![proc[c]] = "SLEEPING"]
    /\ Goto(c, l)
    /\ sched(c)

\* The first half of the timer interrupt of CPU 0: ticks++ and
\* wakeup(&ticks).  Interrupts are off while the CPU holds a lock, and in
\* panic().
tick ==
    /\ tickslock = NoCpu /\ lock = NoCpu
    /\ \/ proc[Cpu0] = NoProc /\ UNCHANGED intr
       \/ Runs(Cpu0) /\ pc[proc[Cpu0]] # "panic" /\ intr' = TRUE
    /\ state' = wakeup1(TICKS, state)
    /\ UNCHANGED <<pid, parent, chan, killed, kstack, nextpid, lock, tickslock,
                   proc, threads>>

\* The rest of the timer interrupt: a killed process in user mode is sent
\* to exit(), any other yields the CPU.
yield(c) ==
    /\ IF c = Cpu0 THEN intr ELSE Runs(c)
    /\ tickslock # c /\ pc[proc[c]] # "panic"
    /\ IF killed[proc[c]] /\ pc[proc[c]] = "user"
       THEN Goto(c, "exit") /\ UNCHANGED <<state, lock>>
       ELSE /\ lock = NoCpu
            /\ state' = [state EXCEPT ![proc[c]] = "RUNNABLE"]
            /\ sched(c)
            /\ UNCHANGED pc
    /\ intr' = (intr /\ c # Cpu0)
    /\ UNCHANGED <<pid, parent, chan, killed, kstack, nextpid, tickslock, proc,
                   np, sh>>

-----------------------------------------------------------------------------
(* System calls *)

\* init forks a shell, then waits until the shell is gone.
Calls(p) ==
    IF p # initproc THEN Call
    ELSE IF sh = 0 THEN {"fork"} ELSE {"wait"}

\* The system call trap; a killed process exits instead.  The check on the
\* way back to user mode is the one of the next trap.
trap(c) ==
    /\ At(c, "user")
    /\ IF killed[proc[c]] THEN Goto(c, "exit")
                          ELSE \E call \in Calls(proc[c]) : Goto(c, call)
    /\ UNCHANGED <<table, cpus, np, sh>>

\* fork() returns -1; init exits then (init.c:25).
fork_failed(c) ==
    /\ Goto(c, IF proc[c] = initproc THEN "exit" ELSE "user")
    /\ np' = [np EXCEPT ![proc[c]] = NoProc]

\* nextpid++
allocpid == nextpid' = nextpid + 1

\* The locked part of allocproc(), called by fork().
allocproc(c) ==
    /\ At(c, "fork") /\ lock = NoCpu
    /\ LET unused == {s \in Slot : state[s] = "UNUSED"}
           s == Min(unused)
       IN IF unused = {}
          THEN fork_failed(c) /\ UNCHANGED <<state, pid, nextpid>>
          ELSE /\ nextpid <= MaxPid
               /\ state' = [state EXCEPT ![s] = "EMBRYO"]
               /\ pid' = [pid EXCEPT ![s] = nextpid]
               /\ allocpid
               /\ np' = [np EXCEPT ![proc[c]] = s]
               /\ Goto(c, "kalloc")
    /\ UNCHANGED <<parent, chan, killed, kstack, cpus, sh>>

\* The rest of allocproc(): the kernel stack.  On failure the slot is given
\* back without the lock, and keeps its pid.
allocproc_kstack(c) ==
    /\ At(c, "kalloc")
    /\ LET n == np[proc[c]]
       IN \/ /\ kstack' = [kstack EXCEPT ![n] = TRUE]
             /\ Goto(c, "copyuvm")
             /\ UNCHANGED <<state, np>>
          \/ /\ state' = [state EXCEPT ![n] = "UNUSED"]
             /\ fork_failed(c)
             /\ UNCHANGED kstack
    /\ UNCHANGED <<pid, parent, chan, killed, nextpid, cpus, sh>>

\* fork() copies the memory and sets the parent, or frees the stack and
\* gives the slot back; all without the lock.
fork_copyuvm(c) ==
    /\ At(c, "copyuvm")
    /\ LET n == np[proc[c]]
       IN \/ /\ parent' = [parent EXCEPT ![n] = proc[c]]
             /\ Goto(c, "fork_run")
             /\ UNCHANGED <<state, kstack, np>>
          \/ /\ kstack' = [kstack EXCEPT ![n] = FALSE]
             /\ state' = [state EXCEPT ![n] = "UNUSED"]
             /\ fork_failed(c)
             /\ UNCHANGED parent
    /\ UNCHANGED <<pid, chan, killed, nextpid, cpus, sh>>

\* The end of fork(): the child, which will return to user mode through
\* forkret(), becomes RUNNABLE.
fork(c) ==
    /\ At(c, "fork_run") /\ lock = NoCpu
    /\ LET p == proc[c]
           n == np[p]
       IN /\ state' = [state EXCEPT ![n] = "RUNNABLE"]
          /\ pc' = [pc EXCEPT ![p] = "user", ![n] = "user"]
          /\ np' = [np EXCEPT ![p] = NoProc]
          /\ sh' = IF p = initproc THEN pid[n] ELSE sh
    /\ UNCHANGED <<pid, parent, chan, killed, kstack, nextpid, cpus>>

Children(p) == {s \in Slot : parent[s] = p}

\* The children that wait() may free.
Zombies(p) == {s \in Children(p) : state[s] = "ZOMBIE"}

\* wait(): free the first ZOMBIE child, or return when there is nothing to
\* wait for, or sleep on the process itself.
wait(c) ==
    /\ \/ At(c, "wait") /\ lock = NoCpu
       \/ lock = c /\ proc[c] # NoProc /\ pc[proc[c]] = "rewait"
    /\ LET p == proc[c]
           zombies == Zombies(p)
           z == Min(zombies)
       IN \/ /\ zombies # {}
             /\ kstack' = [kstack EXCEPT ![z] = FALSE]
             /\ pid' = [pid EXCEPT ![z] = 0]
             /\ parent' = [parent EXCEPT ![z] = NoProc]
             /\ killed' = [killed EXCEPT ![z] = FALSE]
             /\ state' = [state EXCEPT ![z] = "UNUSED"]
             /\ Goto(c, "user")
             /\ lock' = NoCpu
             /\ sh' = IF p = initproc /\ pid[z] = sh THEN 0 ELSE sh
             /\ UNCHANGED chan
          \/ /\ zombies = {} /\ (Children(p) = {} \/ killed[p])
             /\ Goto(c, "user")
             /\ lock' = NoCpu
             /\ sh' = IF p = initproc THEN 0 ELSE sh
             /\ UNCHANGED <<state, pid, parent, killed, kstack, chan>>
          \/ /\ zombies = {} /\ Children(p) # {} /\ ~killed[p]
             /\ sleep(c, p, "wait_sleep")
             /\ UNCHANGED <<pid, parent, killed, kstack, sh>>
    /\ UNCHANGED <<nextpid, tickslock, proc, intr, np>>

\* Mutant: a sleeping process is left asleep.
Roused_Not(st) == st

\* What kill() makes of the state of its victim.
Roused(st) == IF st = "SLEEPING" THEN "RUNNABLE" ELSE st

\* kill(n): the first slot with that pid, whatever its state.
kill(c) ==
    /\ At(c, "kill") /\ lock = NoCpu
    /\ \E n \in 0 .. MaxPid :
          LET named == {s \in Slot : pid[s] = n}
              s == Min(named)
          IN IF named = {} THEN UNCHANGED <<killed, state>>
             ELSE /\ killed' = [killed EXCEPT ![s] = TRUE]
                  /\ state' = [state EXCEPT ![s] = Roused(@)]
    /\ Goto(c, "user")
    /\ UNCHANGED <<pid, parent, chan, kstack, nextpid, cpus, np, sh>>

\* sys_sleep() takes tickslock and looks whether the time has passed, or
\* whether the process has been killed; if not it keeps tickslock.
sys_sleep(c) ==
    /\ At(c, "sleep") /\ tickslock = NoCpu
    /\ \/ Goto(c, "user") /\ UNCHANGED tickslock
       \/ ~killed[proc[c]] /\ Goto(c, "sleep1") /\ tickslock' = c
    /\ UNCHANGED <<table, lock, proc, intr, np, sh>>

\* ... and sleeps: sleep() takes ptable.lock, then releases tickslock.
sleep_ticks(c) ==
    /\ At(c, "sleep1") /\ lock = NoCpu
    /\ sleep(c, TICKS, "tick_sleep")
    /\ tickslock' = NoCpu
    /\ UNCHANGED <<pid, parent, killed, kstack, nextpid, proc, intr, np, sh>>

\* The parents, once those of p's children have become initproc.
Abandon(p) == [s \in Slot |-> IF parent[s] = p THEN initproc ELSE parent[s]]

\* Mutant: the parent is not told.
exit_wakeups_Init(p) ==
    IF Zombies(p) # {} THEN wakeup1(initproc, state) ELSE state

\* exit() wakes the parent, and init if it inherits a zombie.
exit_wakeups(p) ==
    LET st == wakeup1(parent[p], state)
    IN IF \E s \in Children(p) : st[s] = "ZOMBIE" THEN wakeup1(initproc, st) ELSE st

\* exit(); the open files and the current directory, which it gives up
\* before it takes the lock, are not modelled here.
exit(c) ==
    /\ At(c, "exit")
    /\ LET p == proc[c]
       IN IF p = initproc
          THEN Goto(c, "panic") /\ UNCHANGED <<state, parent, lock>>
          ELSE /\ lock = NoCpu
               /\ state' = [exit_wakeups(p) EXCEPT ![p] = "ZOMBIE"]
               /\ parent' = Abandon(p)
               /\ sched(c)
               /\ UNCHANGED pc
    /\ UNCHANGED <<pid, chan, killed, kstack, nextpid, tickslock, proc, intr,
                   np, sh>>

-----------------------------------------------------------------------------
(* Specification *)

\* The system calls of the process of CPU c, once entered.
syscall(c) ==
    \/ allocproc(c) \/ allocproc_kstack(c) \/ fork_copyuvm(c) \/ fork(c)
    \/ wait(c) \/ kill(c) \/ sys_sleep(c) \/ sleep_ticks(c) \/ exit(c)

Next ==
    \/ tick
    \/ \E c \in Cpu : scheduler(c) \/ resume(c) \/ yield(c) \/ trap(c) \/ syscall(c)

Spec == Init /\ [][Next]_vars

\* A CPU that spins for a lock gets it in the end, timer interrupts keep
\* coming on every CPU, and the kernel code of a process runs whenever the
\* process does.  User code may loop for ever, but init makes its next call.
Fairness ==
    /\ SF_vars(tick)
    /\ \A c \in Cpu : /\ SF_vars(scheduler(c))
                      /\ WF_vars(resume(c))
                      /\ SF_vars(yield(c))
    /\ \A p \in Slot : SF_vars(\E c \in Cpu : proc[c] = p /\ syscall(c))
    /\ SF_vars(\E c \in Cpu : proc[c] = initproc /\ trap(c))

FairSpec == Spec /\ Fairness

-----------------------------------------------------------------------------
(* Properties *)

\* A process runs on one CPU at a time, and one that is RUNNING does run:
\* yield() and sleep() keep ptable.lock until the switch is made.
RunsOnce ==
    /\ \A c, d \in Cpu : proc[c] = proc[d] /\ proc[c] # NoProc => c = d
    /\ \A s \in Slot : state[s] = "RUNNING" => \E c \in Cpu : proc[c] = s

\* No CPU executes on a kernel stack that has been freed: a parent in wait()
\* cannot free the stack of a ZOMBIE that is still leaving it.
StackInUse == \A c \in Cpu : proc[c] # NoProc => kstack[proc[c]]

\* Every process but init has a living parent, that will be there to free
\* it: exit() leaves no child behind.
ParentLives ==
    \A s \in Slot \ {initproc} : state[s] \in procstate \ {"UNUSED", "EMBRYO"} =>
        /\ parent[s] # NoProc
        /\ state[parent[s]] \in {"SLEEPING", "RUNNABLE", "RUNNING"}

\* Pids name processes: no two live processes share one.
PidsUnique ==
    \A s, r \in Slot : /\ state[s] # "UNUSED" /\ state[r] # "UNUSED"
                       /\ pid[s] = pid[r]
                       => s = r

\* No process sleeps in wait() when it has something to do there: a child
\* to free, no child left, or its own death.  exit(), kill() and wait()
\* look and change under one lock.
NoLostWait ==
    \A s \in Slot : state[s] = "SLEEPING" /\ chan[s] = s =>
        /\ Children(s) # {} /\ ~killed[s]
        /\ \A r \in Children(s) : state[r] # "ZOMBIE"

\* A process runs on one CPU at a time, one that is RUNNING does run, and no
\* CPU executes on a kernel stack that has been freed: yield(), sleep() and
\* exit() keep ptable.lock until the switch is made.
RunsSafely == TypeOK /\ RunsOnce /\ StackInUse

\* wait() finds whom it waits for: every process but init has a living
\* parent that will free it, no two share a pid, and no process sleeps in
\* wait() when it has something to do there.
WaitSound == ParentLives /\ PidsUnique /\ NoLostWait

\* "If non-zero, have been killed" (proc.h:48): a process is not born
\* killed.
BornAlive ==
    [][\A s \in Slot : state[s] = "UNUSED" /\ state'[s] = "EMBRYO" => ~killed'[s]]_vars

\* What the liveness properties except: init has panicked, which stops the
\* machine, or a fork() is stuck at the bound on pids.
Stopped ==
    \/ pc[initproc] = "panic"
    \/ nextpid > MaxPid /\ \E s \in Slot : pc[s] = "fork"

\* A RUNNABLE process gets a CPU: scheduler() goes round the table.
RunnableRuns ==
    \A s \in Slot : state[s] = "RUNNABLE" ~> state[s] = "RUNNING" \/ Stopped

\* A zombie that has become init's child is freed: init always comes back
\* to wait().
OrphanReaped ==
    \A s \in Slot : state[s] = "ZOMBIE" /\ parent[s] = initproc
                       ~> state[s] = "UNUSED" \/ Stopped

\* A killed process exits (or was never started): the flag is looked at by
\* every trap, and in every loop that sleeps.
KilledExits ==
    \A s \in Slot \ {initproc} :
        killed[s] ~> state[s] \in {"ZOMBIE", "UNUSED"} \/ Stopped

=============================================================================
