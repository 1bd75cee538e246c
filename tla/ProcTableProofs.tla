-------------------------- MODULE ProcTableProofs --------------------------
(***************************************************************************)
(* The inductive invariant of the process table and the scheduler, and the *)
(* proof that every step preserves its first half: the types, who has      *)
(* ptable.lock across a context switch, what fork() owns, and the kernel   *)
(* stacks.                                                                 *)
(***************************************************************************)
EXTENDS Proc, Integers, WellFoundedInduction, TLAPS

Living == {"SLEEPING", "RUNNABLE", "RUNNING"}

\* A CPU that has left its process, or is about to enter it, has
\* ptable.lock, and the lock is never held by a CPU without a process; no
\* two CPUs have the same process, and it is not one whose slot is free.
SwitchInv ==
    /\ \A c, d \in Cpu : proc[c] = proc[d] /\ proc[c] # NoProc => c = d
    /\ \A s \in Slot : state[s] = "RUNNING" => \E c \in Cpu : proc[c] = s
    /\ \A c \in Cpu : proc[c] # NoProc /\ state[proc[c]] # "RUNNING" => lock = c
    /\ \A c \in Cpu : proc[c] # NoProc => state[proc[c]] \in Living \union {"ZOMBIE"}
    /\ \A c \in Cpu : lock = c => proc[c] # NoProc
    /\ \A c \in Cpu : proc[c] # NoProc /\ pc[proc[c]] = "rewait" => lock = c
    /\ \A s \in Slot : pc[s] = "rewait" => state[s] = "RUNNING"
    /\ intr => proc[Cpu0] # NoProc /\ state[proc[Cpu0]] = "RUNNING" /\ lock # Cpu0

\* A process has a kernel stack until it is freed.
StackInv == \A s \in Slot : state[s] \in Living \union {"ZOMBIE"} => kstack[s]

Forking == {"kalloc", "copyuvm", "fork_run"}

\* Whoever is in fork() has an EMBRYO of its own, which knows its parent
\* only at the end.
ForkInv ==
    /\ \A s \in Slot : pc[s] \in Forking => /\ state[s] \in {"RUNNABLE", "RUNNING"}
                                            /\ np[s] \in Slot /\ state[np[s]] = "EMBRYO"
    /\ \A s, r \in Slot : pc[s] \in Forking /\ pc[r] \in Forking /\ np[s] = np[r] => s = r
    /\ \A s \in Slot : pc[s] \in {"copyuvm", "fork_run"} => kstack[np[s]]
    /\ \A s \in Slot : pc[s] = "fork_run" => parent[np[s]] = s

\* Whose child a slot is: nobody's when it is free, and an EMBRYO only that
\* of the process that is about to start it; a process has a living parent,
\* which is not itself; and init is no one's child.
ParentInv ==
    /\ state[initproc] \in Living /\ parent[initproc] = NoProc
    /\ \A s \in Slot : state[s] = "UNUSED" => parent[s] = NoProc
    /\ \A s \in Slot : state[s] = "EMBRYO" /\ parent[s] # NoProc =>
                            pc[parent[s]] = "fork_run" /\ np[parent[s]] = s
    /\ \A s \in Slot \ {initproc} : state[s] \in Living \union {"ZOMBIE"} =>
                            parent[s] # NoProc /\ state[parent[s]] \in Living
    /\ \A s \in Slot : parent[s] # s

PidInv ==
    /\ \A s \in Slot : pid[s] < nextpid
    /\ PidsUnique

ProcInv == TypeOK /\ SwitchInv /\ StackInv /\ ForkInv /\ ParentInv /\ PidInv /\ NoLostWait

-----------------------------------------------------------------------------
(* Helpers *)

LEMMA SlotFacts ==
    /\ initproc \in Slot /\ NoProc \notin Slot /\ TICKS \notin Slot
    /\ 0 .. NPROC = Slot \union {NoProc}
    /\ 0 .. NPROC + 1 = Slot \union {NoChan, TICKS}
    /\ Slot \subseteq Nat
BY ProcAssumption DEF initproc, Slot, NoProc, NoChan, TICKS

\* What scheduler(), allocproc(), wait() and kill() find first is something
\* that they look for.
LEMMA MinIn ==
    ASSUME NEW S \in SUBSET Nat, S # {}
    PROVE  Min(S) \in S
<1> DEFINE R == {ss \in Nat \X Nat : ss[1] < ss[2]}
<1>1. IsWellFoundedOn(R, Nat)
  BY NatLessThanWellFounded, Zenon DEF OpToRel
<1> HIDE DEF R
<1>2. PICK x \in S : \A y \in S : ~(<<y, x>> \in R)
  BY <1>1, WFMin, Zenon
<1>3. ASSUME NEW y \in S PROVE x <= y
  <2>1. x \in Nat /\ y \in Nat
    OBVIOUS
  <2>2. y < x => <<y, x>> \in R
    BY <2>1 DEF R
  <2> QED
    BY <1>2, <2>1, <2>2
<1> QED
  BY <1>3, Zenon DEF Min

\* The types of the variables that the control depends on, in terms of slots.
Types ==
    /\ state \in [Slot -> procstate] /\ parent \in [Slot -> Slot \union {NoProc}]
    /\ chan \in [Slot -> Slot \union {NoChan, TICKS}]
    /\ killed \in [Slot -> BOOLEAN] /\ kstack \in [Slot -> BOOLEAN]
    /\ lock \in Cpu \union {NoCpu} /\ tickslock \in Cpu \union {NoCpu}
    /\ proc \in [Cpu -> Slot \union {NoProc}] /\ intr \in BOOLEAN
    /\ pc \in [Slot -> Label] /\ np \in [Slot -> Slot \union {NoProc}]

Numbers == pid \in [Slot -> 0 .. MaxPid] /\ nextpid \in 1 .. MaxPid + 1 /\ sh \in 0 .. MaxPid

LEMMA TypeFacts == TypeOK <=> Types /\ Numbers
BY SlotFacts DEF TypeOK, Types, Numbers

LEMMA InitInv == Init => ProcInv
<1> SUFFICES ASSUME Init PROVE ProcInv
  OBVIOUS
<1> USE SlotFacts DEF Init
<1>1. TypeOK
  <2>1. Types
    <3>1. /\ killed \in [Slot -> BOOLEAN] /\ kstack \in [Slot -> BOOLEAN] /\ intr \in BOOLEAN
      BY Zenon
    <3> QED
      BY <3>1, ProcAssumption DEF Types, procstate, Label
  <2>2. Numbers
    BY ProcAssumption DEF Numbers
  <2> QED
    BY <2>1, <2>2, TypeFacts
<1>2. SwitchInv
  BY ProcAssumption DEF SwitchInv
<1>3. StackInv /\ ForkInv
  BY DEF StackInv, ForkInv, Living, Forking
<1>4. ParentInv
  BY DEF ParentInv, Living
<1>5. PidInv
  BY DEF PidInv, PidsUnique
<1>6. NoLostWait
  BY DEF NoLostWait
<1> QED
  BY <1>1, <1>2, <1>3, <1>4, <1>5, <1>6 DEF ProcInv

-----------------------------------------------------------------------------
(* Types *)

\* The slots that wait() and kill() find.
LEMMA ZombieSlot ==
    ASSUME NEW p, Zombies(p) # {}
    PROVE  LET z == Min(Zombies(p)) IN z \in Slot /\ parent[z] = p /\ state[z] = "ZOMBIE"
<1>1. Zombies(p) \in SUBSET Nat
  BY SlotFacts, Zenon DEF Zombies, Children
<1>2. Min(Zombies(p)) \in Zombies(p)
  BY <1>1, MinIn, Zenon
<1> QED
  BY <1>2, Zenon DEF Zombies, Children

LEMMA NamedSlot ==
    ASSUME NEW n, {s \in Slot : pid[s] = n} # {}
    PROVE  Min({s \in Slot : pid[s] = n}) \in Slot
<1> DEFINE S == {s \in Slot : pid[s] = n}
<1>1. S \in SUBSET Nat
  BY SlotFacts, Zenon
<1>2. Min(S) \in S
  BY <1>1, MinIn, Zenon
<1> QED
  BY <1>2, Zenon

\* kill() marks and rouses one process, or none.
LEMMA KillEffect ==
    ASSUME Types, NEW c \in Cpu, kill(c)
    PROVE  \/ UNCHANGED <<killed, state>>
           \/ \E s \in Slot : /\ killed' = [killed EXCEPT ![s] = TRUE]
                              /\ state' = [state EXCEPT ![s] = Roused(state[s])]
<1>1. PICK n \in 0 .. MaxPid :
         \/ UNCHANGED <<killed, state>>
         \/ /\ {s \in Slot : pid[s] = n} # {}
            /\ killed' = [killed EXCEPT ![Min({s \in Slot : pid[s] = n})] = TRUE]
            /\ state' = [state EXCEPT ![Min({s \in Slot : pid[s] = n})] = Roused(@)]
  BY Zenon DEF kill
<1>2. {s \in Slot : pid[s] = n} # {} => Min({s \in Slot : pid[s] = n}) \in Slot
  BY NamedSlot, Zenon
<1> QED
  BY <1>1, <1>2, Zenon

\* st is the states after a wakeup of some sleepers.
Wakes(st) ==
    /\ st \in [Slot -> procstate]
    /\ \A s \in Slot : st[s] = state[s] \/ (state[s] = "SLEEPING" /\ st[s] = "RUNNABLE")

LEMMA WakeupWakes ==
    ASSUME Types, NEW ch
    PROVE  /\ Wakes(wakeup1(ch, state))
           /\ \A s \in Slot : state[s] = "SLEEPING" /\ chan[s] = ch =>
                                  wakeup1(ch, state)[s] = "RUNNABLE"
BY DEF Types, procstate, Wakes, wakeup1

\* exit() wakes the parent, and init if it inherits a zombie.
LEMMA ExitWakes ==
    ASSUME Types, NEW p \in Slot
    PROVE  /\ Wakes(exit_wakeups(p))
           /\ \A s \in Slot : state[s] = "SLEEPING" /\ chan[s] = parent[p] =>
                                  exit_wakeups(p)[s] = "RUNNABLE"
           /\ (\E s \in Children(p) : state[s] = "ZOMBIE") =>
                 \A s \in Slot : state[s] = "SLEEPING" /\ chan[s] = initproc =>
                                     exit_wakeups(p)[s] = "RUNNABLE"
BY DEF Types, procstate, Wakes, wakeup1, exit_wakeups, Children

\* allocproc() takes an UNUSED slot if there is one.
LEMMA AllocprocEffect ==
    ASSUME NEW c \in Cpu, allocproc(c)
    PROVE  \/ fork_failed(c) /\ UNCHANGED <<state, pid, nextpid>>
           \/ \E s \in Slot :
                 /\ state[s] = "UNUSED" /\ nextpid <= MaxPid
                 /\ state' = [state EXCEPT ![s] = "EMBRYO"]
                 /\ pid' = [pid EXCEPT ![s] = nextpid] /\ nextpid' = nextpid + 1
                 /\ np' = [np EXCEPT ![proc[c]] = s] /\ Goto(c, "kalloc")
<1> DEFINE S == {s \in Slot : state[s] = "UNUSED"}
<1>1. S \in SUBSET Nat
  BY SlotFacts, Zenon
<1>2. S # {} => Min(S) \in S
  BY <1>1, MinIn, Zenon
<1>3. S # {} => Min(S) \in Slot /\ state[Min(S)] = "UNUSED"
  BY <1>2, Zenon
<1> QED
  BY <1>3, Zenon DEF allocproc, allocpid

\* wait() frees a ZOMBIE child, or returns, or sleeps because there is
\* something to wait for.
WaitFrees(c, z) ==
    /\ state[z] = "ZOMBIE" /\ parent[z] = proc[c]
    /\ kstack' = [kstack EXCEPT ![z] = FALSE] /\ pid' = [pid EXCEPT ![z] = 0]
    /\ parent' = [parent EXCEPT ![z] = NoProc] /\ killed' = [killed EXCEPT ![z] = FALSE]
    /\ state' = [state EXCEPT ![z] = "UNUSED"]
    /\ Goto(c, "user") /\ lock' = NoCpu /\ UNCHANGED chan

WaitReturns(c) ==
    Goto(c, "user") /\ lock' = NoCpu /\ UNCHANGED <<state, pid, parent, killed, kstack, chan>>

WaitSleeps(c) ==
    /\ Zombies(proc[c]) = {} /\ Children(proc[c]) # {} /\ ~killed[proc[c]]
    /\ sleep(c, proc[c], "wait_sleep") /\ UNCHANGED <<pid, parent, killed, kstack, sh>>

LEMMA WaitEffect ==
    ASSUME Types, SwitchInv, NEW c \in Cpu, wait(c)
    PROVE  /\ proc[c] \in Slot /\ state[proc[c]] = "RUNNING" /\ lock \in {c, NoCpu}
           /\ UNCHANGED <<nextpid, tickslock, proc, intr, np>>
           /\ (\E z \in Slot : WaitFrees(c, z)) \/ WaitReturns(c) \/ WaitSleeps(c)
           /\ sh' \in {0, sh}
<1>1. proc[c] \in Slot /\ state[proc[c]] = "RUNNING" /\ lock \in {c, NoCpu}
  BY DEF wait, At, Runs, SwitchInv, Types
<1>2. (\E z \in Slot : WaitFrees(c, z)) \/ WaitReturns(c) \/ WaitSleeps(c)
  <2>1. CASE Zombies(proc[c]) # {}
    <3>1. WaitFrees(c, Min(Zombies(proc[c])))
      BY <2>1, ZombieSlot, Zenon DEF wait, WaitFrees
    <3> QED
      BY <2>1, <3>1, ZombieSlot, Zenon
  <2>2. CASE Zombies(proc[c]) = {}
    BY <2>2, Zenon DEF wait, WaitReturns, WaitSleeps
  <2> QED
    BY <2>1, <2>2
<1>3. sh' \in {0, sh}
  BY Zenon DEF wait
<1>4. UNCHANGED <<nextpid, tickslock, proc, intr, np>>
  BY Zenon DEF wait
<1> QED
  BY <1>1, <1>2, <1>3, <1>4

\* scheduler() ends its pass, or enters a RUNNABLE process.
LEMMA SchedulerEffect ==
    ASSUME Types, NEW c \in Cpu, scheduler(c)
    PROVE  \/ proc' = [proc EXCEPT ![c] = NoProc] /\ lock' = NoCpu /\ UNCHANGED state
           \/ \E s \in Slot : /\ state[s] = "RUNNABLE"
                              /\ proc' = [proc EXCEPT ![c] = s]
                              /\ state' = [state EXCEPT ![s] = "RUNNING"] /\ lock' = c
<1> DEFINE found == {s \in ScanFrom(c) .. NPROC : state[s] = "RUNNABLE"}
<1>1. found \subseteq Slot
  <2>1. proc[c] \in Nat
    BY SlotFacts DEF Types, Slot, NoProc
  <2> QED
    BY <2>1, ProcAssumption DEF ScanFrom, Slot
<1>2. found \in SUBSET Nat
  BY <1>1, SlotFacts, Zenon
<1>3. found # {} => Min(found) \in found
  BY <1>2, MinIn, Zenon
<1>4. found # {} => Min(found) \in Slot /\ state[Min(found)] = "RUNNABLE"
  BY <1>1, <1>3, Zenon
<1> QED
  BY <1>4, Zenon DEF scheduler

\* Only a process that slept in wait() goes on with the lock.
LEMMA ResumeEffect ==
    ASSUME Types, NEW c \in Cpu, resume(c)
    PROVE  \E l \in Label :
              /\ pc' = [pc EXCEPT ![proc[c]] = l]
              /\ l # pc[proc[c]] => /\ pc[proc[c]] \in {"wait_sleep", "tick_sleep"}
                                    /\ l \in {"rewait", "sleep"}
              /\ l = "rewait" => pc[proc[c]] = "wait_sleep"
<1>1. proc[c] \in Slot /\ pc[proc[c]] \in Label /\ pc[proc[c]] # "rewait"
  BY DEF resume, Types
<1>2. CASE pc[proc[c]] = "wait_sleep"
  <2>1. pc' = [pc EXCEPT ![proc[c]] = "rewait"]
    BY <1>2, Zenon DEF resume, Goto
  <2> QED
    BY <1>2, <2>1 DEF Label
<1>3. CASE pc[proc[c]] = "tick_sleep"
  <2>1. pc' = [pc EXCEPT ![proc[c]] = "sleep"]
    BY <1>3, Zenon DEF resume, Goto
  <2> QED
    BY <1>3, <2>1 DEF Label
<1>4. CASE pc[proc[c]] \notin {"wait_sleep", "tick_sleep"}
  <2>1. pc' = [pc EXCEPT ![proc[c]] = pc[proc[c]]]
    BY <1>4, Zenon DEF resume, Goto
  <2> QED
    BY <1>1, <1>4, <2>1
<1> QED
  BY <1>2, <1>3, <1>4

\* Setting one of the flags of a slot.
LEMMA FlagType ==
    ASSUME NEW f \in [Slot -> BOOLEAN], NEW s \in Slot, NEW b \in BOOLEAN
    PROVE  [f EXCEPT ![s] = b] \in [Slot -> BOOLEAN]
BY Zenon

LEMMA TypesStep == Types /\ SwitchInv /\ ForkInv /\ [Next]_vars => Types'
<1> SUFFICES ASSUME Types, SwitchInv, ForkInv, [Next]_vars PROVE Types'
  OBVIOUS
<1>1. ASSUME tick PROVE Types'
  BY <1>1, Zenon DEF tick, wakeup1, Types, procstate, threads
<1>2. ASSUME NEW c \in Cpu, scheduler(c) PROVE Types'
  BY <1>2, SchedulerEffect DEF scheduler, Types, procstate, Label, threads
<1>3. ASSUME NEW c \in Cpu, resume(c) PROVE Types'
  BY Zenon, <1>3, ResumeEffect
     DEF resume, Types, procstate, Label, table, cpus, threads, Goto, Runs, sched
<1>4. ASSUME NEW c \in Cpu, yield(c) PROVE Types'
  BY <1>4 DEF yield, Types, procstate, Label, Goto, sched
<1>5. ASSUME NEW c \in Cpu, trap(c) PROVE Types'
  BY <1>5, ProcAssumption DEF trap, Calls, Types, Label, table, cpus, threads, Goto
<1>6. ASSUME NEW c \in Cpu, allocproc(c) PROVE Types'
  BY <1>6, AllocprocEffect
     DEF allocproc, fork_failed, Types, procstate, Label, table, cpus, threads, Goto, At, Runs,
         sched
<1>7. ASSUME NEW c \in Cpu, allocproc_kstack(c) PROVE Types'
  <2>1. proc[c] \in Slot /\ np[proc[c]] \in Slot
    BY <1>7 DEF allocproc_kstack, ForkInv, Forking, Types, At, Runs
  <2>2. kstack' \in [Slot -> BOOLEAN]
    <3>1. UNCHANGED kstack \/ kstack' = [kstack EXCEPT ![np[proc[c]]] = TRUE]
      BY <1>7, Zenon DEF allocproc_kstack
    <3> QED
      BY <2>1, <3>1, FlagType, Zenon, SlotFacts DEF Types
  <2> QED
    BY <1>7, <2>1, <2>2
       DEF allocproc_kstack, fork_failed, Types, procstate, Label, cpus, threads, Goto
<1>8. ASSUME NEW c \in Cpu, fork_copyuvm(c) PROVE Types'
  <2>1. proc[c] \in Slot /\ np[proc[c]] \in Slot
    BY <1>8 DEF fork_copyuvm, ForkInv, Forking, Types, At, Runs
  <2>2. kstack' \in [Slot -> BOOLEAN]
    <3>1. UNCHANGED kstack \/ kstack' = [kstack EXCEPT ![np[proc[c]]] = FALSE]
      BY <1>8, Zenon DEF fork_copyuvm
    <3> QED
      BY <2>1, <3>1, FlagType, Zenon DEF Types, table, threads, Goto, At, Runs, sched
  <2> QED
    BY <1>8, <2>1, <2>2
       DEF fork_copyuvm, fork_failed, Types, procstate, Label, table, cpus, threads, Goto, At,
           Runs, sched
<1>9. ASSUME NEW c \in Cpu, fork(c) PROVE Types'
  BY <1>9, Zenon DEF fork, Types, procstate, Label, cpus
<1>10. ASSUME NEW c \in Cpu, wait(c) PROVE Types'
  <2> DEFINE z == Min(Zombies(proc[c]))
  <2>1. proc[c] \in Slot
    BY <1>10 DEF wait, Types, At, Runs
  <2>2. Zombies(proc[c]) # {} => z \in Slot
    BY ZombieSlot
  <2>3. kstack' \in [Slot -> BOOLEAN] /\ killed' \in [Slot -> BOOLEAN]
    <3>1. \/ UNCHANGED <<kstack, killed>>
          \/ /\ Zombies(proc[c]) # {}
             /\ kstack' = [kstack EXCEPT ![z] = FALSE] /\ killed' = [killed EXCEPT ![z] = FALSE]
      BY <1>10, Zenon DEF wait
    <3> QED
      BY <2>2, <3>1, FlagType, Zenon DEF Types
  <2> HIDE DEF z
  <2>4. /\ parent' \in [Slot -> Slot \union {NoProc}]
        /\ chan' \in [Slot -> Slot \union {NoChan, TICKS}]
    BY <1>10, <2>1, <2>2, SlotFacts DEF wait, sleep, z, Types, table, cpus
  <2>5. state' \in [Slot -> procstate] /\ pc' \in [Slot -> Label]
    BY <1>10, <2>1, <2>2, SlotFacts
       DEF wait, sleep, z, Types, procstate, Label, cpus, threads, Goto, At, Runs, sched
  <2> QED
    BY <1>10, <2>3, <2>4, <2>5, SlotFacts
       DEF wait, sleep, Types, procstate, Label, table, cpus, threads, Goto, At, Runs, sched
<1>11. ASSUME NEW c \in Cpu, kill(c) PROVE Types'
  <2>1. CASE UNCHANGED <<killed, state>>
    BY <1>11, <2>1 DEF kill, Types, procstate, Label, cpus, Goto, At, Runs
  <2>2. ASSUME NEW s \in Slot, killed' = [killed EXCEPT ![s] = TRUE],
               state' = [state EXCEPT ![s] = Roused(state[s])]
        PROVE  Types'
    <3>1. killed' \in [Slot -> BOOLEAN]
      BY <2>2, FlagType, Zenon DEF Types
    <3> QED
      BY <1>11, <2>2, <3>1, SlotFacts
         DEF kill, Roused, Types, procstate, Label, table, cpus, threads, Goto, At, Runs
  <2> QED
    BY <1>11, <2>1, <2>2, KillEffect
<1>12. ASSUME NEW c \in Cpu, sys_sleep(c) PROVE Types'
  BY <1>12 DEF sys_sleep, Types, Label, table, Goto
<1>13. ASSUME NEW c \in Cpu, sleep_ticks(c) PROVE Types'
  BY <1>13 DEF sleep_ticks, sleep, Types, procstate, Label, Goto, At, Runs, sched
<1>14. ASSUME NEW c \in Cpu, exit(c) PROVE Types'
  <2>1. proc[c] \in Slot
    BY <1>14 DEF exit, Types, At, Runs
  <2>2. exit_wakeups(proc[c]) \in [Slot -> procstate]
    BY <2>1, ExitWakes DEF Wakes
  <2> QED
    BY <1>14, <2>1, <2>2, SlotFacts DEF exit, Abandon, Types, procstate, Label, Goto, sched
<1>15. CASE UNCHANGED vars
  BY <1>15 DEF vars, Types, table, cpus, threads
<1> QED
  BY Zenon, <1>1, <1>2, <1>3, <1>4, <1>5, <1>6, <1>7, <1>8, <1>9, <1>10, <1>11, <1>12, <1>13,
     <1>14, <1>15
     DEF Next, syscall

-----------------------------------------------------------------------------
(* Switching *)

LEMMA SwitchStep == Types /\ SwitchInv /\ ForkInv /\ [Next]_vars => SwitchInv'
<1> SUFFICES ASSUME Types, SwitchInv, ForkInv, [Next]_vars PROVE SwitchInv'
  OBVIOUS
<1>0. NoCpu \notin Cpu /\ Cpu0 \in Cpu
  BY ProcAssumption
<1>1. ASSUME tick PROVE SwitchInv'
  <2>1. Wakes(state')
    BY <1>1, WakeupWakes DEF tick
  <2> QED
    BY <1>1, <2>1, <1>0, SlotFacts
       DEF tick, Wakes, SwitchInv, Types, procstate, Living, cpus, threads, At, Runs, sched
<1>2. ASSUME NEW c \in Cpu, scheduler(c) PROVE SwitchInv'
  <2>1. CASE proc' = [proc EXCEPT ![c] = NoProc] /\ lock' = NoCpu /\ UNCHANGED state
    BY <1>2, <2>1, <1>0, SlotFacts DEF scheduler, SwitchInv, Types, table, cpus, threads
  <2>2. ASSUME NEW s \in Slot, state[s] = "RUNNABLE", proc' = [proc EXCEPT ![c] = s],
               state' = [state EXCEPT ![s] = "RUNNING"], lock' = c
        PROVE  SwitchInv'
    BY <1>2, <2>2, <1>0, SlotFacts
       DEF scheduler, SwitchInv, Types, procstate, Living, table, cpus, threads
  <2> QED
    BY <1>2, <2>1, <2>2, SchedulerEffect
<1>3. ASSUME NEW c \in Cpu, resume(c) PROVE SwitchInv'
  <2>1. PICK l \in Label : /\ pc' = [pc EXCEPT ![proc[c]] = l]
                           /\ l = "rewait" => pc[proc[c]] = "wait_sleep"
    BY <1>3, ResumeEffect
  <2> QED
    BY <1>3, <2>1, <1>0 DEF resume, SwitchInv
<1>4. ASSUME NEW c \in Cpu, yield(c) PROVE SwitchInv'
  <2>1. proc[c] \in Slot /\ state[proc[c]] = "RUNNING" /\ lock # c /\ pc[proc[c]] # "rewait"
    BY <1>4 DEF yield, SwitchInv, Types, At, Runs
  <2>a. UNCHANGED proc /\ (intr' => intr /\ c # Cpu0)
    BY <1>4, Zenon DEF yield
  <2>2. CASE Goto(c, "exit") /\ UNCHANGED <<state, lock>>
    BY <2>1, <2>2, <2>a DEF SwitchInv, threads, Goto, At
  <2>3. CASE /\ lock = NoCpu /\ lock' = c /\ UNCHANGED pc
             /\ state' = [state EXCEPT ![proc[c]] = "RUNNABLE"]
    BY <2>1, <2>3, <2>a, <1>0, SlotFacts DEF SwitchInv, Living
  <2> QED
    BY <1>4, <2>2, <2>3, Zenon DEF yield, sched
<1>5. ASSUME NEW c \in Cpu, trap(c) PROVE SwitchInv'
  BY <1>5, ProcAssumption DEF trap, Calls, SwitchInv, Types, Living, table, cpus, Goto, sched
<1>6. ASSUME NEW c \in Cpu, allocproc(c) PROVE SwitchInv'
  <2>1. PICK l \in {"exit", "user", "kalloc"} : pc' = [pc EXCEPT ![proc[c]] = l]
    BY <1>6, AllocprocEffect, Zenon
       DEF fork_failed, Living, table, cpus, threads, Goto, Runs, sched
  <2>2. \A s \in Slot : state'[s] = state[s] \/ (state[s] = "UNUSED" /\ state'[s] = "EMBRYO")
    BY <1>6, AllocprocEffect DEF Types
  <2> QED
    BY <1>6, <2>1, <2>2, <1>0
       DEF allocproc, SwitchInv, Types, procstate, table, cpus, threads, Goto, Runs, sched
<1>7. ASSUME NEW c \in Cpu, allocproc_kstack(c) PROVE SwitchInv'
  <2>1. /\ proc[c] \in Slot /\ np[proc[c]] \in Slot /\ state[np[proc[c]]] = "EMBRYO"
        /\ UNCHANGED <<proc, lock, intr>>
    BY <1>7 DEF allocproc_kstack, ForkInv, Forking, Types, At, Runs, cpus
  <2>2. PICK l \in {"exit", "user", "copyuvm"} : pc' = [pc EXCEPT ![proc[c]] = l]
    BY <1>7, Zenon DEF allocproc_kstack, fork_failed, Goto
  <2>3. state' = state \/ state' = [state EXCEPT ![np[proc[c]]] = "UNUSED"]
    BY <1>7, Zenon DEF allocproc_kstack
  <2>4. \A s \in Slot : \/ state'[s] = state[s]
                        \/ state[s] = "EMBRYO" /\ state'[s] = "UNUSED"
    BY <2>1, <2>3 DEF Types
  <2>5. \A s \in Slot : pc'[s] = IF s = proc[c] THEN l ELSE pc[s]
    BY <2>1, <2>2 DEF Types
  <2> QED
    BY <1>0, <2>1, <2>2, <2>4, <2>5, SlotFacts DEF SwitchInv, Types, Living
<1>8. ASSUME NEW c \in Cpu, fork_copyuvm(c) PROVE SwitchInv'
  <2>1. /\ proc[c] \in Slot /\ np[proc[c]] \in Slot /\ state[np[proc[c]]] = "EMBRYO"
        /\ UNCHANGED <<proc, lock, intr>>
    BY <1>8 DEF fork_copyuvm, ForkInv, Forking, Types, At, Runs, cpus
  <2>2. PICK l \in {"exit", "user", "fork_run"} : pc' = [pc EXCEPT ![proc[c]] = l]
    BY <1>8, Zenon DEF fork_copyuvm, fork_failed, Goto
  <2>3. state' = state \/ state' = [state EXCEPT ![np[proc[c]]] = "UNUSED"]
    BY <1>8, Zenon DEF fork_copyuvm
  <2>4. \A s \in Slot : \/ state'[s] = state[s]
                        \/ state[s] = "EMBRYO" /\ state'[s] = "UNUSED"
    BY <2>1, <2>3 DEF Types
  <2>5. \A s \in Slot : pc'[s] = IF s = proc[c] THEN l ELSE pc[s]
    BY <2>1, <2>2 DEF Types
  <2> QED
    BY <1>0, <2>1, <2>2, <2>4, <2>5, SlotFacts DEF SwitchInv, Types, Living
<1>9. ASSUME NEW c \in Cpu, fork(c) PROVE SwitchInv'
  BY <1>9 DEF fork, ForkInv, Forking, SwitchInv, Types, Living, cpus, At, Runs
<1>10. ASSUME NEW c \in Cpu, wait(c) PROVE SwitchInv'
  <2>0. /\ proc[c] \in Slot /\ state[proc[c]] = "RUNNING" /\ lock \in {c, NoCpu}
        /\ UNCHANGED <<proc, intr>>
    BY <1>10, WaitEffect
  <2>1. ASSUME NEW z \in Slot, WaitFrees(c, z) PROVE SwitchInv'
    <3>1. ASSUME NEW d \in Cpu, proc[d] = z PROVE FALSE
      <4>1. state[proc[d]] = "ZOMBIE" /\ proc[d] # NoProc
        BY <2>1, <3>1, SlotFacts DEF WaitFrees
      <4>2. lock = d
        BY <4>1 DEF SwitchInv
      <4> QED
        BY <1>0, <2>0, <4>1, <4>2
    <3>2. /\ state' = [state EXCEPT ![z] = "UNUSED"] /\ lock' = NoCpu
          /\ pc' = [pc EXCEPT ![proc[c]] = "user"] /\ state[z] = "ZOMBIE"
      BY <2>1 DEF WaitFrees, Goto
    <3>3. \A s \in Slot : /\ state'[s] = IF s = z THEN "UNUSED" ELSE state[s]
                          /\ pc'[s] = IF s = proc[c] THEN "user" ELSE pc[s]
      BY <2>0, <3>2 DEF Types
    <3>4. \A s \in Slot : state[s] = "RUNNING" => s # z
      BY <3>2
    <3> QED
      BY <1>0, <2>0, <3>1, <3>2, <3>3, <3>4, SlotFacts DEF SwitchInv, Types
  <2>2. CASE WaitReturns(c)
    BY <1>0, <2>0, <2>2 DEF WaitReturns, SwitchInv, Types, Goto
  <2>3. CASE WaitSleeps(c)
    <3>1. /\ state' = [state EXCEPT ![proc[c]] = "SLEEPING"] /\ lock' = c
          /\ pc' = [pc EXCEPT ![proc[c]] = "wait_sleep"]
      BY <2>3 DEF WaitSleeps, sleep, sched, Goto
    <3>2. \A s \in Slot : /\ state'[s] = IF s = proc[c] THEN "SLEEPING" ELSE state[s]
                          /\ pc'[s] = IF s = proc[c] THEN "wait_sleep" ELSE pc[s]
      BY <2>0, <3>1 DEF Types
    <3>3. \A d \in Cpu : proc[d] # NoProc /\ d # c => proc[d] # proc[c] /\ proc[d] \in Slot
      BY <2>0 DEF SwitchInv, Types
    <3>4. c = Cpu0 => ~intr
      BY <1>10 DEF wait, At, Runs, SwitchInv
    <3> QED
      BY <1>0, <2>0, <3>1, <3>2, <3>3, <3>4, SlotFacts DEF SwitchInv, Types, Living
  <2> QED
    BY <1>10, <2>1, <2>2, <2>3, WaitEffect, Zenon
<1>11. ASSUME NEW c \in Cpu, kill(c) PROVE SwitchInv'
  <2>1. Wakes(state')
    BY <1>11, KillEffect DEF Wakes, Roused, Types, procstate, Living
  <2> QED
    BY <1>11, <2>1, <1>0, SlotFacts DEF kill, Wakes, SwitchInv, Types, Living, cpus, Goto
<1>12. ASSUME NEW c \in Cpu, sys_sleep(c) PROVE SwitchInv'
  BY <1>12 DEF sys_sleep, SwitchInv, Types, table, Goto
<1>13. ASSUME NEW c \in Cpu, sleep_ticks(c) PROVE SwitchInv'
  BY <1>13, <1>0 DEF sleep_ticks, sleep, SwitchInv, Living, Goto, At, Runs, sched
<1>14. ASSUME NEW c \in Cpu, exit(c) PROVE SwitchInv'
  <2>1. proc[c] \in Slot /\ Wakes(exit_wakeups(proc[c]))
    BY <1>14, ExitWakes DEF exit, Types, procstate, Living, At, Runs
  <2> QED
    BY <1>14, <2>1, <1>0 DEF exit, Wakes, SwitchInv, Types, Goto, At, Runs, sched
<1>15. CASE UNCHANGED vars
  BY <1>15 DEF vars, SwitchInv, procstate, table, cpus, threads
<1> QED
  BY Zenon, <1>1, <1>2, <1>3, <1>4, <1>5, <1>6, <1>7, <1>8, <1>9, <1>10, <1>11, <1>12, <1>13,
     <1>14, <1>15
     DEF Next, syscall

-----------------------------------------------------------------------------
(* fork() and the kernel stacks *)

LEMMA ForkStep == Types /\ SwitchInv /\ ForkInv /\ ParentInv /\ [Next]_vars => ForkInv'
<1> SUFFICES ASSUME Types, SwitchInv, ForkInv, ParentInv, [Next]_vars PROVE ForkInv'
  OBVIOUS
<1>0. NoCpu \notin Cpu /\ Cpu0 \in Cpu
  BY ProcAssumption
<1>1. ASSUME tick PROVE ForkInv'
  <2>1. Wakes(state')
    BY <1>1, WakeupWakes DEF tick
  <2> QED
    BY <1>1, <2>1 DEF tick, Wakes, ForkInv, table, cpus, threads
<1>2. ASSUME NEW c \in Cpu, scheduler(c) PROVE ForkInv'
  BY <1>2, SchedulerEffect DEF scheduler, ForkInv, Types, cpus, threads
<1>3. ASSUME NEW c \in Cpu, resume(c) PROVE ForkInv'
  BY <1>3, ResumeEffect DEF resume, ForkInv, procstate, Forking, Goto, At
<1>4. ASSUME NEW c \in Cpu, yield(c) PROVE ForkInv'
  <2>1. proc[c] \in Slot /\ state[proc[c]] = "RUNNING" /\ UNCHANGED <<parent, np, kstack>>
    BY <1>4 DEF yield, SwitchInv, Types, At, Runs, sched
  <2>2. pc' = pc \/ pc' = [pc EXCEPT ![proc[c]] = "exit"]
    BY <1>4, Zenon DEF yield, Goto, Runs, sched
  <2>3. state' = state \/ state' = [state EXCEPT ![proc[c]] = "RUNNABLE"]
    BY <1>4, Zenon DEF yield
  <2>4. \A s \in Slot : pc'[s] = pc[s] \/ pc'[s] = "exit"
    BY <2>1, <2>2 DEF Types, Living, Goto, At
  <2>5. \A s \in Slot : \/ state'[s] = state[s]
                        \/ state[s] = "RUNNING" /\ state'[s] = "RUNNABLE"
    BY <2>1, <2>3 DEF Types
  <2> QED
    BY <2>1, <2>4, <2>5, SMTT(20) DEF ForkInv, Forking
<1>5. ASSUME NEW c \in Cpu, trap(c) PROVE ForkInv'
  BY <1>5, ProcAssumption
     DEF trap, Calls, ForkInv, Types, Living, Forking, table, cpus, Goto, At
<1>6. ASSUME NEW c \in Cpu, allocproc(c) PROVE ForkInv'
  <2>0. /\ proc[c] \in Slot /\ state[proc[c]] = "RUNNING" /\ pc[proc[c]] = "fork"
        /\ UNCHANGED <<parent, kstack>>
    BY <1>6 DEF allocproc, Types, At, Runs
  <2>1. CASE fork_failed(c) /\ UNCHANGED state
    BY <2>0, <2>1 DEF fork_failed, ForkInv, procstate, Living, Forking, Goto
  <2>2. ASSUME NEW s \in Slot, state[s] = "UNUSED", state' = [state EXCEPT ![s] = "EMBRYO"],
               np' = [np EXCEPT ![proc[c]] = s], Goto(c, "kalloc")
        PROVE  ForkInv'
    BY <2>0, <2>2 DEF ForkInv, Types, Goto
  <2> HIDE DEF ForkInv, Goto
  <2> QED
    BY <1>6, <2>1, <2>2, AllocprocEffect, Zenon
<1>7. ASSUME NEW c \in Cpu, allocproc_kstack(c) PROVE ForkInv'
  BY <1>7 DEF allocproc_kstack, fork_failed, ForkInv, Types, Forking, Goto, At, Runs, sched
<1>8. ASSUME NEW c \in Cpu, fork_copyuvm(c) PROVE ForkInv'
  BY <1>8
     DEF fork_copyuvm, fork_failed, ForkInv, Types, procstate, Living, Forking, Goto, At, Runs
<1>9. ASSUME NEW c \in Cpu, fork(c) PROVE ForkInv'
  BY <1>9 DEF fork, ForkInv, Types, Forking, Goto, At, Runs
<1>10. ASSUME NEW c \in Cpu, wait(c) PROVE ForkInv'
  <2>0. proc[c] \in Slot /\ state[proc[c]] = "RUNNING" /\ UNCHANGED np
    BY <1>10, WaitEffect
  <2>1. ASSUME NEW z \in Slot, WaitFrees(c, z) PROVE ForkInv'
    BY <2>0, <2>1 DEF WaitFrees, ForkInv, procstate, Living, Forking, Goto, Runs, sched
  <2>2. CASE WaitReturns(c)
    BY <2>0, <2>2 DEF WaitReturns, ForkInv, Forking, Goto, At, sched
  <2>3. CASE WaitSleeps(c)
    <3>1. pc[proc[c]] \notin Forking
      BY <1>10 DEF wait, Living, Forking, At
    <3> QED
      BY <2>0, <2>3, <3>1
         DEF WaitSleeps, sleep, ForkInv, Types, procstate, Living, Forking, Goto, At, sched
  <2> QED
    BY <1>10, <2>1, <2>2, <2>3, WaitEffect
<1>11. ASSUME NEW c \in Cpu, kill(c) PROVE ForkInv'
  <2>1. Wakes(state')
    BY <1>11, KillEffect
       DEF Wakes, Roused, Types, procstate, Living, table, cpus, threads, Goto, At, Runs, sched
  <2> QED
    BY <1>11, <2>1 DEF kill, Wakes, ForkInv, procstate, Living, Forking, Goto, sched
<1>12. ASSUME NEW c \in Cpu, sys_sleep(c) PROVE ForkInv'
  BY <1>12 DEF sys_sleep, ForkInv, Types, Forking, table, Goto, Runs
<1>13. ASSUME NEW c \in Cpu, sleep_ticks(c) PROVE ForkInv'
  <2>1. /\ pc[proc[c]] = "sleep1" /\ UNCHANGED <<parent, kstack, np>>
        /\ state' = [state EXCEPT ![proc[c]] = "SLEEPING"]
        /\ pc' = [pc EXCEPT ![proc[c]] = "tick_sleep"]
    BY <1>13 DEF sleep_ticks, sleep, Goto, At
  <2>2. state[proc[c]] = "RUNNING"
    BY <1>13 DEF sleep_ticks, At, Runs
  <2>3. \A s \in Slot : \/ s # proc[c] /\ state'[s] = state[s] /\ pc'[s] = pc[s]
                        \/ s = proc[c] /\ state[s] = "RUNNING" /\ pc'[s] = "tick_sleep"
    BY <2>1, <2>2 DEF Types
  <2> QED
    BY <2>1, <2>3, SMTT(20) DEF ForkInv, Forking
<1>14. ASSUME NEW c \in Cpu, exit(c) PROVE ForkInv'
  <2>1. proc[c] \in Slot /\ Wakes(exit_wakeups(proc[c]))
    BY <1>14, ExitWakes DEF exit, Types, procstate, Living, Forking, At, Runs
  <2> QED
    BY <1>14, <2>1 DEF exit, Wakes, Abandon, ForkInv, Types, Forking, Goto, At, Runs
<1>15. CASE UNCHANGED vars
  BY <1>15 DEF vars, ForkInv, table, threads
<1> QED
  BY Zenon, <1>1, <1>2, <1>3, <1>4, <1>5, <1>6, <1>7, <1>8, <1>9, <1>10, <1>11, <1>12, <1>13,
     <1>14, <1>15
     DEF Next, syscall

LEMMA StackStep == Types /\ SwitchInv /\ ForkInv /\ StackInv /\ [Next]_vars => StackInv'
<1> SUFFICES ASSUME Types, SwitchInv, ForkInv, StackInv, [Next]_vars PROVE StackInv'
  OBVIOUS
<1>1. ASSUME Wakes(state'), UNCHANGED kstack PROVE StackInv'
  BY <1>1 DEF Wakes, StackInv, Living
<1>2. CASE tick
  BY <1>1, <1>2, WakeupWakes DEF tick
<1>3. ASSUME NEW c \in Cpu, scheduler(c) PROVE StackInv'
  <2>1. UNCHANGED kstack
    BY <1>3, Zenon DEF scheduler, table
  <2>2. \A s \in Slot : state'[s] = state[s] \/ state[s] = "RUNNABLE"
    BY <1>3, SchedulerEffect DEF Types
  <2> QED
    BY <2>1, <2>2 DEF StackInv, Living
<1>4. ASSUME NEW c \in Cpu, resume(c) \/ trap(c) \/ sys_sleep(c) PROVE StackInv'
  BY <1>4 DEF resume, trap, sys_sleep, StackInv, table
<1>5. ASSUME NEW c \in Cpu, yield(c) PROVE StackInv'
  BY <1>5, SlotFacts DEF yield, SwitchInv, StackInv, Types
<1>6. ASSUME NEW c \in Cpu, allocproc(c) PROVE StackInv'
  BY <1>6, AllocprocEffect DEF allocproc, StackInv, Types, Living
<1>7. ASSUME NEW c \in Cpu, allocproc_kstack(c) PROVE StackInv'
  BY <1>7 DEF allocproc_kstack, StackInv, Types, Living
<1>8. ASSUME NEW c \in Cpu, fork_copyuvm(c) PROVE StackInv'
  BY <1>8 DEF fork_copyuvm, StackInv, Types, Living
<1>9. ASSUME NEW c \in Cpu, fork(c) PROVE StackInv'
  <2>1. pc[proc[c]] = "fork_run" /\ proc[c] \in Slot /\ UNCHANGED kstack
    BY <1>9 DEF fork, At, Runs, Types
  <2>2. kstack[np[proc[c]]] /\ state' = [state EXCEPT ![np[proc[c]]] = "RUNNABLE"]
    BY <1>9, <2>1 DEF fork, ForkInv
  <2>3. \A s \in Slot : state'[s] = state[s] \/ kstack[s]
    BY <2>2 DEF Types
  <2> QED
    BY <2>1, <2>3 DEF StackInv
<1>10. ASSUME NEW c \in Cpu, wait(c) PROVE StackInv'
  <2>0. proc[c] \in Slot /\ state[proc[c]] = "RUNNING"
    BY <1>10, WaitEffect
  <2>1. ASSUME NEW z \in Slot, WaitFrees(c, z) PROVE StackInv'
    BY <2>1 DEF WaitFrees, StackInv, Types, Living
  <2>2. CASE WaitReturns(c)
    BY <2>2 DEF WaitReturns, StackInv
  <2>3. CASE WaitSleeps(c)
    BY <2>0, <2>3 DEF WaitSleeps, sleep, StackInv, Living
  <2> QED
    BY <1>10, <2>1, <2>2, <2>3, WaitEffect, Zenon
       DEF StackInv, Types, procstate, Living, Goto, Runs, sched
<1>11. ASSUME NEW c \in Cpu, kill(c) PROVE StackInv'
  BY <1>11, KillEffect, SlotFacts
     DEF kill, Roused, StackInv, Types, procstate, Living, Goto, At, Runs, sched
<1>12. ASSUME NEW c \in Cpu, sleep_ticks(c) PROVE StackInv'
  <2>1. /\ state[proc[c]] = "RUNNING" /\ UNCHANGED kstack
        /\ state' = [state EXCEPT ![proc[c]] = "SLEEPING"]
    BY <1>12 DEF sleep_ticks, sleep, At, Runs
  <2>2. \A s \in Slot : state'[s] = state[s] \/ state[s] = "RUNNING"
    BY <2>1 DEF Types
  <2> QED
    BY <2>1, <2>2 DEF StackInv, Living
<1>13. ASSUME NEW c \in Cpu, exit(c) PROVE StackInv'
  <2>1. proc[c] \in Slot /\ Wakes(exit_wakeups(proc[c]))
    BY <1>13, ExitWakes DEF exit, StackInv, Types, At, Runs, sched
  <2> QED
    BY <1>13, <2>1, SlotFacts
       DEF exit, Wakes, StackInv, Types, Living, table, cpus, threads, Goto, At, Runs, sched
<1>14. CASE UNCHANGED vars
  BY <1>14 DEF vars, StackInv, table
<1> QED
  BY <1>2, <1>3, <1>4, <1>5, <1>6, <1>7, <1>8, <1>9, <1>10, <1>11, <1>12, <1>13, <1>14
     DEF Next, syscall
=============================================================================
