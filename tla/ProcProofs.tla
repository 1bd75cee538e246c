------------------------------ MODULE ProcProofs ------------------------------
(* Parents, pids and sleeping in wait(): the rest of the inductive           *)
(* invariant of the process table, and the safety theorems.                  *)
EXTENDS ProcTableProofs

-----------------------------------------------------------------------------
(* Parents *)

LEMMA ParentStep == Types /\ SwitchInv /\ ForkInv /\ ParentInv /\ [Next]_vars => ParentInv'
<1> SUFFICES ASSUME Types, SwitchInv, ForkInv, ParentInv, [Next]_vars PROVE ParentInv'
  OBVIOUS
<1>1. ASSUME Wakes(state'), UNCHANGED <<parent, np>>,
             \A s \in Slot : pc[s] = "fork_run" => pc'[s] = "fork_run"
      PROVE  ParentInv'
  BY <1>1, SlotFacts DEF Wakes, ParentInv, Types, Living
<1>2. CASE tick
  BY <1>1, <1>2, WakeupWakes DEF tick, table, cpus, threads, Goto, At, sched
<1>3. ASSUME NEW c \in Cpu, scheduler(c) PROVE ParentInv'
  <2>0. UNCHANGED <<parent, np, pc>>
    BY <1>3 DEF scheduler, threads
  <2>1. CASE UNCHANGED state
    BY <2>0, <2>1 DEF ParentInv
  <2>2. ASSUME NEW s \in Slot, state[s] = "RUNNABLE", state' = [state EXCEPT ![s] = "RUNNING"]
        PROVE  ParentInv'
    BY <2>0, <2>2 DEF ParentInv, Living, Forking
  <2> HIDE DEF ParentInv
  <2> QED
    BY <1>3, <2>1, <2>2, SchedulerEffect, Zenon
<1>4. ASSUME NEW c \in Cpu, resume(c) PROVE ParentInv'
  BY <1>4, ResumeEffect DEF resume, ParentInv, Goto
<1>5. ASSUME NEW c \in Cpu, yield(c) PROVE ParentInv'
  <2>1. proc[c] \in Slot /\ state[proc[c]] = "RUNNING" /\ UNCHANGED <<parent, np>>
    BY <1>5 DEF yield, SwitchInv, Types, Runs
  <2>2. \A s \in Slot : pc[s] = "fork_run" => pc'[s] = "fork_run"
    BY <1>5, <2>1 DEF yield, Types, Goto
  <2>3. state' \in {state, [state EXCEPT ![proc[c]] = "RUNNABLE"]}
    BY <1>5, Zenon DEF yield
  <2> QED
    BY <2>1, <2>2, <2>3, SlotFacts DEF ParentInv, Types, Living
<1>6. ASSUME NEW c \in Cpu, trap(c) PROVE ParentInv'
  BY <1>6, ProcAssumption DEF trap, ParentInv, Types, table, Goto, At
<1>7. ASSUME NEW c \in Cpu, allocproc(c) PROVE ParentInv'
  <2>0. proc[c] \in Slot /\ pc[proc[c]] = "fork" /\ UNCHANGED parent
    BY <1>7 DEF allocproc, Types, At, Runs
  <2>1. CASE fork_failed(c) /\ UNCHANGED state
    BY <2>0, <2>1 DEF fork_failed, ParentInv, Goto, sched
  <2>2. ASSUME NEW s \in Slot, state[s] = "UNUSED", state' = [state EXCEPT ![s] = "EMBRYO"],
               np' = [np EXCEPT ![proc[c]] = s], Goto(c, "kalloc")
        PROVE  ParentInv'
    BY <2>0, <2>2 DEF ParentInv, procstate, Living, Forking, Goto, At
  <2> QED
    BY <1>7, <2>1, <2>2, AllocprocEffect
<1>8. ASSUME NEW c \in Cpu, allocproc_kstack(c) PROVE ParentInv'
  <2>1. /\ proc[c] \in Slot /\ pc[proc[c]] = "kalloc" /\ np[proc[c]] \in Slot
        /\ state[np[proc[c]]] = "EMBRYO" /\ UNCHANGED parent
    BY <1>8 DEF allocproc_kstack, ForkInv, Types, Forking, At, Runs
  <2>2. parent[np[proc[c]]] = NoProc
    <3>1. \A s \in Slot : pc[s] = "fork_run" /\ np[s] = np[proc[c]] => s = proc[c]
      BY <2>1 DEF ForkInv, Forking
    <3> QED
      BY <2>1, <3>1 DEF ParentInv, Types
  <2>3. CASE Goto(c, "copyuvm") /\ UNCHANGED <<state, np>>
    BY <2>1, <2>3 DEF ParentInv, Goto
  <2>4. CASE state' = [state EXCEPT ![np[proc[c]]] = "UNUSED"] /\ fork_failed(c)
    BY <2>1, <2>2, <2>4 DEF fork_failed, ParentInv, Living, Goto, sched
  <2> QED
    BY <1>8, <2>3, <2>4, Zenon DEF allocproc_kstack
<1>9. ASSUME NEW c \in Cpu, fork_copyuvm(c) PROVE ParentInv'
  <2>1. /\ proc[c] \in Slot /\ pc[proc[c]] = "copyuvm" /\ np[proc[c]] \in Slot
        /\ state[np[proc[c]]] = "EMBRYO" /\ state[proc[c]] = "RUNNING"
    BY <1>9 DEF fork_copyuvm, ForkInv, Types, Forking, At, Runs
  <2>2. parent[np[proc[c]]] = NoProc
    <3>1. \A s \in Slot : pc[s] = "fork_run" /\ np[s] = np[proc[c]] => s = proc[c]
      BY <2>1 DEF ForkInv, Forking
    <3> QED
      BY <2>1, <3>1 DEF ParentInv, Types
  <2>3. CASE /\ parent' = [parent EXCEPT ![np[proc[c]]] = proc[c]]
             /\ Goto(c, "fork_run") /\ UNCHANGED <<state, np>>
    BY <2>1, <2>3 DEF ParentInv, Types, procstate, Living, Forking, Goto, sched
  <2>4. CASE /\ state' = [state EXCEPT ![np[proc[c]]] = "UNUSED"]
             /\ fork_failed(c) /\ UNCHANGED parent
    BY <2>1, <2>2, <2>4 DEF fork_failed, ParentInv, Living, Goto
  <2> QED
    BY <1>9, <2>3, <2>4, Zenon DEF fork_copyuvm
<1>10. ASSUME NEW c \in Cpu, fork(c) PROVE ParentInv'
  <2>1. /\ proc[c] \in Slot /\ pc[proc[c]] = "fork_run" /\ np[proc[c]] \in Slot
        /\ state[np[proc[c]]] = "EMBRYO" /\ state[proc[c]] = "RUNNING"
        /\ parent[np[proc[c]]] = proc[c] /\ UNCHANGED parent
    BY <1>10 DEF fork, ForkInv, Types, Forking, At, Runs
  <2>2. \A s \in Slot : state'[s] = IF s = np[proc[c]] THEN "RUNNABLE" ELSE state[s]
    BY <1>10, <2>1 DEF fork, Types
  <2>3. \A s \in Slot : s # proc[c] /\ s # np[proc[c]] => pc'[s] = pc[s] /\ np'[s] = np[s]
    BY <1>10, <2>1 DEF fork, Types, Living, Forking, Goto
  <2>4. \A s \in Slot : state'[s] = "EMBRYO" /\ parent[s] # NoProc =>
                            parent[s] # proc[c] /\ parent[s] # np[proc[c]]
    BY <2>1, <2>2 DEF ForkInv, ParentInv, Living, Forking
  <2> QED
    BY <2>1, <2>2, <2>3, <2>4, SlotFacts DEF ParentInv, Types, Living, Goto, At, Runs
<1>11. ASSUME NEW c \in Cpu, wait(c) PROVE ParentInv'
  <2>0. proc[c] \in Slot /\ state[proc[c]] = "RUNNING" /\ UNCHANGED np
    BY <1>11, WaitEffect
  <2>1. pc[proc[c]] # "fork_run"
    BY <1>11 DEF wait, At
  <2>2. ASSUME NEW z \in Slot, WaitFrees(c, z) PROVE ParentInv'
    BY <2>0, <2>1, <2>2, SlotFacts DEF WaitFrees, ParentInv, Types, Living, Goto
  <2>3. CASE WaitReturns(c)
    BY <2>0, <2>1, <2>3, SlotFacts DEF WaitReturns, ParentInv, Types, Goto, At
  <2>4. CASE WaitSleeps(c)
    BY <2>0, <2>1, <2>4, SlotFacts
       DEF WaitSleeps, sleep, ParentInv, Types, procstate, Living, Goto, At, Runs, sched
  <2> QED
    BY <1>11, <2>2, <2>3, <2>4, WaitEffect, SlotFacts
       DEF ParentInv, Types, procstate, Living, Forking, table, cpus, threads, Goto, At, Runs,
           sched
<1>12. ASSUME NEW c \in Cpu, kill(c) PROVE ParentInv'
  <2>1. Wakes(state')
    BY <1>12, KillEffect DEF Wakes, Roused, Types, procstate
  <2> QED
    BY <1>1, <1>12, <2>1 DEF kill, procstate, Living, Forking, threads, Goto, At, Runs, sched
<1>13. ASSUME NEW c \in Cpu, sys_sleep(c) PROVE ParentInv'
  BY <1>13 DEF sys_sleep, ParentInv, Types, table, Goto, At
<1>14. ASSUME NEW c \in Cpu, sleep_ticks(c) PROVE ParentInv'
  BY <1>14 DEF sleep_ticks, sleep, ParentInv, Living, Goto, At, Runs, sched
<1>15. ASSUME NEW c \in Cpu, exit(c) PROVE ParentInv'
  <2>0. proc[c] \in Slot /\ state[proc[c]] = "RUNNING" /\ pc[proc[c]] = "exit" /\ UNCHANGED np
    BY <1>15 DEF exit, Types, At, Runs
  <2>1. CASE proc[c] = initproc
    BY <1>15, <2>0, <2>1 DEF exit, ParentInv, Types, procstate, Living, Forking, Goto
  <2>2. CASE proc[c] # initproc
    <3>1. /\ state' = [exit_wakeups(proc[c]) EXCEPT ![proc[c]] = "ZOMBIE"]
          /\ parent' = Abandon(proc[c]) /\ UNCHANGED pc
      BY <1>15, <2>2 DEF exit
    <3>2. Wakes(exit_wakeups(proc[c]))
      BY <2>0, ExitWakes
    <3>3. /\ state'[proc[c]] = "ZOMBIE"
          /\ \A s \in Slot \ {proc[c]} : state'[s] = state[s] \/ (state[s] = "SLEEPING" /\ state'[s] = "RUNNABLE")
      BY <2>0, <3>1, <3>2 DEF Wakes
    <3>4. \A s \in Slot : parent'[s] = IF parent[s] = proc[c] THEN initproc ELSE parent[s]
      BY <3>1 DEF Abandon
    <3> QED
      BY <2>0, <2>2, <3>1, <3>3, <3>4, SlotFacts DEF ParentInv, Types, Living
  <2> QED
    BY <2>1, <2>2
<1>16. CASE UNCHANGED vars
  BY <1>16 DEF vars, ParentInv, table, threads
<1> QED
  BY Zenon, <1>2, <1>3, <1>4, <1>5, <1>6, <1>7, <1>8, <1>9, <1>10, <1>11, <1>12, <1>13, <1>14,
     <1>15, <1>16
     DEF Next, syscall

-----------------------------------------------------------------------------
(* Pids *)

\* Steps that give no pid and start no process keep what is said of pids.
LEMMA SamePids ==
    ASSUME Types, Numbers, PidInv, UNCHANGED <<pid, nextpid, sh>>,
           \A s \in Slot : state'[s] # "UNUSED" => state[s] # "UNUSED"
    PROVE  Numbers' /\ PidInv'
BY DEF Numbers, PidInv, PidsUnique

LEMMA PidStep ==
    Types /\ Numbers /\ SwitchInv /\ ForkInv /\ PidInv /\ [Next]_vars => Numbers' /\ PidInv'
<1> SUFFICES ASSUME Types, Numbers, SwitchInv, ForkInv, PidInv, [Next]_vars
             PROVE  Numbers' /\ PidInv'
  OBVIOUS
<1>1. CASE tick
  <2>1. Wakes(state')
    BY <1>1, WakeupWakes DEF tick
  <2> QED
    BY <1>1, <2>1, SamePids DEF tick, Wakes, table, cpus, threads
<1>2. ASSUME NEW c \in Cpu, scheduler(c) PROVE Numbers' /\ PidInv'
  <2>1. \A s \in Slot : state'[s] # "UNUSED" => state[s] # "UNUSED"
    BY <1>2, SchedulerEffect DEF Types
  <2> QED
    BY <1>2, <2>1, SamePids DEF scheduler, table, cpus, threads
<1>3. ASSUME NEW c \in Cpu, resume(c) \/ trap(c) \/ sys_sleep(c) PROVE Numbers' /\ PidInv'
  BY <1>3, SamePids DEF resume, trap, sys_sleep, table
<1>4. ASSUME NEW c \in Cpu, yield(c) PROVE Numbers' /\ PidInv'
  <2>1. proc[c] \in Slot /\ state[proc[c]] = "RUNNING"
    BY <1>4 DEF yield, SwitchInv, Types, Runs
  <2>2. \A s \in Slot : state'[s] # "UNUSED" => state[s] # "UNUSED"
    BY <1>4, <2>1 DEF Types, yield
  <2> QED
    BY <1>4, <2>2, SamePids DEF yield
<1>5. ASSUME NEW c \in Cpu, allocproc(c) PROVE Numbers' /\ PidInv'
  <2>1. CASE UNCHANGED <<state, pid, nextpid>>
    BY <1>5, <2>1, SamePids DEF allocproc
  <2>2. ASSUME NEW s \in Slot, nextpid <= MaxPid, state' = [state EXCEPT ![s] = "EMBRYO"],
               pid' = [pid EXCEPT ![s] = nextpid], nextpid' = nextpid + 1
        PROVE  Numbers' /\ PidInv'
    <3>1. UNCHANGED sh /\ MaxPid \in Nat
      BY <1>5, ProcAssumption DEF allocproc
    <3>2. Numbers'
      BY <2>2, <3>1 DEF Numbers
    <3>3. \A r \in Slot : pid[r] < nextpid /\ pid[r] \in Nat /\ nextpid \in Nat
      BY <3>1 DEF Numbers, PidInv
    <3>4. \A r \in Slot : pid'[r] < nextpid'
      BY <2>2, <3>3 DEF Numbers
    <3>5. \A r \in Slot : r # s => /\ pid'[r] = pid[r] /\ pid[r] # nextpid
                                   /\ state'[r] = state[r]
      BY <2>2, <3>3 DEF Types
    <3>6. pid'[s] = nextpid
      BY <2>2 DEF Numbers
    <3>7. PidsUnique'
      BY <3>5, <3>6 DEF PidInv, PidsUnique
    <3> QED
      BY <3>2, <3>4, <3>7 DEF PidInv
  <2> QED
    BY <1>5, <2>1, <2>2, AllocprocEffect
<1>6. ASSUME NEW c \in Cpu, allocproc_kstack(c) \/ fork_copyuvm(c) PROVE Numbers' /\ PidInv'
  <2>1. state' \in {state, [state EXCEPT ![np[proc[c]]] = "UNUSED"]}
    BY <1>6 DEF allocproc_kstack, fork_copyuvm
  <2>2. \A s \in Slot : state'[s] # "UNUSED" => state[s] # "UNUSED"
    BY <2>1 DEF Types
  <2> QED
    BY <1>6, <2>2, SamePids DEF allocproc_kstack, fork_copyuvm
<1>7. ASSUME NEW c \in Cpu, fork(c) PROVE Numbers' /\ PidInv'
  <2>1. proc[c] \in Slot /\ np[proc[c]] \in Slot /\ state[np[proc[c]]] = "EMBRYO"
    BY <1>7 DEF fork, At, Runs, ForkInv, Forking, Types
  <2>2. \A s \in Slot : state'[s] # "UNUSED" => state[s] # "UNUSED"
    BY <1>7, <2>1 DEF fork
  <2>3. sh' \in 0 .. MaxPid
    BY <1>7, <2>1 DEF fork, Numbers
  <2> QED
    BY <1>7, <2>2, <2>3 DEF fork, Numbers, PidInv, PidsUnique
<1>8. ASSUME NEW c \in Cpu, wait(c) PROVE Numbers' /\ PidInv'
  <2>0. /\ proc[c] \in Slot /\ state[proc[c]] = "RUNNING" /\ UNCHANGED nextpid
        /\ MaxPid \in Nat /\ sh' \in {0, sh}
    BY <1>8, WaitEffect, ProcAssumption
  <2>1. sh' \in 0 .. MaxPid
    BY <2>0 DEF Numbers
  <2>2. ASSUME NEW z \in Slot, WaitFrees(c, z) PROVE Numbers' /\ PidInv'
    <3>1. pid' = [pid EXCEPT ![z] = 0] /\ state' = [state EXCEPT ![z] = "UNUSED"]
      BY <2>2 DEF WaitFrees
    <3>2. Numbers'
      BY <2>0, <2>1, <3>1 DEF Numbers
    <3>3. \A s \in Slot : pid'[s] < nextpid'
      BY <2>0, <3>1 DEF Numbers, PidInv
    <3>4. PidsUnique'
      BY <3>1 DEF Types, PidInv, PidsUnique
    <3> QED
      BY <3>2, <3>3, <3>4 DEF PidInv
  <2>3. CASE WaitReturns(c)
    BY <2>0, <2>1, <2>3 DEF WaitReturns, Numbers, PidInv, PidsUnique
  <2>4. CASE WaitSleeps(c)
    <3>1. \A s \in Slot : state'[s] # "UNUSED" => state[s] # "UNUSED"
      BY <2>0, <2>4 DEF WaitSleeps, sleep
    <3> QED
      BY <2>0, <2>4, <3>1, SamePids DEF WaitSleeps
  <2> QED
    BY <1>8, <2>2, <2>3, <2>4, WaitEffect
<1>9. ASSUME NEW c \in Cpu, kill(c) PROVE Numbers' /\ PidInv'
  <2>1. \A s \in Slot : state'[s] # "UNUSED" => state[s] # "UNUSED"
    BY <1>9, KillEffect DEF Roused, Types
  <2> QED
    BY <1>9, <2>1, SamePids DEF kill
<1>10. ASSUME NEW c \in Cpu, sleep_ticks(c) PROVE Numbers' /\ PidInv'
  <2>1. \A s \in Slot : state'[s] # "UNUSED" => state[s] # "UNUSED"
    BY <1>10 DEF sleep_ticks, sleep, At, Runs
  <2> QED
    BY <1>10, <2>1, SamePids DEF sleep_ticks
<1>11. ASSUME NEW c \in Cpu, exit(c) PROVE Numbers' /\ PidInv'
  <2>1. proc[c] \in Slot /\ state[proc[c]] = "RUNNING" /\ Wakes(exit_wakeups(proc[c]))
    BY <1>11, ExitWakes DEF exit, At, Runs, Types
  <2>2. state' \in {state, [exit_wakeups(proc[c]) EXCEPT ![proc[c]] = "ZOMBIE"]}
    BY <1>11 DEF exit
  <2>3. \A s \in Slot : state'[s] # "UNUSED" => state[s] # "UNUSED"
    BY <2>1, <2>2 DEF Wakes
  <2> QED
    BY <1>11, <2>3, SamePids DEF exit
<1>12. CASE UNCHANGED vars
  BY <1>12, SamePids DEF vars, table, threads
<1> QED
  BY <1>1, <1>2, <1>3, <1>4, <1>5, <1>6, <1>7, <1>8, <1>9, <1>10, <1>11, <1>12
     DEF Next, syscall

-----------------------------------------------------------------------------
(* Sleeping in wait() *)

\* Steps that put nobody to sleep, kill no sleeper, end no process and change
\* no sleeper's children keep what is said of those asleep in wait().
LEMMA SameSleepers ==
    ASSUME Types, NoLostWait,
           \A s \in Slot : state'[s] = "SLEEPING" =>
               /\ state[s] = "SLEEPING" /\ chan'[s] = chan[s] /\ (killed'[s] => killed[s])
               /\ Children(s)' = Children(s),
           \A r \in Slot : state'[r] = "ZOMBIE" => state[r] = "ZOMBIE"
    PROVE  NoLostWait'
<1> SUFFICES ASSUME NEW s \in Slot, state'[s] = "SLEEPING", chan'[s] = s
             PROVE  /\ Children(s)' # {} /\ ~killed'[s]
                    /\ \A r \in Children(s)' : state'[r] # "ZOMBIE"
  BY DEF NoLostWait
<1> QED
  BY DEF NoLostWait, Children

LEMMA WaitStep ==
    Types /\ SwitchInv /\ ForkInv /\ ParentInv /\ NoLostWait /\ [Next]_vars => NoLostWait'
<1> SUFFICES ASSUME Types, SwitchInv, ForkInv, ParentInv, NoLostWait, [Next]_vars
             PROVE  NoLostWait'
  OBVIOUS
<1>0. UNCHANGED parent => \A s \in Slot : Children(s)' = Children(s)
  BY DEF Children
<1>1. CASE tick
  <2>1. Wakes(state')
    BY <1>1, WakeupWakes DEF tick
  <2> QED
    BY <1>0, <1>1, <2>1, SameSleepers DEF tick, Wakes
<1>2. ASSUME NEW c \in Cpu, scheduler(c) PROVE NoLostWait'
  <2>1. \A s \in Slot : state'[s] = state[s] \/ state'[s] = "RUNNING"
    BY <1>2, SchedulerEffect DEF Types
  <2> QED
    BY <1>0, <1>2, <2>1, SameSleepers DEF scheduler
<1>3. ASSUME NEW c \in Cpu, resume(c) PROVE NoLostWait'
  <2>1. proc[c] \in Slot /\ state[proc[c]] = "RUNNING" /\ UNCHANGED <<state, killed, parent>>
    BY <1>3 DEF resume, Types
  <2>2. \A s \in Slot : s # proc[c] => chan'[s] = chan[s]
    BY <1>3 DEF resume
  <2>3. \A s \in Slot : state'[s] = "SLEEPING" => chan'[s] = chan[s]
    BY <2>1, <2>2
  <2> QED
    BY <1>0, <2>1, <2>3, SameSleepers
<1>4. ASSUME NEW c \in Cpu, trap(c) \/ sys_sleep(c) PROVE NoLostWait'
  BY <1>0, <1>4, SameSleepers DEF trap, sys_sleep, table, cpus, threads
<1>5. ASSUME NEW c \in Cpu, yield(c) PROVE NoLostWait'
  <2>1. \A s \in Slot : state'[s] = state[s] \/ state'[s] = "RUNNABLE"
    BY <1>5 DEF yield, Types
  <2> QED
    BY <1>0, <1>5, <2>1, SameSleepers DEF yield
<1>6. ASSUME NEW c \in Cpu, allocproc(c) PROVE NoLostWait'
  <2>1. \A s \in Slot : state'[s] = state[s] \/ state'[s] = "EMBRYO"
    BY <1>6, AllocprocEffect DEF Types
  <2> QED
    BY <1>0, <1>6, <2>1, SameSleepers DEF allocproc
<1>7. ASSUME NEW c \in Cpu, allocproc_kstack(c) PROVE NoLostWait'
  <2>1. \A s \in Slot : state'[s] = state[s] \/ state'[s] = "UNUSED"
    BY <1>7 DEF allocproc_kstack, Types
  <2> QED
    BY <1>0, <1>7, <2>1, SameSleepers DEF allocproc_kstack
<1>8. ASSUME NEW c \in Cpu, fork_copyuvm(c) PROVE NoLostWait'
  <2>1. /\ \A s \in Slot : state'[s] = state[s] \/ state'[s] = "UNUSED"
        /\ UNCHANGED <<chan, killed>>
    BY <1>8 DEF fork_copyuvm, Types
  <2>2. /\ proc[c] \in Slot /\ state[proc[c]] = "RUNNING" /\ pc[proc[c]] = "copyuvm"
        /\ np[proc[c]] \in Slot /\ state[np[proc[c]]] = "EMBRYO"
    BY <1>8 DEF fork_copyuvm, At, Runs, ForkInv, Forking, Types
  <2>3. parent[np[proc[c]]] = NoProc
    <3> SUFFICES ASSUME parent[np[proc[c]]] # NoProc PROVE FALSE
      OBVIOUS
    <3>1. /\ parent[np[proc[c]]] \in Slot /\ pc[parent[np[proc[c]]]] = "fork_run"
          /\ np[parent[np[proc[c]]]] = np[proc[c]]
      BY <2>2 DEF ParentInv, Types
    <3> QED
      BY <2>2, <3>1 DEF ForkInv, Forking
  <2>4. parent' \in {parent, [parent EXCEPT ![np[proc[c]]] = proc[c]]}
    BY Zenon, <1>8 DEF fork_copyuvm, table, cpus
  <2>5. \A s \in Slot : s # proc[c] => Children(s)' = Children(s)
    BY <2>2, <2>3, <2>4, SlotFacts DEF Children, Types
  <2>6. \A s \in Slot : state'[s] = "SLEEPING" => s # proc[c]
    BY <2>1, <2>2
  <2> QED
    BY <2>1, <2>5, <2>6, SameSleepers
<1>9. ASSUME NEW c \in Cpu, fork(c) PROVE NoLostWait'
  <2>1. \A s \in Slot : state'[s] = state[s] \/ state'[s] = "RUNNABLE"
    BY <1>9 DEF fork
  <2> QED
    BY <1>0, <1>9, <2>1, SameSleepers DEF fork
<1>10. ASSUME NEW c \in Cpu, wait(c) PROVE NoLostWait'
  <2>0. proc[c] \in Slot /\ state[proc[c]] = "RUNNING"
    BY <1>10, WaitEffect
  <2>1. ASSUME NEW z \in Slot, WaitFrees(c, z) PROVE NoLostWait'
    <3>1. \A s \in Slot : state'[s] = state[s] \/ state'[s] = "UNUSED"
      BY <2>1 DEF WaitFrees
    <3>2. \A s \in Slot : s # proc[c] => Children(s)' = Children(s)
      BY <2>1, SlotFacts DEF WaitFrees, Children
    <3>3. \A s \in Slot : (killed'[s] => killed[s]) /\ chan'[s] = chan[s]
      <4>1. killed' = [killed EXCEPT ![z] = FALSE] /\ UNCHANGED chan /\ killed \in [Slot -> BOOLEAN]
        BY <2>1 DEF WaitFrees, Types
      <4> QED
        BY <4>1, Zenon
    <3> QED
      BY <2>0, <3>1, <3>2, <3>3, SameSleepers
  <2>2. CASE WaitReturns(c)
    BY <1>0, <2>2, SameSleepers DEF WaitReturns
  <2>3. CASE WaitSleeps(c)
    <3>1. /\ Zombies(proc[c]) = {} /\ Children(proc[c]) # {} /\ ~killed[proc[c]]
          /\ state' = [state EXCEPT ![proc[c]] = "SLEEPING"]
          /\ chan' = [chan EXCEPT ![proc[c]] = proc[c]] /\ UNCHANGED <<parent, killed>>
      BY Zenon, <2>3 DEF WaitSleeps, sleep
    <3>2. \A r \in Children(proc[c]) : state[r] # "ZOMBIE"
      BY Zenon, <3>1 DEF Zombies
    <3>3. /\ \A s \in Slot : s # proc[c] => state'[s] = state[s] /\ chan'[s] = chan[s]
          /\ state'[proc[c]] = "SLEEPING"
      BY <2>0, <3>1 DEF Types
    <3>4. \A r \in Slot : state'[r] = "ZOMBIE" => state[r] = "ZOMBIE"
      BY <3>3
    <3> SUFFICES ASSUME NEW s \in Slot, state'[s] = "SLEEPING", chan'[s] = s
                 PROVE  /\ Children(s)' # {} /\ ~killed'[s]
                        /\ \A r \in Children(s)' : state'[r] # "ZOMBIE"
      BY DEF NoLostWait
    <3>5. Children(s)' = Children(s)
      BY <1>0, <3>1
    <3> QED
      BY <3>1, <3>2, <3>3, <3>4, <3>5 DEF NoLostWait, Children
  <2> QED
    BY <1>10, <2>1, <2>2, <2>3, WaitEffect
<1>11. ASSUME NEW c \in Cpu, kill(c) PROVE NoLostWait'
  <2>1. \A s \in Slot : /\ state'[s] = state[s] \/ state'[s] = "RUNNABLE"
                        /\ state'[s] = "SLEEPING" => (killed'[s] => killed[s])
    BY <1>11, KillEffect DEF Roused, Types
  <2> QED
    BY Zenon, <1>0, <1>11, <2>1, SameSleepers DEF kill, table, cpus, threads
<1>12. ASSUME NEW c \in Cpu, sleep_ticks(c) PROVE NoLostWait'
  <2>1. /\ proc[c] \in Slot /\ UNCHANGED <<parent, killed>>
        /\ state' = [state EXCEPT ![proc[c]] = "SLEEPING"]
        /\ chan' = [chan EXCEPT ![proc[c]] = TICKS]
    BY <1>12 DEF sleep_ticks, sleep, At, Runs, Types
  <2>2. /\ \A s \in Slot : s # proc[c] => state'[s] = state[s] /\ chan'[s] = chan[s]
        /\ chan'[proc[c]] = TICKS /\ state'[proc[c]] = "SLEEPING"
    BY <2>1 DEF Types
  <2> SUFFICES ASSUME NEW s \in Slot, state'[s] = "SLEEPING", chan'[s] = s
               PROVE  /\ Children(s)' # {} /\ ~killed'[s]
                      /\ \A r \in Children(s)' : state'[r] # "ZOMBIE"
    BY DEF NoLostWait
  <2>3. state[s] = "SLEEPING" /\ chan[s] = s
    BY <2>1, <2>2, SlotFacts
  <2>4. Children(s)' = Children(s) /\ \A r \in Slot : state'[r] = "ZOMBIE" => state[r] = "ZOMBIE"
    BY <1>0, <2>1, <2>2
  <2> QED
    BY <2>1, <2>3, <2>4 DEF NoLostWait
<1>13. ASSUME NEW c \in Cpu, exit(c) PROVE NoLostWait'
  <2> DEFINE p == proc[c]
  <2>0. p \in Slot /\ state[p] = "RUNNING" /\ UNCHANGED <<chan, killed>>
    BY <1>13 DEF exit, At, Runs, Types
  <2>1. CASE p = initproc
    BY <1>0, <1>13, <2>1, SameSleepers DEF exit
  <2>2. CASE p # initproc
    <3>1. state' = [exit_wakeups(p) EXCEPT ![p] = "ZOMBIE"] /\ parent' = Abandon(p)
      BY <1>13, <2>2 DEF exit
    <3>2. /\ Wakes(exit_wakeups(p))
          /\ \A s \in Slot : state[s] = "SLEEPING" /\ chan[s] = parent[p] =>
                                 exit_wakeups(p)[s] = "RUNNABLE"
          /\ (\E s \in Children(p) : state[s] = "ZOMBIE") =>
                \A s \in Slot : state[s] = "SLEEPING" /\ chan[s] = initproc =>
                                    exit_wakeups(p)[s] = "RUNNABLE"
      BY <2>0, ExitWakes DEF cpus
    <3> HIDE DEF p
    <3>3. /\ state'[p] = "ZOMBIE"
          /\ \A s \in Slot \ {p} : state'[s] = exit_wakeups(p)[s]
      BY <2>0, <3>1, <3>2 DEF Wakes
    <3>4. \A s \in Slot : parent'[s] = IF parent[s] = p THEN initproc ELSE parent[s]
      BY <3>1 DEF Abandon
    <3> SUFFICES ASSUME NEW s \in Slot, state'[s] = "SLEEPING", chan'[s] = s
                 PROVE  /\ Children(s)' # {} /\ ~killed'[s]
                        /\ \A r \in Children(s)' : state'[r] # "ZOMBIE"
      BY DEF NoLostWait
    <3>5. s # p /\ state[s] = "SLEEPING" /\ chan[s] = s
      BY <2>0, <3>2, <3>3 DEF Wakes
    <3>6. s # parent[p]
      BY <3>2, <3>3, <3>5
    <3>7. /\ Children(s) # {} /\ ~killed[s]
          /\ \A r \in Slot : parent[r] = s => state[r] # "ZOMBIE"
      BY <3>5 DEF NoLostWait, Children
    <3>8. Children(s)' # {}
      <4>1. PICK r \in Slot : parent[r] = s
        BY <3>7 DEF Children
      <4>2. parent'[r] = s
        BY <3>4, <3>5, <4>1
      <4> QED
        BY <4>2 DEF Children
    <3>9. ASSUME NEW r \in Slot, parent'[r] = s PROVE state'[r] # "ZOMBIE"
      <4>1. CASE parent[r] = s
        <5>1. r # p /\ state[r] # "ZOMBIE"
          BY <3>6, <3>7, <4>1
        <5> QED
          BY <3>2, <3>3, <5>1 DEF Wakes
      <4>2. CASE parent[r] = p /\ s = initproc
        <5>1. r # p
          BY <2>0, <4>2 DEF ParentInv
        <5>2. state[r] # "ZOMBIE"
          BY <3>2, <3>3, <3>5, <4>2 DEF Children
        <5> QED
          BY <3>2, <3>3, <5>1, <5>2 DEF Wakes
      <4> QED
        BY <3>4, <3>9, <4>1, <4>2
    <3> QED
      BY <2>0, <3>7, <3>8, <3>9 DEF Children
  <2> QED
    BY <2>1, <2>2
<1>14. CASE UNCHANGED vars
  BY <1>0, <1>14, SameSleepers DEF vars, table
<1> QED
  BY <1>1, <1>2, <1>3, <1>4, <1>5, <1>6, <1>7, <1>8, <1>9, <1>10, <1>11, <1>12, <1>13, <1>14
     DEF Next, syscall

-----------------------------------------------------------------------------
(* Theorems *)

\* The invariant that both theorems follow from.
THEOREM ProcInvariant == Spec => []ProcInv
<1>1. ProcInv /\ [Next]_vars => ProcInv'
  <2> SUFFICES ASSUME ProcInv, [Next]_vars PROVE ProcInv'
    OBVIOUS
  <2>1. Types /\ Numbers
    BY TypeFacts DEF ProcInv
  <2>2. Types' /\ Numbers'
    BY <2>1, TypesStep, PidStep DEF ProcInv
  <2>3. TypeOK'
    BY <2>2, SlotFacts DEF TypeOK, Types, Numbers
  <2> QED
    BY <2>1, <2>3, SwitchStep, ForkStep, StackStep, ParentStep, PidStep, WaitStep DEF ProcInv
<1> QED
  BY InitInv, <1>1, PTL DEF Spec

\* A process runs on one CPU at a time and one that is RUNNING does run, and
\* no CPU executes on a kernel stack that wait() or fork() has freed.
THEOREM ProcRunsSafely == Spec => []RunsSafely
<1>1. ASSUME ProcInv PROVE RunsSafely
  <2>1. RunsOnce
    BY <1>1, Zenon DEF ProcInv, SwitchInv, RunsOnce
  <2>2. proc \in [Cpu -> Slot \union {NoProc}]
    BY <1>1, SlotFacts DEF ProcInv, TypeOK
  <2>3. StackInUse
    BY <1>1, <2>2, Zenon DEF ProcInv, SwitchInv, StackInv, StackInUse
  <2> QED
    BY <1>1, <2>1, <2>3 DEF ProcInv, RunsSafely
<1>2. ProcInv => RunsSafely
  BY <1>1
<1> QED
  BY <1>2, ProcInvariant, PTL

\* Every process has a living parent to free it, no two have the same pid,
\* and nobody sleeps in wait() who has something to do there.
THEOREM ProcWaitSound == Spec => []WaitSound
<1>1. ProcInv => WaitSound
  BY Zenon DEF ProcInv, ParentInv, PidInv, WaitSound, ParentLives, procstate, Living
<1> QED
  BY <1>1, ProcInvariant, PTL
=============================================================================
