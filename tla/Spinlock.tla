------------------------------ MODULE Spinlock ------------------------------
(***************************************************************************)
(* Spin-locks (spinlock.c): acquire() and release() with the nesting of    *)
(* pushcli() and popcli(), on several CPUs with interrupts.                *)
(*                                                                         *)
(* Each CPU runs code that takes locks in increasing order and gives them  *)
(* back in any order.  While its interrupts are on it may be interrupted,  *)
(* between any two instructions; the handler enters with interrupts off,   *)
(* takes and releases one lock, and returns.                               *)
(***************************************************************************)
EXTENDS Integers, Sequences, FiniteSets

CONSTANTS Cpu, NoCpu, Lock   \* locks are numbers, in the order in which code takes them

SpinlockAssumption == Lock \subseteq Int /\ NoCpu \notin Cpu

VARIABLES locked, owner,     \* lk->locked and lk->cpu
          IF_, ncli, intena, \* the interrupt flag, and struct cpu
          code,              \* the code of each CPU, and its handler if one runs
          found,             \* history: the flag that the outermost acquire() found
          panicked

vars == <<locked, owner, IF_, ncli, intena, code, found, panicked>>

\* A thread of control: where it is, in a call on lock l; the locks it holds;
\* eflags, the local variable of pushcli().
Start == [pc |-> "run", l |-> 0, held |-> {}, eflags |-> FALSE]
Handler(l) == [Start EXCEPT !.pc = "acquire", !.l = l]

Init ==
    /\ locked = [l \in Lock |-> FALSE]
    /\ owner = [l \in Lock |-> NoCpu]
    /\ IF_ \in [Cpu -> BOOLEAN]
    /\ ncli = [c \in Cpu |-> 0]
    /\ intena = [c \in Cpu |-> FALSE]
    /\ code = [c \in Cpu |-> <<Start>>]
    /\ found = [c \in Cpu |-> FALSE]
    /\ panicked = FALSE

\* The code that runs on c is the last of its sequence.
Top(c) == code[c][Len(code[c])]
At(c, pc) == ~panicked /\ Top(c).pc = pc
Set(c, t) == code' = [code EXCEPT ![c][Len(code[c])] = t]
Goto(c, pc) == Set(c, [Top(c) EXCEPT !.pc = pc])
panic == panicked' = TRUE /\ UNCHANGED <<locked, owner, IF_, ncli, intena, code, found>>
holding(c, l) == locked[l] /\ owner[l] = c

-----------------------------------------------------------------------------
\* A call of acquire() by code that holds only smaller locks.
acquire(c, l) ==
    /\ At(c, "run") /\ \A h \in Top(c).held : h < l
    /\ Len(code[c]) = 1
    /\ Set(c, [Top(c) EXCEPT !.pc = "acquire", !.l = l])
    /\ UNCHANGED <<locked, owner, IF_, ncli, intena, found, panicked>>

\* pushcli(): eflags is read, ...
pushcli_read(c) ==
    /\ At(c, "acquire")
    /\ Set(c, [Top(c) EXCEPT !.pc = "cli", !.eflags = IF_[c]])
    /\ UNCHANGED <<locked, owner, IF_, ncli, intena, found, panicked>>

\* Mutant: every pushcli() records the flag.
Saved_Always(c) == Top(c).eflags

\* What the outermost pushcli() records.
Saved(c) == IF ncli[c] = 0 THEN Top(c).eflags ELSE intena[c]

\* cli()
Cli(c) == FALSE

\* ... then interrupts are off and the nesting is counted.
pushcli(c) ==
    /\ At(c, "cli")
    /\ IF_' = [IF_ EXCEPT ![c] = Cli(c)]
    /\ intena' = [intena EXCEPT ![c] = Saved(c)]
    /\ ncli' = [ncli EXCEPT ![c] = @ + 1]
    /\ found' = [found EXCEPT ![c] = IF Top(c).held = {} THEN Top(c).eflags ELSE @]
    /\ Goto(c, "xchg")
    /\ UNCHANGED <<locked, owner, panicked>>

\* xchg() finds the lock free.
Available(l) == ~locked[l]

\* acquire(): the check, and the loop until xchg() finds the lock free.
xchg(c) ==
    /\ At(c, "xchg")
    /\ IF holding(c, Top(c).l) THEN panic
       ELSE /\ Available(Top(c).l)
            /\ locked' = [locked EXCEPT ![Top(c).l] = TRUE]
            /\ Goto(c, "own")
            /\ UNCHANGED <<owner, IF_, ncli, intena, found, panicked>>

own(c) ==
    /\ At(c, "own")
    /\ owner' = [owner EXCEPT ![Top(c).l] = c]
    /\ Set(c, [Top(c) EXCEPT !.pc = "run", !.held = @ \union {Top(c).l}])
    /\ UNCHANGED <<locked, IF_, ncli, intena, found, panicked>>

\* release() of any lock that the code holds.
release(c, l) ==
    /\ At(c, "run") /\ l \in Top(c).held
    /\ IF ~holding(c, l) THEN panic
       ELSE /\ owner' = [owner EXCEPT ![l] = NoCpu]
            /\ Set(c, [Top(c) EXCEPT !.pc = "unlock", !.l = l])
            /\ UNCHANGED <<locked, IF_, ncli, intena, found, panicked>>

unlock(c) ==
    /\ At(c, "unlock")
    /\ locked' = [locked EXCEPT ![Top(c).l] = FALSE]
    /\ Set(c, [Top(c) EXCEPT !.pc = "popcli", !.held = @ \ {Top(c).l}])
    /\ UNCHANGED <<owner, IF_, ncli, intena, found, panicked>>

\* The flag after popcli().
Sti(c) == IF ncli[c] = 1 THEN intena[c] ELSE IF_[c]

popcli(c) ==
    /\ At(c, "popcli")
    /\ IF IF_[c] \/ ncli[c] = 0 THEN panic
       ELSE /\ ncli' = [ncli EXCEPT ![c] = @ - 1]
            /\ IF_' = [IF_ EXCEPT ![c] = Sti(c)]
            /\ Goto(c, "run")
            /\ UNCHANGED <<locked, owner, intena, found, panicked>>

-----------------------------------------------------------------------------
\* The gates of trap.c are interrupt gates: a handler enters with interrupts
\* off.
interrupt(c, l) ==
    /\ ~panicked /\ IF_[c] /\ Len(code[c]) = 1
    /\ IF_' = [IF_ EXCEPT ![c] = FALSE]
    /\ code' = [code EXCEPT ![c] = Append(@, Handler(l))]
    /\ UNCHANGED <<locked, owner, ncli, intena, found, panicked>>

\* iret restores the flag.
iret(c) ==
    /\ At(c, "run") /\ Len(code[c]) = 2 /\ Top(c).held = {}
    /\ code' = [code EXCEPT ![c] = <<@[1]>>]
    /\ IF_' = [IF_ EXCEPT ![c] = TRUE]
    /\ UNCHANGED <<locked, owner, ncli, intena, found, panicked>>

\* scheduler() turns interrupts on at the head of its loop.
sti(c) ==
    /\ At(c, "run") /\ Len(code[c]) = 1 /\ Top(c).held = {}
    /\ IF_' = [IF_ EXCEPT ![c] = TRUE]
    /\ UNCHANGED <<locked, owner, ncli, intena, code, found, panicked>>

Next ==
    \E c \in Cpu :
       \/ \E l \in Lock : acquire(c, l) \/ release(c, l) \/ interrupt(c, l)
       \/ pushcli_read(c) \/ pushcli(c) \/ xchg(c) \/ own(c)
       \/ unlock(c) \/ popcli(c) \/ iret(c) \/ sti(c)

Spec == Init /\ [][Next]_vars

-----------------------------------------------------------------------------
(* Properties *)

HeldBy(c) == UNION {code[c][k].held : k \in DOMAIN code[c]}

\* Two CPUs never hold the same lock.
MutualExclusion == \A c, d \in Cpu : c # d => HeldBy(c) \cap HeldBy(d) = {}

\* A CPU that holds or waits for a lock cannot be interrupted: a handler
\* would spin on a lock that its own CPU cannot release.
NoInterruptWithLock ==
    \A c \in Cpu : HeldBy(c) # {} \/ Top(c).pc \in {"xchg", "own"} => ~IF_[c]

\* Code that holds no lock any more has the flag that its outermost acquire()
\* found, in whatever order the locks were released.
FlagRestored ==
    \A c \in Cpu : At(c, "popcli") /\ HeldBy(c) = {} =>
       /\ intena[c] = found[c]
       /\ ncli[c] = 1

\* No panic: no code takes a lock that it holds, releases one that it does not
\* hold, or pops more than it has pushed.
NoLockPanic == ~panicked
=============================================================================
