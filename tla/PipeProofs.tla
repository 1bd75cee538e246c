----------------------------- MODULE PipeProofs -----------------------------
(***************************************************************************)
(* Proofs about the pipe: its types, that no call touches a page that has  *)
(* been freed, that nobody sleeps without a reason, and that it implements *)
(* the bounded queue Fifo.                                                 *)
(***************************************************************************)
EXTENDS Pipe, Integers, SequenceTheorems, TLAPS

\* The bytes in the pipe.
Count == (nwrite + UintRange - nread) % UintRange

Reading == {"read", "r_sleep", "r_asleep", "r_woken", "copy"}
Writing == {"write", "w_sleep", "w_asleep", "w_woken"}

\* Whoever is between acquire() and release() has the lock.
Inside == {"read", "r_sleep", "copy", "write", "w_sleep"}

LockInv == \A p \in Proc : pc[p] \in Inside <=> lock = p

\* A call on an end is made by a process that has it open; an end is open as
\* long as a process has it, and until the one that closed it last has been
\* through pipeclose(); the page is freed when both are closed.
OpenInv ==
    /\ \A p \in Proc : /\ pc[p] \in Reading => p \in files["read"]
                       /\ pc[p] \in Writing => p \in files["write"]
                       /\ pc[p] = "close_read" => readopen /\ files["read"] = {}
                       /\ pc[p] = "close_write" => writeopen /\ files["write"] = {}
    /\ \A p, q \in Proc : pc[p] = pc[q] /\ pc[p] \in {"close_read", "close_write"} => p = q
    /\ ~readopen => files["read"] = {}
    /\ ~writeopen => files["write"] = {}
    /\ freed = (~readopen /\ ~writeopen)

CountInv == Count <= PIPESIZE

\* What those asleep, or about to be, have seen is still so, except while a
\* reader is copying or a writer is writing, who will wake them.
WaitInv ==
    /\ \A p \in Proc :
          /\ pc[p] = "w_sleep" => Full /\ readopen
          /\ pc[p] = "r_sleep" => Empty /\ writeopen
          /\ pc[p] = "w_asleep" =>
                (Full /\ readopen) \/ \E q \in Proc : pc[q] = "copy"
    /\ (\A p \in Proc : ~killed[p]) =>
          \A p \in Proc : pc[p] = "r_asleep" =>
                (Empty /\ writeopen) \/ \E q \in Proc : pc[q] = "write"

PipeInv == TypeOK /\ LockInv /\ OpenInv /\ CountInv /\ WaitInv

-----------------------------------------------------------------------------
(* Facts about remainders *)

\* A remainder, and the number it is the remainder of.
LEMMA Remainder ==
    ASSUME NEW P \in Nat, P > 0, NEW x \in Nat
    PROVE  /\ x % P \in 0 .. P - 1
           /\ x \div P \in Int
           /\ x = P * (x \div P) + (x % P)
OBVIOUS

\* What is of the form P * q + r has the remainder r.
LEMMA RemainderUnique ==
    ASSUME NEW P \in Nat, P > 0, NEW q \in Int, NEW r \in 0 .. P - 1
    PROVE  (P * q + r) % P = r
OBVIOUS

\* Small numbers are their own remainders.
LEMMA RemainderSmall ==
    ASSUME NEW P \in Nat, P > 0, NEW x \in 0 .. P - 1
    PROVE  x % P = x
OBVIOUS

\* Up to twice the divisor, the remainder is a difference.
LEMMA RemainderLarge ==
    ASSUME NEW P \in Nat, P > 0, NEW x \in P .. 2 * P - 1
    PROVE  x % P = x - P
OBVIOUS

\* Numbers less than P apart have different remainders.
LEMMA RemaindersDiffer ==
    ASSUME NEW P \in Nat, P > 0, NEW x \in Nat, NEW y \in Nat, x < y, y < x + P
    PROVE  x % P # y % P
<1> SUFFICES ASSUME x % P = y % P PROVE FALSE
  OBVIOUS
<1> DEFINE a == x \div P
           b == y \div P
<1>1. a \in Int /\ b \in Int /\ x = P * a + (x % P) /\ y = P * b + (y % P)
  BY Remainder
<1>2. x % P \in Int /\ y % P \in Int
  BY Remainder
<1> HIDE DEF a, b
<1>3. y - x = P * (b - a)
  BY <1>1, <1>2
<1>4. P * (b - a) > 0 /\ P * (b - a) < P
  BY <1>3
<1>5. CASE b - a <= 0
  BY <1>1, <1>4, <1>5
<1>6. CASE b - a >= 1
  BY <1>1, <1>4, <1>6
<1> QED
  BY <1>1, <1>5, <1>6

\* The range of the counters is a multiple of the size of the ring.
LEMMA RemainderShift ==
    ASSUME NEW P \in Nat, P > 0, NEW U \in Nat, U % P = 0, NEW x \in Nat
    PROVE  (x + U) % P = x % P
<1> DEFINE a == x \div P
           b == U \div P
<1>1. a \in Int /\ b \in Int /\ x = P * a + (x % P) /\ U = P * b
  BY Remainder
<1>2. x % P \in 0 .. P - 1
  BY Remainder
<1> HIDE DEF a, b
<1>3. x + U = P * (a + b) + (x % P)
  BY <1>1, <1>2
<1>4. a + b \in Int
  BY <1>1
<1>5. (P * (a + b) + (x % P)) % P = x % P
  BY <1>2, <1>4, RemainderUnique
<1> QED
  BY <1>3, <1>5

-----------------------------------------------------------------------------
(* What the two counters say *)

\* How many bytes there are, without the remainder.
LEMMA CountValue ==
    ASSUME NEW r \in 0 .. UintRange - 1, NEW w \in 0 .. UintRange - 1
    PROVE  (w + UintRange - r) % UintRange = IF w >= r THEN w - r ELSE w + UintRange - r
<1> UintRange \in Nat /\ UintRange > 0
  BY PipeAssumption
<1>1. CASE w >= r
  <2>1. w + UintRange - r \in UintRange .. 2 * UintRange - 1
    BY <1>1
  <2> QED
    BY <1>1, <2>1, RemainderLarge
<1>2. CASE ~(w >= r)
  <2>1. w + UintRange - r \in 0 .. UintRange - 1
    BY <1>2
  <2> QED
    BY <1>2, <2>1, RemainderSmall
<1> QED
  BY <1>1, <1>2

\* nread++ or nwrite++.
LEMMA IncValue ==
    ASSUME NEW x \in 0 .. UintRange - 1
    PROVE  /\ inc(x) \in 0 .. UintRange - 1
           /\ inc(x) = IF x = UintRange - 1 THEN 0 ELSE x + 1
<1> UintRange \in Nat /\ UintRange > 1
  BY PipeAssumption
<1>1. CASE x = UintRange - 1
  BY <1>1, RemainderLarge DEF inc
<1>2. CASE x # UintRange - 1
  <2>1. x + 1 \in 0 .. UintRange - 1
    BY <1>2
  <2> QED
    BY <1>2, <2>1, RemainderSmall DEF inc
<1> QED
  BY <1>1, <1>2

\* Empty and full, in terms of the number of bytes.
LEMMA CountFacts ==
    ASSUME TypeOK
    PROVE  /\ Count \in 0 .. UintRange - 1
           /\ Count = IF nwrite >= nread THEN nwrite - nread ELSE nwrite + UintRange - nread
           /\ Empty <=> Count = 0
           /\ Full <=> Count = PIPESIZE
<1> /\ UintRange \in Nat /\ PIPESIZE \in Nat /\ PIPESIZE > 0 /\ PIPESIZE < UintRange
    /\ nread \in 0 .. UintRange - 1 /\ nwrite \in 0 .. UintRange - 1
  BY PipeAssumption DEF TypeOK
<1>1. Count = IF nwrite >= nread THEN nwrite - nread ELSE nwrite + UintRange - nread
  BY CountValue DEF Count
<1>2. (nread + PIPESIZE) % UintRange =
        IF nread + PIPESIZE < UintRange THEN nread + PIPESIZE ELSE nread + PIPESIZE - UintRange
  <2>1. CASE nread + PIPESIZE < UintRange
    <3>1. nread + PIPESIZE \in 0 .. UintRange - 1
      BY <2>1
    <3> QED
      BY <2>1, <3>1, RemainderSmall
  <2>2. CASE ~(nread + PIPESIZE < UintRange)
    <3>1. nread + PIPESIZE \in UintRange .. 2 * UintRange - 1
      BY <2>2
    <3> QED
      BY <2>2, <3>1, RemainderLarge
  <2> QED
    BY <2>1, <2>2
<1> QED
  BY <1>1, <1>2 DEF Empty, Full

\* A byte written while the pipe is not full, and one read while it is not
\* empty, change the number of bytes by one.
LEMMA CountWrite ==
    ASSUME TypeOK, CountInv, ~Full, nwrite' = inc(nwrite), nread' = nread
    PROVE  Count' = Count + 1 /\ Count + 1 <= PIPESIZE
<1> /\ UintRange \in Nat /\ PIPESIZE \in Nat /\ PIPESIZE > 0 /\ PIPESIZE < UintRange
    /\ nread \in 0 .. UintRange - 1 /\ nwrite \in 0 .. UintRange - 1
  BY PipeAssumption DEF TypeOK
<1>1. Count' = IF nwrite' >= nread THEN nwrite' - nread ELSE nwrite' + UintRange - nread
  BY CountValue, IncValue DEF Count
<1> QED
  BY <1>1, CountFacts, IncValue DEF CountInv

LEMMA CountRead ==
    ASSUME TypeOK, ~Empty, nread' = inc(nread), nwrite' = nwrite
    PROVE  Count' = Count - 1
<1> /\ UintRange \in Nat /\ PIPESIZE \in Nat /\ PIPESIZE > 0 /\ PIPESIZE < UintRange
    /\ nread \in 0 .. UintRange - 1 /\ nwrite \in 0 .. UintRange - 1
  BY PipeAssumption DEF TypeOK
<1>1. Count' = IF nwrite >= nread' THEN nwrite - nread' ELSE nwrite + UintRange - nread'
  BY CountValue, IncValue DEF Count
<1> QED
  BY <1>1, CountFacts, IncValue

-----------------------------------------------------------------------------
(* The types *)

LEMMA InitInv == Init => PipeInv
<1> SUFFICES ASSUME Init PROVE PipeInv
  OBVIOUS
<1> USE PipeAssumption DEF Init
<1>1. TypeOK
  <2>1. nread \in 0 .. UintRange - 1 /\ nwrite \in 0 .. UintRange - 1
    BY DEF Init
  <2>2. todo \in [Proc -> 0 .. MaxCount]
    OBVIOUS
  <2>3. killed \in [Proc -> BOOLEAN] /\ readopen \in BOOLEAN /\ writeopen \in BOOLEAN /\ freed \in BOOLEAN
    BY Zenon
  <2>4. pc \in [Proc -> Label] /\ files \in [End -> SUBSET Proc]
    BY DEF Label
  <2> QED
    BY <2>1, <2>2, <2>3, <2>4 DEF TypeOK
<1>2. LockInv
  BY DEF LockInv, Inside
<1>3. OpenInv
  BY Zenon DEF OpenInv, Reading, Writing
<1>4. CountInv
  BY <1>1, CountFacts DEF CountInv, Empty
<1>5. WaitInv
  BY DEF WaitInv
<1> QED
  BY <1>1, <1>2, <1>3, <1>4, <1>5 DEF PipeInv

LEMMA TypeStep == TypeOK /\ [Next]_vars => TypeOK'
<1> SUFFICES ASSUME TypeOK, [Next]_vars PROVE TypeOK'
  OBVIOUS
<1> USE DEF TypeOK, Label, Goto, pipe
<1>1. ASSUME NEW p \in Proc, NEW e \in End, NEW n \in 0 .. MaxCount, acquire(p, e, n)
      PROVE  TypeOK'
  BY <1>1 DEF acquire, End
<1>2. ASSUME NEW p \in Proc, reacquire(p) PROVE TypeOK'
  BY <1>2 DEF reacquire
<1>3. ASSUME NEW p \in Proc, sleep(p) PROVE TypeOK'
  BY <1>3 DEF sleep
<1>4. ASSUME NEW p \in Proc, pipewrite(p) PROVE TypeOK'
  <2>1. pc' \in [Proc -> Label]
    BY <1>4 DEF pipewrite, wakeup
  <2>2. lock' \in Proc \union {NoProc}
    BY <1>4 DEF pipewrite
  <2>3. nwrite' \in 0 .. UintRange - 1
    BY <1>4, IncValue DEF pipewrite
  <2>4. data' \in [0 .. PIPESIZE - 1 -> Value]
    BY <1>4 DEF pipewrite, put
  <2>5. todo' \in [Proc -> 0 .. MaxCount]
    BY <1>4, PipeAssumption DEF pipewrite
  <2> QED
    BY <1>4, <2>1, <2>2, <2>3, <2>4, <2>5 DEF pipewrite
<1>5. ASSUME NEW p \in Proc, piperead(p) PROVE TypeOK'
  BY <1>5 DEF piperead
<1>6. ASSUME NEW p \in Proc, piperead_copy(p) PROVE TypeOK'
  <2>1. pc' \in [Proc -> Label]
    BY <1>6 DEF piperead_copy, wakeup
  <2>2. nread' \in 0 .. UintRange - 1
    BY <1>6, IncValue DEF piperead_copy
  <2>3. todo' \in [Proc -> 0 .. MaxCount]
    BY <1>6, PipeAssumption DEF piperead_copy
  <2>4. got' \in {<<>>} \union {<<v>> : v \in Value}
    <3>1. nread % PIPESIZE \in 0 .. PIPESIZE - 1
      BY PipeAssumption, Remainder
    <3> QED
      BY <1>6, <3>1 DEF piperead_copy
  <2> QED
    BY <1>6, <2>1, <2>2, <2>3, <2>4 DEF piperead_copy
<1>7. ASSUME NEW p \in Proc, NEW e \in End, fileclose(p, e) PROVE TypeOK'
  BY Zenon, <1>7 DEF fileclose, End
<1>8. ASSUME NEW p \in Proc, pipeclose(p) PROVE TypeOK'
  BY <1>8 DEF pipeclose, wakeup, Unused
<1>9. ASSUME NEW p \in Proc, kill(p) PROVE TypeOK'
  BY <1>9 DEF kill
<1>10. CASE UNCHANGED vars
  BY <1>10 DEF vars
<1> QED
  BY <1>1, <1>2, <1>3, <1>4, <1>5, <1>6, <1>7, <1>8, <1>9, <1>10 DEF Next, Kernel

-----------------------------------------------------------------------------
(* The steps *)

\* A step of a process that only moves on, wakes or is killed keeps the lock's
\* holder and the processes inside the same.
LEMMA LockStep == TypeOK /\ LockInv /\ [Next]_vars => LockInv'
<1> SUFFICES ASSUME TypeOK, LockInv, [Next]_vars PROVE LockInv'
  OBVIOUS
<1>0. /\ pc \in [Proc -> Label] /\ NoProc \notin Proc
  BY PipeAssumption DEF TypeOK
<1> USE <1>0 DEF LockInv, Inside, Goto
<1>1. ASSUME NEW p \in Proc, NEW e \in End, NEW n \in 0 .. MaxCount, acquire(p, e, n)
      PROVE  LockInv'
  BY <1>1 DEF acquire, End
<1>2. ASSUME NEW p \in Proc, reacquire(p) PROVE LockInv'
  BY <1>2 DEF reacquire
<1>3. ASSUME NEW p \in Proc, sleep(p) PROVE LockInv'
  BY <1>3 DEF sleep
<1>4. ASSUME NEW p \in Proc, pipewrite(p) PROVE LockInv'
  BY <1>4 DEF pipewrite, wakeup
<1>5. ASSUME NEW p \in Proc, piperead(p) PROVE LockInv'
  BY <1>5 DEF piperead
<1>6. ASSUME NEW p \in Proc, piperead_copy(p) PROVE LockInv'
  BY <1>6 DEF piperead_copy, wakeup
<1>7. ASSUME NEW p \in Proc, NEW e \in End, fileclose(p, e) PROVE LockInv'
  BY <1>7 DEF fileclose
<1>8. ASSUME NEW p \in Proc, pipeclose(p) PROVE LockInv'
  BY <1>8 DEF pipeclose, wakeup
<1>9. ASSUME NEW p \in Proc, kill(p) PROVE LockInv'
  BY <1>9, Zenon DEF kill
<1>10. CASE UNCHANGED vars
  BY <1>10 DEF vars
<1> QED
  BY <1>1, <1>2, <1>3, <1>4, <1>5, <1>6, <1>7, <1>8, <1>9, <1>10 DEF Next, Kernel

LEMMA OpenStep == TypeOK /\ OpenInv /\ [Next]_vars => OpenInv'
<1> SUFFICES ASSUME TypeOK, OpenInv, [Next]_vars PROVE OpenInv'
  OBVIOUS
<1>0. /\ pc \in [Proc -> Label] /\ files \in [End -> SUBSET Proc]
      /\ readopen \in BOOLEAN /\ writeopen \in BOOLEAN /\ freed \in BOOLEAN
  BY DEF TypeOK
<1> USE <1>0 DEF OpenInv, Reading, Writing, Goto, pipe
<1>1. ASSUME NEW p \in Proc, NEW e \in End, NEW n \in 0 .. MaxCount, acquire(p, e, n)
      PROVE  OpenInv'
  BY <1>1 DEF acquire, End
<1>2. ASSUME NEW p \in Proc, reacquire(p) PROVE OpenInv'
  BY <1>2 DEF reacquire
<1>3. ASSUME NEW p \in Proc, sleep(p) PROVE OpenInv'
  BY <1>3 DEF sleep
<1>4. ASSUME NEW p \in Proc, pipewrite(p) PROVE OpenInv'
  BY <1>4 DEF pipewrite, wakeup
<1>5. ASSUME NEW p \in Proc, piperead(p) PROVE OpenInv'
  BY <1>5 DEF piperead
<1>6. ASSUME NEW p \in Proc, piperead_copy(p) PROVE OpenInv'
  BY <1>6 DEF piperead_copy, wakeup
<1>7. ASSUME NEW p \in Proc, NEW e \in End, fileclose(p, e) PROVE OpenInv'
  BY <1>7 DEF fileclose, End
<1>8. ASSUME NEW p \in Proc, pipeclose(p) PROVE OpenInv'
  BY <1>8 DEF pipeclose, wakeup, Unused
<1>9. ASSUME NEW p \in Proc, kill(p) PROVE OpenInv'
  BY <1>9 DEF kill
<1>10. CASE UNCHANGED vars
  BY <1>10 DEF vars
<1> QED
  BY Zenon, <1>1, <1>2, <1>3, <1>4, <1>5, <1>6, <1>7, <1>8, <1>9, <1>10 DEF Next, Kernel

\* Only the two loops move the counters.
LEMMA CountStep == TypeOK /\ CountInv /\ [Next]_vars => CountInv'
<1> SUFFICES ASSUME TypeOK, CountInv, [Next]_vars PROVE CountInv'
  OBVIOUS
<1>1. CASE UNCHANGED <<nread, nwrite>>
  BY <1>1 DEF CountInv, Count
<1>2. ASSUME NEW p \in Proc, pipewrite(p), nwrite' # nwrite PROVE CountInv'
  <2>1. ~Full /\ nwrite' = inc(nwrite) /\ nread' = nread
    BY <1>2 DEF pipewrite
  <2> QED
    BY <2>1, CountWrite DEF CountInv
<1>3. ASSUME NEW p \in Proc, piperead_copy(p), nread' # nread PROVE CountInv'
  <2>1. ~Empty /\ nread' = inc(nread) /\ nwrite' = nwrite
    BY <1>3 DEF piperead_copy
  <2>2. Count' = Count - 1 /\ Count \in Nat /\ PIPESIZE \in Nat
    BY <2>1, CountRead, CountFacts, PipeAssumption
  <2> QED
    BY <2>2 DEF CountInv
<1>4. \/ UNCHANGED <<nread, nwrite>>
      \/ \E p \in Proc : pipewrite(p) /\ nwrite' # nwrite
      \/ \E p \in Proc : piperead_copy(p) /\ nread' # nread
  BY DEF Next, Kernel, vars, pipe, acquire, reacquire, sleep, pipewrite, piperead,
         piperead_copy, fileclose, pipeclose, kill
<1> QED
  BY <1>1, <1>2, <1>3, <1>4

LEMMA WaitStep ==
    TypeOK /\ LockInv /\ OpenInv /\ CountInv /\ WaitInv /\ [Next]_vars => WaitInv'
<1> SUFFICES ASSUME TypeOK, LockInv, OpenInv, CountInv, WaitInv, [Next]_vars PROVE WaitInv'
  OBVIOUS
<1>0. /\ pc \in [Proc -> Label] /\ killed \in [Proc -> BOOLEAN]
      /\ readopen \in BOOLEAN /\ writeopen \in BOOLEAN /\ NoProc \notin Proc
  BY PipeAssumption DEF TypeOK
<1>a. ~(Full /\ Empty)
  BY CountFacts, PipeAssumption
<1>b. nread' = nread /\ nwrite' = nwrite => Full' = Full /\ Empty' = Empty
  BY DEF Full, Empty
<1> USE <1>0 DEF WaitInv, Goto, pipe
<1>1. ASSUME NEW p \in Proc, NEW e \in End, NEW n \in 0 .. MaxCount, acquire(p, e, n)
      PROVE  WaitInv'
  BY <1>1, <1>b DEF acquire, End
<1>2. ASSUME NEW p \in Proc, reacquire(p) PROVE WaitInv'
  BY <1>2, <1>b DEF reacquire
<1>3. ASSUME NEW p \in Proc, sleep(p) PROVE WaitInv'
  BY <1>3, <1>b DEF sleep
<1>4. ASSUME NEW p \in Proc, pipewrite(p) PROVE WaitInv'
  <2>1. lock = p /\ \A q \in Proc : q # p => pc[q] \notin Inside
    BY <1>4 DEF pipewrite, LockInv, Inside
  <2>2. CASE todo[p] > 0 /\ ~Full /\ UNCHANGED pc
    <3>1. \A q \in Proc : pc[q] \notin {"w_sleep", "r_sleep", "copy", "w_asleep"}
      BY <1>4, <2>1, <2>2 DEF pipewrite, Inside
    <3> QED
      BY <1>4, <2>2, <3>1 DEF pipewrite
  <2>3. CASE Full /\ (~readopen \/ killed[p]) /\ Goto(p, "idle") /\ UNCHANGED <<nread, nwrite>>
    <3>1. \A q \in Proc : pc[q] = "r_asleep" => readopen
      BY DEF OpenInv, Reading
    <3> QED
      BY <1>4, <1>b, <2>1, <2>3, <3>1 DEF pipewrite, Inside
  <2>4. CASE Full /\ readopen /\ wakeup(p, "r_asleep", "r_woken", "w_sleep")
             /\ UNCHANGED <<nread, nwrite>>
    BY <1>4, <1>b, <2>1, <2>4 DEF pipewrite, wakeup, Inside
  <2>5. CASE wakeup(p, "r_asleep", "r_woken", "idle") /\ UNCHANGED <<nread, nwrite>>
    BY <1>4, <1>b, <2>1, <2>5 DEF pipewrite, wakeup, Inside
  <2> QED
    BY <1>4, <2>2, <2>3, <2>4, <2>5 DEF pipewrite
<1>5. ASSUME NEW p \in Proc, piperead(p) PROVE WaitInv'
  BY <1>5, <1>b DEF piperead
<1>6. ASSUME NEW p \in Proc, piperead_copy(p) PROVE WaitInv'
  <2>1. lock = p /\ \A q \in Proc : q # p => pc[q] \notin Inside
    BY <1>6 DEF piperead_copy, LockInv, Inside
  <2>2. CASE todo[p] > 0 /\ ~Empty
    <3>1. UNCHANGED <<pc, killed>>
      BY <1>6, <2>2 DEF piperead_copy
    <3>2. \A q \in Proc : pc[q] \notin {"w_sleep", "r_sleep", "write"}
      BY <1>6, <2>1 DEF piperead_copy, Inside
    <3> QED
      BY <1>6, <2>2, <3>1, <3>2 DEF piperead_copy
  <2>3. CASE ~(todo[p] > 0 /\ ~Empty)
    BY <1>6, <1>b, <2>1, <2>3 DEF piperead_copy, wakeup, Inside
  <2> QED
    BY <2>2, <2>3
<1>7. ASSUME NEW p \in Proc, NEW e \in End, fileclose(p, e) PROVE WaitInv'
  BY <1>7, <1>b DEF fileclose, End
<1>8. ASSUME NEW p \in Proc, pipeclose(p) PROVE WaitInv'
  <2>1. \A q \in Proc : pc[q] \notin Inside
    BY <1>8 DEF pipeclose, LockInv
  <2> QED
    BY <1>8, <1>b, <2>1 DEF pipeclose, wakeup, Inside
<1>9. ASSUME NEW p \in Proc, kill(p) PROVE WaitInv'
  <2>1. UNCHANGED <<nread, nwrite, readopen, writeopen>> /\ killed'[p]
    BY <1>9 DEF kill
  <2>2. \A q \in Proc : pc'[q] = pc[q] \/ pc'[q] \in {"r_woken", "w_woken"}
    BY <1>9, Zenon DEF kill
  <2>3. \A q \in Proc : pc[q] = "copy" => pc'[q] = "copy"
    BY <1>9, Zenon DEF kill
  <2> QED
    BY <1>b, <2>1, <2>2, <2>3
<1>10. CASE UNCHANGED vars
  BY <1>10, <1>b DEF vars
<1> QED
  BY Zenon, <1>1, <1>2, <1>3, <1>4, <1>5, <1>6, <1>7, <1>8, <1>9, <1>10 DEF Next, Kernel

-----------------------------------------------------------------------------
(* What holds in every state *)

\* Every variable of the pipe keeps its type: the counters stay in the range
\* of an unsigned, and no index leaves the buffer.
THEOREM PipeTypeCorrect == Spec => []TypeOK
<1>1. Init => TypeOK
  BY InitInv DEF PipeInv
<1> QED
  BY <1>1, TypeStep, PTL DEF Spec

\* The invariant that the rest follows from.
THEOREM PipeInvariant == Spec => []PipeInv
<1>1. PipeInv /\ [Next]_vars => PipeInv'
  BY TypeStep, LockStep, OpenStep, CountStep, WaitStep DEF PipeInv
<1> QED
  BY InitInv, <1>1, PTL DEF Spec

\* Nobody is inside a call on the pipe once pipeclose() has freed its page.
THEOREM PipeNoUseAfterFree == Spec => []NoUseAfterFree
<1>1. PipeInv => NoUseAfterFree
  BY DEF PipeInv, TypeOK, Label, OpenInv, Reading, Writing, NoUseAfterFree
<1> QED
  BY <1>1, PipeInvariant, PTL

\* A writer sleeps only on a full pipe that can still be read, a reader, as
\* long as nobody is killed, only on an empty one that can still be written.
THEOREM PipeSleepsForReason == Spec => []SleepsForReason
<1>1. PipeInv => SleepsForReason
  <2> SUFFICES ASSUME PipeInv, lock = NoProc
               PROVE  /\ \A p \in Proc : pc[p] = "w_asleep" => Full /\ readopen
                      /\ (\A p \in Proc : ~killed[p]) =>
                            \A p \in Proc : pc[p] = "r_asleep" => Empty /\ writeopen
    BY DEF SleepsForReason, WriterSleepsFull, ReaderSleepsEmptyUnkilled, ReaderSleepsEmpty
  <2>1. \A q \in Proc : pc[q] \notin Inside
    BY PipeAssumption DEF PipeInv, LockInv
  <2> QED
    BY <2>1 DEF PipeInv, WaitInv, Inside
<1> QED
  BY <1>1, PipeInvariant, PTL

-----------------------------------------------------------------------------
(* The pipe is a queue *)

\* The contents are a sequence of Count bytes, all of them in the buffer.
ContentsInBuffer ==
    /\ Contents \in Seq(Value) /\ Len(Contents) = Count /\ Count \in Nat
    /\ \A i \in 1 .. Count : /\ Contents[i] = data[(nread + i - 1) % PIPESIZE]
                             /\ (nread + i - 1) % PIPESIZE \in 0 .. PIPESIZE - 1

LEMMA ContentsSeq == TypeOK => ContentsInBuffer
<1> SUFFICES ASSUME TypeOK PROVE ContentsInBuffer
  OBVIOUS
<1>1. Count \in Nat
  BY CountFacts, PipeAssumption
<1>2. Contents = [i \in 1 .. Count |-> data[(nread + i - 1) % PIPESIZE]]
  BY DEF Contents, Count
<1>3. ASSUME NEW i \in 1 .. Count
      PROVE  (nread + i - 1) % PIPESIZE \in 0 .. PIPESIZE - 1
  <2>1. nread + i - 1 \in Nat /\ PIPESIZE \in Nat /\ PIPESIZE > 0
    BY <1>1, PipeAssumption DEF TypeOK
  <2> HIDE DEF TypeOK
  <2> QED
    BY <2>1, Remainder
<1>4. \A i \in 1 .. Count : data[(nread + i - 1) % PIPESIZE] \in Value
  BY <1>3 DEF TypeOK
<1> QED
  BY <1>1, <1>2, <1>3, <1>4 DEF ContentsInBuffer

\* The place after the last byte is nwrite % PIPESIZE.
LEMMA EndOfContents ==
    ASSUME TypeOK
    PROVE  (nread + Count) % PIPESIZE = nwrite % PIPESIZE
<1>0. /\ UintRange \in Nat /\ PIPESIZE \in Nat /\ PIPESIZE > 0 /\ UintRange % PIPESIZE = 0
      /\ nread \in Nat /\ nwrite \in Nat
  BY PipeAssumption DEF TypeOK
<1>1. nread + Count = nwrite \/ nread + Count = nwrite + UintRange
  BY <1>0, CountFacts
<1>2. (nwrite + UintRange) % PIPESIZE = nwrite % PIPESIZE
  BY <1>0, RemainderShift
<1> QED
  BY <1>1, <1>2

\* pipewrite() appends.
LEMMA PutAppends ==
    ASSUME TypeOK, TypeOK', CountInv, ~Full, nread' = nread,
           NEW v \in Value, put(v), nwrite' = inc(nwrite)
    PROVE  Contents' = Append(Contents, v) /\ Len(Contents) < PIPESIZE
<1>0. PIPESIZE \in Nat /\ PIPESIZE > 0 /\ nread \in Nat
  BY PipeAssumption DEF TypeOK
<1>1. Count' = Count + 1 /\ Count + 1 <= PIPESIZE /\ Count \in Nat
  BY CountWrite, ContentsSeq DEF ContentsInBuffer
<1>2. /\ Contents' \in Seq(Value) /\ Len(Contents') = Count + 1
      /\ \A i \in 1 .. Count + 1 : Contents'[i] = data'[(nread + i - 1) % PIPESIZE]
  <2>1. /\ Contents' \in Seq(Value) /\ Len(Contents') = Count'
        /\ \A i \in 1 .. Count' : Contents'[i] = data'[(nread' + i - 1) % PIPESIZE]
    <3>1. ContentsInBuffer'
      BY ContentsSeq, PTL
    <3> QED
      BY <3>1 DEF ContentsInBuffer
  <2> QED
    BY <1>1, <2>1
<1>3. Contents'[Count + 1] = v
  <2>1. Contents'[Count + 1] = data'[nwrite % PIPESIZE]
    BY <1>0, <1>1, <1>2, EndOfContents
  <2>2. nwrite % PIPESIZE \in 0 .. PIPESIZE - 1
    BY <1>0, Remainder DEF TypeOK
  <2> QED
    BY <2>1, <2>2 DEF put, TypeOK
<1>4. ASSUME NEW i \in 1 .. Count PROVE Contents'[i] = Contents[i]
  <2>1. (nread + i - 1) % PIPESIZE # nwrite % PIPESIZE
    <3>1. /\ nread + i - 1 \in Nat /\ nread + Count \in Nat
          /\ nread + i - 1 < nread + Count /\ nread + Count < (nread + i - 1) + PIPESIZE
      BY <1>0, <1>1
    <3> QED
      BY <1>0, <3>1, RemaindersDiffer, EndOfContents
  <2>2. (nread + i - 1) % PIPESIZE \in 0 .. PIPESIZE - 1 /\ Contents[i] = data[(nread + i - 1) % PIPESIZE]
    BY ContentsSeq DEF ContentsInBuffer
  <2>3. Contents'[i] = data'[(nread + i - 1) % PIPESIZE]
    BY <1>1, <1>2
  <2> QED
    BY <2>1, <2>2, <2>3 DEF put, TypeOK
<1>5. Contents \in Seq(Value) /\ Len(Contents) = Count
  BY ContentsSeq DEF ContentsInBuffer
<1> HIDE DEF Contents
<1>6. /\ Append(Contents, v) \in Seq(Value) /\ Len(Append(Contents, v)) = Count + 1
      /\ \A i \in 1 .. Count : Append(Contents, v)[i] = Contents[i]
  BY <1>1, <1>5
<1>7. Append(Contents, v)[Count + 1] = v
  <2>1. Append(Contents, v)[Len(Contents) + 1] = v
    BY <1>5, AppendProperties, Zenon
  <2> QED
    BY <1>5, <2>1
<1>8. \A i \in 1 .. Count + 1 : Contents'[i] = Append(Contents, v)[i]
  BY <1>1, <1>3, <1>4, <1>6, <1>7
<1>9. Contents' = Append(Contents, v)
  BY <1>1, <1>2, <1>6, <1>8, SeqEqual
<1> QED
  BY <1>0, <1>1, <1>5, <1>9

\* piperead() takes the first byte.
LEMMA GetTakesFirst ==
    ASSUME TypeOK, TypeOK', ~Empty, data' = data, nwrite' = nwrite, nread' = inc(nread)
    PROVE  /\ Contents # <<>> /\ Contents' = Tail(Contents)
           /\ Head(Contents) = data[nread % PIPESIZE]
<1>0. /\ PIPESIZE \in Nat /\ PIPESIZE > 0 /\ nread \in Nat
      /\ UintRange \in Nat /\ UintRange % PIPESIZE = 0
  BY PipeAssumption DEF TypeOK
<1>1. Count' = Count - 1 /\ Count \in Nat /\ Count > 0
  BY CountRead, CountFacts, ContentsSeq DEF ContentsInBuffer
<1>2. /\ Contents' \in Seq(Value) /\ Len(Contents') = Count - 1
      /\ \A i \in 1 .. Count - 1 : Contents'[i] = data[(nread' + i - 1) % PIPESIZE]
  <2>1. /\ Contents' \in Seq(Value) /\ Len(Contents') = Count'
        /\ \A i \in 1 .. Count' : Contents'[i] = data'[(nread' + i - 1) % PIPESIZE]
    <3>1. ContentsInBuffer'
      BY ContentsSeq, PTL
    <3> QED
      BY <3>1 DEF ContentsInBuffer
  <2> QED
    BY <1>1, <2>1
<1>3. /\ Contents \in Seq(Value) /\ Len(Contents) = Count
      /\ \A i \in 1 .. Count : Contents[i] = data[(nread + i - 1) % PIPESIZE]
  BY ContentsSeq DEF ContentsInBuffer
<1>4. ASSUME NEW i \in 1 .. Count - 1 PROVE Contents'[i] = Contents[i + 1]
  <2>1. (nread' + i - 1) % PIPESIZE = (nread + i) % PIPESIZE
    <3>1. nread' = nread + 1 \/ (nread' = 0 /\ nread = UintRange - 1)
      BY IncValue DEF TypeOK
    <3>2. CASE nread' = nread + 1
      <4>1. nread' + i - 1 = nread + i
        BY <1>0, <1>1, <3>2
      <4> QED
        BY <4>1
    <3>3. CASE nread' = 0 /\ nread = UintRange - 1
      <4>1. i - 1 \in Nat /\ nread' + i - 1 = i - 1 /\ nread + i = (i - 1) + UintRange
        BY <1>0, <1>1, <3>3
      <4>2. ((i - 1) + UintRange) % PIPESIZE = (i - 1) % PIPESIZE
        BY <1>0, <4>1, RemainderShift
      <4> QED
        BY <4>1, <4>2
    <3> QED
      BY <3>1, <3>2, <3>3
  <2>2. i + 1 \in 1 .. Count /\ nread + (i + 1) - 1 = nread + i
    BY <1>0, <1>1
  <2> QED
    BY <1>2, <1>3, <2>1, <2>2
<1>5. Contents[1] = data[nread % PIPESIZE]
  BY <1>0, <1>1, <1>3
<1> HIDE DEF Contents
<1>6. Contents' = Tail(Contents)
  BY <1>1, <1>2, <1>3, <1>4
<1> QED
  BY <1>1, <1>3, <1>5, <1>6

\* What the abstraction sees of a step that moves no byte.
LEMMA SameContents ==
    ASSUME UNCHANGED <<data, nread, nwrite>>
    PROVE  Contents' = Contents
BY DEF Contents

\* Every step of the pipe is a step of the queue, or none.
LEMMA FifoStep == PipeInv /\ PipeInv' /\ [Next]_vars => [Fifo!Next]_Fifo!vars
<1> SUFFICES ASSUME PipeInv, PipeInv', [Next]_vars PROVE [Fifo!Next]_Fifo!vars
  OBVIOUS
<1>0. TypeOK /\ TypeOK' /\ CountInv /\ OpenInv
  BY DEF PipeInv
<1>1. CASE UNCHANGED <<data, nread, nwrite, readopen, writeopen, got>>
  BY <1>1, SameContents DEF Fifo!vars
<1>2. ASSUME NEW p \in Proc, pipewrite(p), nwrite' # nwrite PROVE Fifo!Next
  <2>1. PICK v \in Value : put(v)
    BY <1>2 DEF pipewrite
  <2>2. ~Full /\ nwrite' = inc(nwrite) /\ UNCHANGED <<nread, readopen, writeopen, got>>
    BY <1>2 DEF pipewrite
  <2>3. Contents' = Append(Contents, v) /\ Len(Contents) < PIPESIZE
    BY <1>0, <2>1, <2>2, PutAppends
  <2>4. writeopen
    BY <1>0, <1>2 DEF pipewrite, OpenInv, Writing
  <2>5. Fifo!Put(v)
    BY <2>2, <2>3, <2>4 DEF Fifo!Put
  <2> QED
    BY <2>5 DEF Fifo!Next
<1>3. ASSUME NEW p \in Proc, piperead_copy(p), nread' # nread PROVE Fifo!Next
  <2>1. /\ ~Empty /\ nread' = inc(nread) /\ got' = <<data[nread % PIPESIZE]>>
        /\ UNCHANGED <<data, nwrite, readopen, writeopen>>
    BY <1>3 DEF piperead_copy
  <2>2. /\ Contents # <<>> /\ Contents' = Tail(Contents)
        /\ Head(Contents) = data[nread % PIPESIZE]
    BY <1>0, <2>1, GetTakesFirst
  <2>3. readopen
    BY <1>0, <1>3 DEF piperead_copy, OpenInv, Reading
  <2>4. Fifo!Get
    BY <2>1, <2>2, <2>3 DEF Fifo!Get
  <2> QED
    BY <2>4 DEF Fifo!Next
<1>4. ASSUME NEW p \in Proc, pipeclose(p) PROVE Fifo!Next
  <2>1. UNCHANGED got /\ Contents' = Contents
    BY <1>4, SameContents DEF pipeclose
  <2>2. CASE pc[p] = "close_write"
    BY <1>0, <1>4, <2>1, <2>2 DEF pipeclose, OpenInv, Fifo!Next, Fifo!CloseWrite
  <2>3. CASE pc[p] = "close_read"
    BY <1>0, <1>4, <2>1, <2>3 DEF pipeclose, OpenInv, Fifo!Next, Fifo!CloseRead
  <2> QED
    BY <1>4, <2>2, <2>3 DEF pipeclose
<1>5. \/ UNCHANGED <<data, nread, nwrite, readopen, writeopen, got>>
      \/ \E p \in Proc : pipewrite(p) /\ nwrite' # nwrite
      \/ \E p \in Proc : piperead_copy(p) /\ nread' # nread
      \/ \E p \in Proc : pipeclose(p)
  <2>1. ASSUME NEW p \in Proc, pipewrite(p), nwrite' = nwrite
        PROVE  UNCHANGED <<data, nread, nwrite, readopen, writeopen, got>>
    <3>1. inc(nwrite) # nwrite
      <4>1. nwrite \in 0 .. UintRange - 1 /\ UintRange \in Nat /\ UintRange > 1
        BY <1>0, PipeAssumption DEF TypeOK
      <4> QED
        BY <4>1, IncValue
    <3> QED
      BY <2>1, <3>1 DEF pipewrite
  <2>2. ASSUME NEW p \in Proc, piperead_copy(p), nread' = nread
        PROVE  UNCHANGED <<data, nread, nwrite, readopen, writeopen, got>>
    <3>1. inc(nread) # nread
      <4>1. nread \in 0 .. UintRange - 1 /\ UintRange \in Nat /\ UintRange > 1
        BY <1>0, PipeAssumption DEF TypeOK
      <4> QED
        BY <4>1, IncValue
    <3> QED
      BY <2>2, <3>1 DEF piperead_copy
  <2> QED
    BY <2>1, <2>2 DEF Next, Kernel, vars, pipe, acquire, reacquire, sleep, piperead,
                      fileclose, kill
<1> QED
  BY <1>1, <1>2, <1>3, <1>4, <1>5

\* The ring buffer of pipe.c with its wrapping counters implements a bounded
\* first-in first-out queue.
THEOREM PipeIsFifo == Spec => IsFifo
<1>1. Init => Fifo!Init
  <2> SUFFICES ASSUME Init PROVE Fifo!Init
    OBVIOUS
  <2>1. TypeOK /\ Count = 0
    BY InitInv, CountFacts DEF PipeInv, Init, Empty
  <2>2. Contents = <<>>
    BY <2>1, ContentsSeq DEF ContentsInBuffer
  <2> QED
    BY <2>2 DEF Init, Fifo!Init
<1> QED
  BY <1>1, FifoStep, PipeInvariant, PTL DEF Spec, IsFifo, Fifo!Spec
=============================================================================
