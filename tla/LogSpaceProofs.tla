--------------------------- MODULE LogSpaceProofs ---------------------------
(***************************************************************************)
(* The inductive invariant of the write-ahead log, and the proofs that     *)
(* every step preserves types, the control of commit() and recovery, and   *)
(* the reservation of log space.                                           *)
(***************************************************************************)
EXTENDS Log, FiniteSetTheorems, TLAPS

Recovering == step # "none" /\ ~committing

\* Control: who may be where while commit() or recovery runs.
ControlInv ==
    /\ outstanding = Cardinality(Active)
    /\ committing => Active = {}
    /\ Recovering => Active = {}
    /\ \A p, q \in Proc : pc[p] = "commit" /\ pc[q] = "commit" => p = q
    /\ \A p \in Proc : pc[p] = "commit" => committing
    /\ committing => step \notin {"none", "read_head"}
    /\ step \in {"write_log", "write_head", "committed"} => committing
    /\ step \in {"write_log", "install_trans"} => tail < Len(lh)
    /\ step \notin {"write_log", "install_trans"} => tail = 0
    /\ step \in {"install_trans", "erase"} => head = lh
    /\ step \notin {"install_trans", "erase", "read_head"} => head = <<>>
    /\ step \in {"committed", "read_head"} => lh = <<>>
    /\ step = "write_head" => 0 < Len(lh)
    /\ step = "none" /\ Active = {} => lh = <<>>

\* Space: what the running calls have logged and may still log.
SpaceInv ==
    /\ SpaceReserved
    /\ Len(head) <= LOGSIZE
    /\ \A p \in Active : wrote[p] \subseteq Range(lh)
    /\ \A p \in Proc : Cardinality(wrote[p]) <= MAXOPBLOCKS
    /\ \A p \in Proc : pc[p] = "log_write" =>
          /\ held[p] \in Block
          /\ held[p] \in wrote[p] \/ Cardinality(wrote[p]) < MAXOPBLOCKS

\* A buffer is held by at most one process, inside log_write(), and is cached.
HeldInv ==
    /\ \A p \in Proc : held[p] # NoBlock =>
          pc[p] \in {"log_write", "panic"} /\ cache[held[p]] # NoValue
    /\ \A p, q \in Proc : held[p] = held[q] /\ held[p] # NoBlock => p = q

\* The dirty buffers are those of the logged blocks not yet installed.
PinInv ==
    /\ IsInjective(lh) /\ IsInjective(head)
    /\ \A b \in dirty : cache[b] # NoValue
    /\ step = "none" \/ step \in {"write_log", "write_head"} => dirty = Range(lh)
    /\ step = "install_trans" /\ committing =>
          dirty = {lh[i] : i \in tail + 1 .. Len(lh)}
    /\ step \in {"erase", "committed"} \/ Recovering => dirty = {}

\* A clean buffer nobody holds agrees with the disk.
CleanInv ==
    \A b \in Block : \/ b \in dirty \/ cache[b] = NoValue \/ cache[b] = home[b]
                    \/ \E p \in Proc : held[p] = b

\* What has been copied to the log, and from the log to the home locations.
CopyInv ==
    /\ step = "write_log" => \A i \in 1..tail : logblk[i] = cache[lh[i]]
    /\ step = "write_head" => \A i \in 1..Len(lh) : logblk[i] = cache[lh[i]]
    /\ step = "install_trans" /\ committing =>
          \A i \in tail + 1 .. Len(lh) : logblk[i] = cache[lh[i]]
    /\ step = "install_trans" => \A i \in 1..tail : home[lh[i]] = logblk[i]
    /\ step = "erase" => \A i \in 1..Len(lh) : home[lh[i]] = logblk[i]

DataInv == HeldInv /\ PinInv /\ CleanInv /\ CopyInv

LogInv == TypeOK /\ ControlInv /\ SpaceInv /\ DataInv

-----------------------------------------------------------------------------
USE DEF disk, mem, ctl, proc, vars

\* The types of all variables are preserved by every step.
LEMMA TypeStep == LogInv /\ [Next]_vars => TypeOK'
<1> SUFFICES ASSUME LogInv, [Next]_vars PROVE TypeOK'
  OBVIOUS
<1> USE LogAssumption DEF TypeOK
<1>0. TypeOK
  BY DEF LogInv
<1>1. ASSUME NEW p \in Proc, begin_op_sleep(p) PROVE TypeOK'
  BY <1>0, <1>1 DEF begin_op_sleep
<1>2. ASSUME NEW p \in Proc, begin_op(p) PROVE TypeOK'
  BY <1>0, <1>2 DEF begin_op
<1>3. ASSUME NEW p \in Proc, NEW b \in Block, NEW v \in Value,
             log_write_check(p, b, v)
      PROVE  TypeOK'
  BY <1>0, <1>3 DEF log_write_check
<1>4. ASSUME NEW p \in Proc, log_write(p) PROVE TypeOK'
  <2>1. held[p] \in Block
    BY <1>4 DEF LogInv, SpaceInv, log_write
  <2> QED
    BY <1>0, <1>4, <2>1 DEF log_write
<1>5. ASSUME NEW p \in Proc, end_op(p) PROVE TypeOK'
  <2>1. outstanding - 1 \in Nat
    <3>1. p \in Active /\ Active \subseteq Proc
      BY <1>5 DEF end_op, Active
    <3>2. IsFiniteSet(Active) /\ Cardinality(Active) # 0
      BY <3>1, FS_Subset, FS_EmptySet
    <3> QED
      BY <1>0, <3>2 DEF LogInv, ControlInv
  <2> QED
    BY <1>0, <1>5, <2>1 DEF end_op, Wakeup
<1>6. ASSUME NEW p \in Proc, end_commit(p) PROVE TypeOK'
  BY <1>0, <1>6 DEF end_commit, Wakeup
<1>7. CASE read_head
  BY <1>0, <1>7 DEF read_head
<1>8. CASE write_log
  <2>1. lh[tail + 1] \in Block /\ tail + 1 \in 1..Len(lh)
    BY <1>0, <1>8 DEF LogInv, ControlInv, write_log
  <2>2. bread(lh[tail + 1]) \in Value
    BY <1>0, <2>1 DEF bread
  <2>3. /\ logblk' = [logblk EXCEPT ![tail + 1] = bread(lh[tail + 1])]
        /\ cache' = [cache EXCEPT ![lh[tail + 1]] = bread(lh[tail + 1])]
    BY <1>8 DEF write_log
  <2>4. logblk' \in [1..LOGSIZE -> Value] /\ cache' \in [Block -> Value \union {NoValue}]
    BY <1>0, <2>2, <2>3
  <2>5. tail' \in Nat /\ step' \in {"write_log", "write_head"}
    BY <1>0, <1>8 DEF write_log, Turn
  <2> QED
    BY <1>0, <1>8, <2>4, <2>5 DEF write_log
<1>9. CASE write_head
  BY <1>0, <1>9 DEF write_head
<1>10. CASE install_trans
  <2>1. lh[tail + 1] \in Block /\ tail + 1 \in 1..Len(lh)
    BY <1>0, <1>10 DEF LogInv, ControlInv, install_trans
  <2>2. tail + 1 \in 1..LOGSIZE
    BY <1>0, <1>10, <2>1 DEF LogInv, ControlInv, SpaceInv, install_trans
  <2> QED
    BY <1>0, <1>10, <2>1, <2>2 DEF install_trans, Turn
<1>11. CASE erase
  BY <1>0, <1>11 DEF erase
<1>12. ASSUME NEW b \in Block, Load(b) PROVE TypeOK'
  BY <1>0, <1>12 DEF Load
<1>13. ASSUME NEW b \in Block, Recycle(b) PROVE TypeOK'
  BY <1>0, <1>13 DEF Recycle
<1>14. CASE Crash
  <2>1. /\ cache' \in [Block -> Value \union {NoValue}]
        /\ held' \in [Proc -> Block \union {NoBlock}]
        /\ wrote' \in [Proc -> SUBSET Block]
    BY <1>14 DEF Crash
  <2>2. pc' \in [Proc -> {"idle", "begin_op", "sleep", "op", "log_write",
                         "commit", "panic"}]
    BY <1>14 DEF Crash
  <2>3. /\ dirty' \subseteq Block /\ lh' \in Seq(Block) 
        /\ outstanding' \in Nat /\ tail' \in Nat /\ step' = "read_head"
    BY <1>14 DEF Crash
  <2>4. committing' \in BOOLEAN
    BY <1>14 DEF Crash
  <2>5. UNCHANGED disk
    BY <1>14 DEF Crash
  <2> QED
    BY <1>0, <2>1, <2>2, <2>3, <2>4, <2>5
<1>15. CASE UNCHANGED vars
  BY <1>0, <1>15
<1> QED
  BY <1>1, <1>2, <1>3, <1>4, <1>5, <1>6, <1>7, <1>8, <1>9, <1>10, <1>11,
     <1>12, <1>13, <1>14, <1>15 DEF Next, ProcStep, LogStep

\* The calls in progress form a finite set.
LEMMA ActiveFinite == IsFiniteSet(Active) /\ Active \subseteq Proc
BY LogAssumption, FS_Subset DEF Active

\* How each step changes the set of calls in progress.
LEMMA ActiveStep ==
  ASSUME TypeOK
  PROVE  /\ \A p \in Proc : begin_op(p) => /\ p \notin Active
                                          /\ Active' = Active \union {p}
         /\ \A p \in Proc : end_op(p) => p \in Active
         /\ \A p \in Proc : end_op(p) /\ ~committing => Active' = Active \ {p}
         /\ \A p \in Proc : begin_op_sleep(p) \/ log_write(p) \/ end_commit(p)
               => Active' = Active
         /\ \A p \in Proc, b \in Block, v \in Value :
               log_write_check(p, b, v) => p \in Active /\ Active' = Active
         /\ LogStep => Active' = Active
         /\ \A b \in Block : Load(b) \/ Recycle(b) => Active' = Active
         /\ Crash => Active' = {}
         /\ UNCHANGED vars => Active' = Active
<1> USE DEF TypeOK, Active
<1>1. \A p \in Proc : begin_op(p) => p \notin Active /\ Active' = Active \union {p}
  BY DEF begin_op
<1>2. \A p \in Proc : end_op(p) => p \in Active
  BY DEF end_op
<1>3. \A p \in Proc : end_op(p) /\ ~committing => Active' = Active \ {p}
  BY DEF end_op, Wakeup
<1>4. \A p \in Proc : begin_op_sleep(p) \/ log_write(p) \/ end_commit(p)
         => Active' = Active
  BY DEF begin_op_sleep, log_write, end_commit, Wakeup
<1>5. \A p \in Proc, b \in Block, v \in Value :
         log_write_check(p, b, v) => p \in Active /\ Active' = Active
  BY DEF log_write_check
<1>6. LogStep => Active' = Active
  BY DEF LogStep, read_head, write_log, write_head, install_trans, erase
<1>7. \A b \in Block : Load(b) \/ Recycle(b) => Active' = Active
  BY DEF Load, Recycle
<1>8. Crash => Active' = {}
  BY DEF Crash
<1>9. UNCHANGED vars => Active' = Active
  OBVIOUS
<1> QED
  BY <1>1, <1>2, <1>3, <1>4, <1>5, <1>6, <1>7, <1>8, <1>9 DEF TypeOK

\* Only the last of the operations leaves none.
LEMMA OneLess == \A n \in Nat : n # 1 => n - 1 # 0
OBVIOUS

\* A header with an entry has a length.
LEMMA NonEmptyLen ==
  ASSUME NEW S, NEW s \in Seq(S), s # <<>>
  PROVE  0 < Len(s)
OBVIOUS

\* The control part of the invariant is preserved by every step.
LEMMA ControlStep == LogInv /\ [Next]_vars => ControlInv'
<1> SUFFICES ASSUME LogInv, [Next]_vars PROVE ControlInv'
  OBVIOUS
<1>0. TypeOK /\ TypeOK' /\ ControlInv
  BY TypeStep DEF LogInv
<1> USE <1>0, ActiveFinite, ActiveStep DEF ControlInv, Recovering
<1>l. lh \in Seq(Block)
  BY DEF TypeOK
<1>a. ASSUME NEW p \in Proc, p \notin Active
      PROVE  Cardinality(Active \union {p}) = Cardinality(Active) + 1
  BY <1>a, FS_AddElement
<1>b. ASSUME NEW p \in Proc, p \in Active
      PROVE  Cardinality(Active \ {p}) = Cardinality(Active) - 1
  BY <1>b, FS_RemoveElement
<1>1. ASSUME NEW p \in Proc, begin_op_sleep(p) PROVE ControlInv'
  BY <1>1 DEF begin_op_sleep, TypeOK
<1>2. ASSUME NEW p \in Proc, begin_op(p) PROVE ControlInv'
  <2>1. /\ outstanding' = outstanding + 1 /\ pc' = [pc EXCEPT ![p] = "op"]
        /\ UNCHANGED <<head, lh, committing, step, tail>>
        /\ ~committing /\ step = "none"
    BY <1>2 DEF begin_op, Up
  <2>2. Active' = Active \union {p} /\ p \notin Active
    BY <1>2
  <2>3. outstanding' = Cardinality(Active')
    BY <1>a, <2>1, <2>2
  <2>4. \A q \in Proc : pc'[q] = "commit" => pc[q] = "commit"
    BY <2>1 DEF TypeOK
  <2> QED
    BY <2>1, <2>2, <2>3, <2>4
<1>3. ASSUME NEW p \in Proc, NEW b \in Block, NEW v \in Value,
             log_write_check(p, b, v)
      PROVE  ControlInv'
  <2>1. Active' = Active
    BY <1>3
  <2>2. \A q \in Proc : pc'[q] = "commit" => pc[q] = "commit"
    <3>1. PICK l \in {"panic", "log_write"} : pc' = [pc EXCEPT ![p] = l]
      BY <1>3, Zenon DEF log_write_check
    <3> QED
      BY <3>1, SMTT(20) DEF TypeOK
  <2>3. UNCHANGED <<head, lh, step, tail, outstanding, committing>>
    BY <1>3 DEF log_write_check
  <2> QED
    BY <2>1, <2>2, <2>3
<1>4. ASSUME NEW p \in Proc, log_write(p) PROVE ControlInv'
  <2>1. p \in Active /\ Active' = Active
    BY <1>4 DEF log_write, Active
  <2>2. \A q \in Proc : pc'[q] = "commit" => pc[q] = "commit"
    BY <1>4 DEF log_write, TypeOK
  <2>3. UNCHANGED <<head, step, tail, outstanding, committing>>
    BY <1>4 DEF log_write
  <2>4. step = "none" /\ ~committing
    BY <2>1
  <2> QED
    BY <2>1, <2>2, <2>3, <2>4
<1>5. ASSUME NEW p \in Proc, end_op(p) PROVE ControlInv'
  <2>1. p \in Active /\ step = "none" /\ ~committing
    BY <1>5
  <2>2. Active' = Active \ {p}
    BY <1>5, <2>1
  <2>3. outstanding' = Cardinality(Active')
    BY <1>5, <1>b, <2>1, <2>2 DEF end_op
  <2>4. UNCHANGED <<head, lh, tail>>
    BY <1>5 DEF end_op
  <2>5. CASE outstanding = 1
    <3>1. Active' = {}
      <4>1. IsFiniteSet(Active')
        BY <2>2, FS_RemoveElement
      <4>2. Cardinality(Active') = 0
        BY <1>5, <2>3, <2>5 DEF end_op
      <4> QED
        BY <4>1, <4>2, FS_EmptySet
    <3>2. /\ committing' /\ pc' = [pc EXCEPT ![p] = "commit"]
          /\ step' = IF lh # <<>> THEN "write_log" ELSE "committed"
      BY <1>5, <2>1, <2>5 DEF end_op
    <3>3. \A q \in Proc : pc'[q] = "commit" => q = p
      BY <2>1, <3>2 DEF TypeOK
    <3>4. lh # <<>> => 0 < Len(lh)
      BY <1>l, NonEmptyLen
    <3> QED
      BY <2>1, <2>3, <2>4, <3>1, <3>2, <3>3, <3>4 DEF TypeOK
  <2>6. CASE outstanding # 1
    <3>1. UNCHANGED <<committing, step>> /\ Wakeup(p, "idle")
      BY <1>5, <2>1, <2>6 DEF end_op
    <3>2. \A q \in Proc : pc'[q] = "commit" => pc[q] = "commit"
      BY <3>1 DEF TypeOK, Wakeup
    <3>3. Active' # {}
      <4>0. outstanding \in Nat /\ outstanding' = outstanding - 1
        BY <1>5 DEF end_op, TypeOK
      <4>a. outstanding' # 0
        BY <2>6, <4>0, OneLess, Zenon
      <4>1. Cardinality(Active') # 0
        BY <2>3, <4>a, Zenon
      <4> QED
        BY <4>1, FS_EmptySet
    <3> QED
      BY <2>1, <2>2, <2>3, <2>4, <3>1, <3>2, <3>3
  <2> QED
    BY <2>5, <2>6
<1>6. ASSUME NEW p \in Proc, end_commit(p) PROVE ControlInv'
  <2>1. /\ ~committing' /\ step = "committed" /\ step' = "none"
        /\ UNCHANGED <<head, tail, lh, outstanding>> /\ pc[p] = "commit"
    BY <1>6 DEF end_commit
  <2>2. Active' = Active
    BY <1>6
  <2>3. \A q \in Proc : pc'[q] # "commit"
    <3>1. \A q \in Proc : pc'[q] = IF q = p THEN "idle"
                                   ELSE IF pc[q] = "sleep" THEN "begin_op" ELSE pc[q]
      BY <1>6 DEF end_commit, Wakeup
    <3> QED
      BY <2>1, <3>1
  <2> QED
    BY <2>1, <2>2, <2>3
<1>7. CASE read_head
  BY <1>7 DEF read_head, TypeOK, LogStep
<1>8. CASE write_log
  <2>1. Active' = Active
    BY <1>8 DEF LogStep
  <2>2. UNCHANGED <<head, lh, pc, outstanding, committing>> /\ step = "write_log"
    BY <1>8 DEF write_log
  <2>3. \/ tail + 1 < Len(lh) /\ tail' = tail + 1 /\ step' = step
        \/ tail' = 0 /\ step' = "write_head"
    BY <1>8 DEF write_log, Turn
  <2>4. tail \in Nat
    BY DEF TypeOK
  <2> QED
    BY <2>1, <2>2, <2>3, <2>4, SMTT(20)
<1>9. CASE write_head
  BY <1>9 DEF write_head, TypeOK, LogStep
<1>10. CASE install_trans
  <2>1. Active' = Active
    BY <1>10 DEF LogStep
  <2>2. UNCHANGED <<head, lh, pc, outstanding, committing>>
    BY <1>10 DEF install_trans
  <2>3. \/ tail + 1 < Len(lh) /\ tail' = tail + 1 /\ step' = step
        \/ tail' = 0 /\ step' = "erase"
    BY <1>10 DEF install_trans, Turn
  <2> QED
    BY SMTT(20), <1>10, <2>1, <2>2, <2>3 DEF install_trans
<1>11. CASE erase
  BY <1>11 DEF erase, TypeOK, LogStep
<1>12. ASSUME NEW b \in Block, Load(b) PROVE ControlInv'
  BY <1>12 DEF Load
<1>13. ASSUME NEW b \in Block, Recycle(b) PROVE ControlInv'
  BY <1>13 DEF Recycle
<1>14. CASE Crash
  BY <1>14, FS_EmptySet DEF Crash
<1>15. CASE UNCHANGED vars
  BY <1>15
<1> QED
  BY <1>1, <1>2, <1>3, <1>4, <1>5, <1>6, <1>7, <1>8, <1>9, <1>10, <1>11,
     <1>12, <1>13, <1>14, <1>15 DEF Next, ProcStep, LogStep

-----------------------------------------------------------------------------
\* At most MAXOPBLOCKS blocks are reserved for each of a finite set of calls.
LEMMA ReservedBound ==
  ASSUME NEW A, IsFiniteSet(A), NEW R \in SUBSET (A \X (1..MAXOPBLOCKS))
  PROVE  /\ IsFiniteSet(R)
         /\ Cardinality(R) \in Nat
         /\ Cardinality(R) <= Cardinality(A) * MAXOPBLOCKS
<1>1. /\ IsFiniteSet(1..MAXOPBLOCKS)
      /\ Cardinality(1..MAXOPBLOCKS) = MAXOPBLOCKS
  BY LogAssumption, FS_Interval
<1>2. /\ IsFiniteSet(A \X (1..MAXOPBLOCKS))
      /\ Cardinality(A \X (1..MAXOPBLOCKS)) = Cardinality(A) * MAXOPBLOCKS
  BY <1>1, FS_Product
<1> QED
  BY <1>2, FS_Subset, FS_CardinalityType

\* The reserved blocks are finitely many, and fewer when their set shrinks.
LEMMA ReservedShrinks ==
  /\ IsFiniteSet(Reserved) /\ Cardinality(Reserved) \in Nat
  /\ \A R \in SUBSET Reserved : /\ Cardinality(R) \in Nat
                                /\ Cardinality(R) <= Cardinality(Reserved)
<1>1. IsFiniteSet(Reserved) /\ Cardinality(Reserved) \in Nat
  BY ActiveFinite, ReservedBound DEF Reserved
<1> QED
  BY <1>1, FS_Subset, FS_CardinalityType

\* The blocks a call has logged are finitely many.
LEMMA WroteFinite ==
  ASSUME TypeOK, NEW p \in Proc
  PROVE  IsFiniteSet(wrote[p]) /\ Cardinality(wrote[p]) \in Nat
BY LogAssumption, FS_Subset, FS_CardinalityType DEF TypeOK

\* The entries of a header to which a block is appended.
LEMMA RangeAppend ==
  ASSUME NEW S, NEW s \in Seq(S), NEW x \in S
  PROVE  /\ Range(Append(s, x)) = Range(s) \union {x}
         /\ Len(Append(s, x)) = Len(s) + 1
<1>1. /\ Len(Append(s, x)) = Len(s) + 1
      /\ DOMAIN Append(s, x) = 1 .. Len(s) + 1
      /\ \A i \in 1..Len(s) : Append(s, x)[i] = s[i]
      /\ Append(s, x)[Len(s) + 1] = x
      /\ DOMAIN s = 1 .. Len(s) /\ Len(s) \in Nat
  OBVIOUS
<1>2. ASSUME NEW y \in Range(Append(s, x)) PROVE y \in Range(s) \union {x}
  <2>1. PICK i \in 1 .. Len(s) + 1 : y = Append(s, x)[i]
    BY <1>1 DEF Range
  <2> QED
    BY <1>1, <2>1 DEF Range
<1>3. ASSUME NEW y \in Range(s) \union {x} PROVE y \in Range(Append(s, x))
  <2>1. CASE y = x
    BY <1>1, <2>1 DEF Range
  <2>2. CASE y \in Range(s)
    <3>1. PICK i \in 1..Len(s) : y = s[i]
      BY <1>1, <2>2 DEF Range
    <3> QED
      BY <1>1, <3>1 DEF Range
  <2> QED
    BY <2>1, <2>2
<1> QED
  BY <1>1, <1>2, <1>3

\* The space part of the invariant is preserved by every step.
LEMMA SpaceStep == LogInv /\ [Next]_vars => SpaceInv'
<1> SUFFICES ASSUME LogInv, [Next]_vars PROVE SpaceInv'
  OBVIOUS
<1>0. TypeOK /\ TypeOK' /\ ControlInv /\ SpaceInv
  BY TypeStep DEF LogInv
<1>a. ASSUME Active' = Active, UNCHANGED <<lh, wrote>>
      PROVE  SpaceReserved' /\ \A p \in Active' : wrote'[p] \subseteq Range(lh')
  BY <1>0, <1>a DEF SpaceInv, SpaceReserved, Reserved
<1>b. ASSUME Active' = {}, Len(lh') <= LOGSIZE
      PROVE  SpaceReserved' /\ \A p \in Active' : wrote'[p] \subseteq Range(lh')
  <2>1. Reserved' = {}
    BY <1>b DEF Reserved
  <2> QED
    BY <1>0, <1>b, <2>1, FS_EmptySet DEF SpaceReserved, TypeOK
<1>1. ASSUME NEW p \in Proc, begin_op_sleep(p) PROVE SpaceInv'
  BY <1>0, <1>1, <1>a, ActiveStep DEF begin_op_sleep, SpaceInv, TypeOK
<1>2. ASSUME NEW p \in Proc, begin_op(p) PROVE SpaceInv'
  <2>1. /\ Active' = Active \union {p} /\ p \notin Active
        /\ wrote' = [wrote EXCEPT ![p] = {}] /\ UNCHANGED <<head, lh, held>>
        /\ pc' = [pc EXCEPT ![p] = "op"]
    BY <1>0, <1>2, ActiveStep DEF begin_op
  <2>2. Len(lh) + (Cardinality(Active) + 1) * MAXOPBLOCKS <= LOGSIZE
    BY SMTT(20), <1>0, <1>2, LogAssumption DEF begin_op, NoSpace, ControlInv, TypeOK
  <2>3. Cardinality(Active') = Cardinality(Active) + 1 /\ Cardinality(Active) \in Nat
    BY <2>1, ActiveFinite, FS_AddElement, FS_CardinalityType
  <2>4. Cardinality(Reserved') <= Cardinality(Active') * MAXOPBLOCKS
        /\ Cardinality(Reserved') \in Nat
    <3>1. IsFiniteSet(Active')
      BY <2>1, ActiveFinite, FS_AddElement
    <3>2. Reserved' \in SUBSET (Active' \X (1..MAXOPBLOCKS))
      BY DEF Reserved
    <3> QED
      BY <3>1, <3>2, ReservedBound
  <2>5. SpaceReserved'
    BY <1>0, <2>1, <2>2, <2>3, <2>4, LogAssumption DEF SpaceReserved, TypeOK
  <2>6. \A q \in Active' : wrote'[q] \subseteq Range(lh')
    BY <1>0, <2>1, ActiveFinite DEF SpaceInv, TypeOK
  <2> QED
    BY <1>0, <2>1, <2>5, <2>6, FS_EmptySet, LogAssumption DEF SpaceInv, TypeOK
<1>3. ASSUME NEW p \in Proc, NEW b \in Block, NEW v \in Value,
             log_write_check(p, b, v)
      PROVE  SpaceInv'
  <2>0. Active' = Active
    BY <1>0, <1>3, ActiveStep
  <2>1. /\ UNCHANGED <<lh, head, wrote>>
        /\ held' = [held EXCEPT ![p] = b]
        /\ \A q \in Proc : q # p => pc'[q] = pc[q]
        /\ b \in wrote[p] \/ Cardinality(wrote[p]) < MAXOPBLOCKS
    BY <1>0, <1>3 DEF log_write_check, TypeOK
  <2>2. ASSUME NEW q \in Proc, pc'[q] = "log_write"
        PROVE  /\ held'[q] \in Block
               /\ held'[q] \in wrote'[q] \/ Cardinality(wrote'[q]) < MAXOPBLOCKS
    BY <1>0, <2>1, <2>2 DEF SpaceInv, TypeOK
  <2> QED
    BY <1>0, <1>a, <2>0, <2>1, <2>2 DEF SpaceInv
<1>4. ASSUME NEW p \in Proc, log_write(p) PROVE SpaceInv'
  <2> DEFINE b == held[p]
  <2>1. /\ b \in Block
        /\ b \in wrote[p] \/ Cardinality(wrote[p]) < MAXOPBLOCKS
        /\ p \in Active /\ Active' = Active
    BY <1>0, <1>4, ActiveStep DEF log_write, SpaceInv, Active
  <2>2. /\ lh' = (IF b \in Range(lh) THEN lh ELSE Append(lh, b))
        /\ wrote' = [wrote EXCEPT ![p] = wrote[p] \union {b}]
        /\ held' = [held EXCEPT ![p] = NoBlock]
        /\ pc' = [pc EXCEPT ![p] = "op"] /\ head' = head
    BY <1>0, <1>4 DEF log_write, TypeOK
  <2> HIDE DEF b
  <2>3. Range(lh') = Range(lh) \union {b}
    BY <1>0, <2>1, <2>2, RangeAppend DEF TypeOK
  <2>4. \A q \in Active' : wrote'[q] \subseteq Range(lh')
    BY <1>0, <2>1, <2>2, <2>3, ActiveFinite DEF SpaceInv, TypeOK
  <2>5. /\ Cardinality(wrote'[p]) =
             IF b \in wrote[p] THEN Cardinality(wrote[p]) ELSE Cardinality(wrote[p]) + 1
        /\ Cardinality(wrote[p]) \in Nat
        /\ \A q \in Proc : q # p => wrote'[q] = wrote[q]
    <3>1. /\ wrote'[p] = wrote[p] \union {b}
          /\ \A q \in Proc : q # p => wrote'[q] = wrote[q]
      BY <1>0, <2>2 DEF TypeOK
    <3>2. IsFiniteSet(wrote[p]) /\ Cardinality(wrote[p]) \in Nat
      BY <1>0, WroteFinite
    <3>3. CASE b \in wrote[p]
      <4>1. wrote'[p] = wrote[p]
        BY <3>1, <3>3
      <4> QED
        BY <3>1, <3>2, <3>3, <4>1
    <3>4. CASE b \notin wrote[p]
      <4>1. Cardinality(wrote[p] \union {b}) = Cardinality(wrote[p]) + 1
        BY <3>2, <3>4, FS_AddElement
      <4> QED
        BY <3>1, <3>2, <3>4, <4>1
    <3> QED
      BY <3>3, <3>4
  <2>6. \A q \in Proc : Cardinality(wrote'[q]) <= MAXOPBLOCKS
    BY SMTT(20), <1>0, <2>1, <2>5, LogAssumption DEF SpaceInv
  <2>7. Reserved' \subseteq Reserved
    BY SMTT(20), <2>1, <2>5, LogAssumption, ActiveFinite DEF Reserved
  <2>8. SpaceReserved'
    <3>1. CASE b \in Range(lh)
      <4>1. lh' = lh
        BY <2>2, <3>1
      <4>2. /\ Cardinality(Reserved') <= Cardinality(Reserved)
            /\ Cardinality(Reserved') \in Nat /\ Cardinality(Reserved) \in Nat
        BY <2>7, ReservedShrinks
      <4> QED
        BY <1>0, <4>1, <4>2, LogAssumption DEF SpaceInv, SpaceReserved, TypeOK
    <3>2. CASE b \notin Range(lh)
      <4> DEFINE r == <<p, Cardinality(wrote[p]) + 1>>
      <4>1. b \notin wrote[p]
        BY <1>0, <2>1, <3>2 DEF SpaceInv
      <4>2. r \in Reserved /\ r \notin Reserved'
        BY <2>1, <2>5, <4>1, LogAssumption DEF Reserved
      <4>3. Reserved' \subseteq Reserved \ {r}
        BY <2>7, <4>2
      <4>4. Cardinality(Reserved \ {r}) = Cardinality(Reserved) - 1
            /\ IsFiniteSet(Reserved \ {r})
        BY <4>2, ReservedShrinks, FS_RemoveElement
      <4>5. Cardinality(Reserved') <= Cardinality(Reserved) - 1
        BY SMTT(20), <4>3, <4>4, FS_Subset
      <4>6. Len(lh') = Len(lh) + 1
        BY <1>0, <2>1, <2>2, <3>2, RangeAppend DEF TypeOK
      <4>7. Cardinality(Reserved') \in Nat /\ Cardinality(Reserved) \in Nat
        BY <2>7, ReservedShrinks
      <4> QED
        BY <1>0, <4>5, <4>6, <4>7, LogAssumption DEF SpaceInv, SpaceReserved, TypeOK
    <3> QED
      BY <3>1, <3>2
  <2> QED
    BY <1>0, <2>2, <2>4, <2>6, <2>8 DEF SpaceInv, TypeOK
<1>5. ASSUME NEW p \in Proc, end_op(p) PROVE SpaceInv'
  <2>1. p \in Active /\ ~committing
    BY <1>0, <1>5, ActiveStep DEF ControlInv
  <2>2. /\ Active' \subseteq Active /\ UNCHANGED <<lh, head, wrote, held>>
        /\ \A q \in Proc : pc'[q] = "log_write" => pc[q] = "log_write"
    <3>1. Active' \subseteq Active
      BY <1>0, <1>5, <2>1, ActiveStep
    <3>2. /\ UNCHANGED <<lh, head, wrote, held>>
          /\ \/ pc' = [pc EXCEPT ![p] = "commit"]
             \/ Wakeup(p, "idle")
      BY <1>5, <2>1 DEF end_op
    <3> QED
      BY <1>0, <3>1, <3>2 DEF TypeOK, Wakeup
  <2>3. Reserved' \subseteq Reserved
    BY <2>2 DEF Reserved
  <2>4. SpaceReserved'
    BY SMTT(20), <1>0, <2>2, <2>3, ReservedShrinks, LogAssumption
       DEF SpaceInv, SpaceReserved, TypeOK
  <2> QED
    BY <1>0, <2>2, <2>4 DEF SpaceInv
<1>6. ASSUME NEW p \in Proc, end_commit(p) PROVE SpaceInv'
  BY <1>0, <1>6, <1>a, ActiveStep DEF end_commit, Wakeup, SpaceInv, TypeOK
<1>7. CASE read_head
  <2>1. Active' = {} /\ lh' = head /\ UNCHANGED <<head, proc>>
    BY <1>0, <1>7, ActiveStep DEF read_head, LogStep, ControlInv, Recovering
  <2> QED
    BY <1>0, <1>b, <2>1 DEF SpaceInv
<1>8. CASE write_log
  BY <1>0, <1>8, <1>a, ActiveStep DEF write_log, SpaceInv, LogStep
<1>9. CASE write_head
  <2>1. Len(lh) <= LOGSIZE
    BY <1>0, ReservedShrinks, LogAssumption DEF SpaceInv, SpaceReserved, TypeOK
  <2> QED
    BY <1>0, <1>9, <1>a, <2>1, ActiveStep DEF write_head, SpaceInv, LogStep
<1>10. CASE install_trans
  BY <1>0, <1>10, <1>a, ActiveStep DEF install_trans, SpaceInv, LogStep
<1>11. CASE erase
  <2>1. Active' = {} /\ lh' = <<>> /\ head' = <<>> /\ UNCHANGED proc
    BY <1>0, <1>11, ActiveStep DEF erase, LogStep, ControlInv, Recovering
  <2>2. Len(lh') <= LOGSIZE /\ Len(head') <= LOGSIZE
    BY <2>1, LogAssumption
  <2> QED
    BY <1>0, <1>b, <2>1, <2>2 DEF SpaceInv
<1>12. ASSUME NEW b \in Block, Load(b) PROVE SpaceInv'
  BY <1>0, <1>12, <1>a, ActiveStep DEF Load, SpaceInv
<1>13. ASSUME NEW b \in Block, Recycle(b) PROVE SpaceInv'
  BY <1>0, <1>13, <1>a, ActiveStep DEF Recycle, SpaceInv
<1>14. CASE Crash
  <2>1. Active' = {}
    BY <1>0, <1>14, ActiveStep
  <2>2. /\ lh' = <<>> /\ head' = head
        /\ wrote' = [p \in Proc |-> {}] /\ pc' = [p \in Proc |-> "idle"]
    BY <1>14 DEF Crash
  <2>3. Len(lh') <= LOGSIZE
    BY <2>2, LogAssumption
  <2>4. ASSUME NEW p \in Proc
        PROVE  pc'[p] # "log_write" /\ Cardinality(wrote'[p]) <= MAXOPBLOCKS
    <3>1. wrote'[p] = {} /\ pc'[p] = "idle"
      BY <2>2
    <3>2. Cardinality(wrote'[p]) = 0
      BY <3>1, FS_EmptySet
    <3> QED
      BY <3>1, <3>2, LogAssumption
  <2> QED
    BY <1>0, <1>b, <2>1, <2>2, <2>3, <2>4 DEF SpaceInv
<1>15. CASE UNCHANGED vars
  BY <1>0, <1>15, <1>a, ActiveStep DEF SpaceInv
<1> QED
  BY <1>1, <1>2, <1>3, <1>4, <1>5, <1>6, <1>7, <1>8, <1>9, <1>10, <1>11,
     <1>12, <1>13, <1>14, <1>15 DEF Next, ProcStep, LogStep

=============================================================================
