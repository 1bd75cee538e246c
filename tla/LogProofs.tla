----------------------------- MODULE LogProofs ------------------------------
(***************************************************************************)
(* The contents of disk, log and cache: the rest of the inductive          *)
(* invariant, the safety theorems that follow from it, and the proof that  *)
(* the write-ahead log implements the atomic disk.                         *)
(***************************************************************************)
EXTENDS LogSpaceProofs

USE DEF disk, mem, ctl, proc, vars

\* Appending a new entry to a header keeps its entries distinct.
LEMMA InjectiveAppend ==
  ASSUME NEW S, NEW s \in Seq(S), NEW x \in S, IsInjective(s), x \notin Range(s)
  PROVE  IsInjective(Append(s, x))
<1>1. /\ DOMAIN Append(s, x) = 1 .. Len(s) + 1
      /\ \A i \in 1..Len(s) : Append(s, x)[i] = s[i]
      /\ Append(s, x)[Len(s) + 1] = x
      /\ DOMAIN s = 1 .. Len(s) /\ Len(s) \in Nat
  OBVIOUS
<1>2. \A i \in 1..Len(s) : s[i] # x
  BY <1>1 DEF Range
<1> QED
  BY <1>1, <1>2 DEF IsInjective

\* The holders of buffers stay distinct, and their buffers cached.
LEMMA HeldStep == LogInv /\ [Next]_vars => HeldInv'
<1> SUFFICES ASSUME LogInv, [Next]_vars PROVE HeldInv'
  OBVIOUS
<1>0. TypeOK /\ TypeOK' /\ HeldInv
  BY TypeStep DEF LogInv, DataInv
<1>a. ASSUME held' = held,
             \A p \in Proc : pc[p] \in {"log_write", "panic"} => pc'[p] = pc[p],
             \A b \in Block : cache[b] # NoValue => cache'[b] # NoValue
      PROVE  HeldInv'
  BY <1>0, <1>a DEF HeldInv, TypeOK
<1>b. cache' = cache => \A b \in Block : cache[b] # NoValue => cache'[b] # NoValue
  OBVIOUS
<1>1. ASSUME NEW p \in Proc, begin_op_sleep(p) PROVE HeldInv'
  BY <1>0, <1>1, <1>a, <1>b DEF begin_op_sleep, TypeOK
<1>2. ASSUME NEW p \in Proc, begin_op(p) PROVE HeldInv'
  BY <1>0, <1>2, <1>a, <1>b DEF begin_op, TypeOK
<1>3. ASSUME NEW p \in Proc, NEW b \in Block, NEW v \in Value,
             log_write_check(p, b, v)
      PROVE  HeldInv'
  <2>1. /\ cache' = [cache EXCEPT ![b] = v] /\ held' = [held EXCEPT ![p] = b]
        /\ \A q \in Proc : held[q] # b
        /\ pc'[p] \in {"log_write", "panic"}
        /\ \A q \in Proc : q # p => pc'[q] = pc[q]
    BY <1>0, <1>3 DEF log_write_check, TypeOK
  <2> QED
    BY <1>0, <2>1, LogAssumption DEF HeldInv, TypeOK
<1>4. ASSUME NEW p \in Proc, log_write(p) PROVE HeldInv'
  <2>1. /\ cache' = cache /\ held' = [held EXCEPT ![p] = NoBlock]
        /\ \A q \in Proc : q # p => pc'[q] = pc[q]
    BY <1>0, <1>4 DEF log_write, TypeOK
  <2> QED
    BY <1>0, <2>1 DEF HeldInv, TypeOK
<1>5. ASSUME NEW p \in Proc, end_op(p) PROVE HeldInv'
  BY <1>0, <1>5, <1>a, <1>b DEF end_op, TypeOK, Wakeup
<1>6. ASSUME NEW p \in Proc, end_commit(p) PROVE HeldInv'
  BY <1>0, <1>6, <1>a, <1>b DEF end_commit, TypeOK, Wakeup
<1>7. CASE read_head
  BY <1>7, <1>a, <1>b DEF read_head
<1>8. CASE write_log
  <2>1. lh[tail + 1] \in Block /\ bread(lh[tail + 1]) \in Value
    BY SMTT(20), <1>0, <1>8 DEF LogInv, ControlInv, write_log, TypeOK, bread
  <2> QED
    BY <1>0, <1>8, <1>a, <2>1, LogAssumption DEF write_log, TypeOK
<1>9. CASE write_head
  BY <1>9, <1>a, <1>b DEF write_head
<1>10. CASE install_trans
  <2>1. lh[tail + 1] \in Block /\ logblk[tail + 1] \in Value
    BY SMTT(20), <1>0, <1>10 DEF LogInv, ControlInv, SpaceInv, install_trans, TypeOK
  <2> QED
    BY <1>0, <1>10, <1>a, <2>1, LogAssumption DEF install_trans, TypeOK
<1>11. CASE erase
  BY <1>11, <1>a, <1>b DEF erase
<1>12. ASSUME NEW b \in Block, Load(b) PROVE HeldInv'
  BY <1>0, <1>12, <1>a, LogAssumption DEF Load, TypeOK
<1>13. ASSUME NEW b \in Block, Recycle(b) PROVE HeldInv'
  BY <1>0, <1>13 DEF Recycle, TypeOK, HeldInv
<1>14. CASE Crash
  BY <1>14 DEF Crash, HeldInv
<1>15. CASE UNCHANGED vars
  BY <1>15, <1>a, <1>b
<1> QED
  BY <1>1, <1>2, <1>3, <1>4, <1>5, <1>6, <1>7, <1>8, <1>9, <1>10, <1>11,
     <1>12, <1>13, <1>14, <1>15 DEF Next, ProcStep, LogStep

\* The range of a sequence, by index.
LEMMA RangeByIndex ==
  ASSUME NEW S, NEW s \in Seq(S)
  PROVE  /\ \A i \in 1..Len(s) : s[i] \in Range(s) /\ s[i] \in S
         /\ \A x \in Range(s) : \E i \in 1..Len(s) : s[i] = x
<1>1. DOMAIN s = 1..Len(s) /\ \A i \in 1..Len(s) : s[i] \in S
  OBVIOUS
<1> QED
  BY <1>1 DEF Range

\* The header entry a loop is at.
LEMMA EntryAtTail ==
  ASSUME LogInv, step \in {"write_log", "install_trans"}
  PROVE  /\ tail \in Nat /\ Len(lh) \in Nat /\ tail + 1 \in 1..Len(lh)
         /\ tail + 1 \in 1..LOGSIZE
         /\ lh[tail + 1] \in Block /\ lh[tail + 1] \in Range(lh)
         /\ \A i \in 1..Len(lh) : lh[i] \in Block /\ i \in 1..LOGSIZE
         /\ \A i, j \in 1..Len(lh) : lh[i] = lh[j] => i = j
<1>1. TypeOK /\ tail < Len(lh) /\ IsInjective(lh)
  BY DEF LogInv, ControlInv, DataInv, PinInv
<1>2. Len(lh) <= LOGSIZE
  BY SMTT(20), <1>1, ReservedShrinks, LogAssumption
     DEF LogInv, SpaceInv, SpaceReserved, TypeOK
<1>3. tail \in Nat /\ Len(lh) \in Nat /\ tail + 1 \in 1..Len(lh) /\ lh \in Seq(Block)
  BY <1>1 DEF TypeOK
<1>4. lh[tail + 1] \in Range(lh)
  BY <1>3, RangeByIndex
<1> QED
  BY SMTT(20), <1>1, <1>2, <1>3, <1>4, LogAssumption DEF IsInjective

\* commit() reads and writes buffers without changing what they contain.
LEMMA CacheSame ==
  LogInv /\ (write_log \/ (install_trans /\ committing)) => cache' = cache
<1>1. ASSUME LogInv, write_log PROVE cache' = cache
  <2>1. lh[tail + 1] \in dirty /\ lh[tail + 1] \in Block
    BY <1>1, EntryAtTail DEF write_log, LogInv, DataInv, PinInv
  <2>2. cache[lh[tail + 1]] # NoValue
    BY <1>1, <2>1 DEF LogInv, DataInv, PinInv
  <2> QED
    BY <1>1, <2>1, <2>2 DEF write_log, bread, LogInv, TypeOK
<1>2. ASSUME LogInv, install_trans, committing PROVE cache' = cache
  <2>1. tail + 1 \in tail + 1 .. Len(lh) /\ lh[tail + 1] \in Block
    BY <1>2, EntryAtTail DEF install_trans
  <2>2. logblk[tail + 1] = cache[lh[tail + 1]]
    BY <1>2, <2>1 DEF LogInv, DataInv, CopyInv, install_trans
  <2> QED
    BY <1>2, <2>1, <2>2 DEF install_trans, LogInv, TypeOK
<1> QED
  BY <1>1, <1>2

\* The dirty buffers are pinned, and are those of the blocks in the log.
LEMMA PinStep == LogInv /\ [Next]_vars => PinInv'
<1> SUFFICES ASSUME LogInv, [Next]_vars PROVE PinInv'
  OBVIOUS
<1>0. TypeOK /\ TypeOK' /\ PinInv /\ ControlInv
  BY TypeStep DEF LogInv, DataInv
<1>a. ASSUME UNCHANGED <<lh, head, dirty, step, tail, committing>>,
             \A b \in dirty : cache[b] # NoValue => cache'[b] # NoValue
      PROVE  PinInv'
  BY <1>0, <1>a DEF PinInv, Recovering
<1>b. cache' = cache => \A b \in dirty : cache[b] # NoValue => cache'[b] # NoValue
  OBVIOUS
<1>c. IsInjective(<<>>) /\ Range(<<>>) = {}
  BY DEF IsInjective, Range
<1>1. ASSUME NEW p \in Proc, begin_op_sleep(p) PROVE PinInv'
  BY <1>1, <1>a, <1>b DEF begin_op_sleep
<1>2. ASSUME NEW p \in Proc, begin_op(p) PROVE PinInv'
  BY <1>2, <1>a, <1>b DEF begin_op
<1>3. ASSUME NEW p \in Proc, NEW b \in Block, NEW v \in Value,
             log_write_check(p, b, v)
      PROVE  PinInv'
  <2>1. \A c \in dirty : cache[c] # NoValue => cache'[c] # NoValue
    BY <1>0, <1>3, LogAssumption DEF log_write_check, TypeOK
  <2> QED
    BY <1>3, <1>a, <2>1 DEF log_write_check
<1>4. ASSUME NEW p \in Proc, log_write(p) PROVE PinInv'
  <2> DEFINE b == held[p]
  <2>1. p \in Active /\ b \in Block /\ cache[b] # NoValue
    BY <1>0, <1>4, LogAssumption
       DEF log_write, Active, LogInv, SpaceInv, DataInv, HeldInv
  <2>2. step = "none" /\ ~committing
    BY <1>0, <2>1 DEF ControlInv, Recovering
  <2>3. /\ lh' = (IF b \in Range(lh) THEN lh ELSE Append(lh, b))
        /\ dirty' = dirty \union {b}
        /\ UNCHANGED <<head, cache, step, tail, committing>>
    BY <1>4 DEF log_write
  <2> HIDE DEF b
  <2>4. Range(lh') = Range(lh) \union {b}
    BY <1>0, <2>1, <2>3, RangeAppend DEF TypeOK
  <2>5. IsInjective(lh')
    BY <1>0, <2>1, <2>3, InjectiveAppend DEF TypeOK, PinInv
  <2> QED
    BY <1>0, <2>1, <2>2, <2>3, <2>4, <2>5 DEF PinInv, Recovering
<1>5. ASSUME NEW p \in Proc, end_op(p) PROVE PinInv'
  <2>1. step = "none" /\ ~committing /\ dirty = Range(lh)
    BY <1>0, <1>5, ActiveStep DEF ControlInv, Recovering, PinInv
  <2>2. UNCHANGED <<head, cache, lh, dirty, tail>>
    BY <1>5 DEF end_op
  <2>3. \/ UNCHANGED <<step, committing>>
        \/ committing' /\ step' = IF lh # <<>> THEN "write_log" ELSE "committed"
    BY <1>5 DEF end_op
  <2> QED
    BY <1>0, <1>c, <2>1, <2>2, <2>3 DEF PinInv, Recovering
<1>6. ASSUME NEW p \in Proc, end_commit(p) PROVE PinInv'
  BY <1>0, <1>6, <1>c DEF end_commit, PinInv, ControlInv, Recovering
<1>7. CASE read_head
  BY <1>0, <1>7 DEF read_head, PinInv, ControlInv, Recovering
<1>8. CASE write_log
  <2>1. cache' = cache /\ UNCHANGED <<head, lh, dirty, committing>>
    BY <1>8, CacheSame DEF write_log
  <2>2. step = "write_log" /\ step' \in {"write_log", "write_head"} /\ committing
    BY <1>0, <1>8 DEF write_log, Turn, ControlInv
  <2> QED
    BY <1>0, <2>1, <2>2 DEF PinInv, Recovering
<1>9. CASE write_head
  <2>1. tail = 0 /\ committing /\ dirty = Range(lh)
    BY <1>0, <1>9 DEF write_head, ControlInv, PinInv
  <2>2. Range(lh) = {lh[i] : i \in 0 + 1 .. Len(lh)}
    BY SMTT(20), <1>0 DEF Range, TypeOK
  <2> QED
    BY <1>0, <1>9, <2>1, <2>2 DEF write_head, PinInv, Recovering
<1>10. CASE install_trans
  <2>1. /\ dirty' = dirty \ {lh[tail + 1]}
        /\ UNCHANGED <<head, lh, committing>>
        /\ step = "install_trans"
    BY <1>10 DEF install_trans
  <2>2. \/ tail + 1 < Len(lh) /\ tail' = tail + 1 /\ step' = "install_trans"
        \/ tail + 1 = Len(lh) /\ tail' = 0 /\ step' = "erase"
    BY <1>10, EntryAtTail DEF install_trans, Turn
  <2>3. CASE committing
    <3>1. dirty' = {lh[i] : i \in tail + 2 .. Len(lh)}
      BY <1>0, <2>1, <2>3, EntryAtTail DEF PinInv
    <3>2. tail + 1 = Len(lh) => dirty' = {}
      BY <3>1, <2>1, EntryAtTail
    <3>3. cache' = cache
      BY <1>10, <2>3, CacheSame
    <3>4. tail' = tail + 1 => tail + 2 = tail' + 1
      BY <1>0 DEF TypeOK
    <3> QED
      BY <1>0, <2>1, <2>2, <2>3, <3>1, <3>2, <3>3, <3>4 DEF PinInv, Recovering
  <2>4. CASE ~committing
    BY <1>0, <2>1, <2>2, <2>4 DEF PinInv, Recovering
  <2> QED
    BY <2>3, <2>4
<1>11. CASE erase
  BY <1>0, <1>11, <1>c DEF erase, PinInv, Recovering
<1>12. ASSUME NEW b \in Block, Load(b) PROVE PinInv'
  <2>1. \A c \in dirty : cache[c] # NoValue => cache'[c] # NoValue
    BY <1>0, <1>12, LogAssumption DEF Load, TypeOK
  <2> QED
    BY <1>12, <1>a, <2>1 DEF Load
<1>13. ASSUME NEW b \in Block, Recycle(b) PROVE PinInv'
  <2>1. \A c \in dirty : cache[c] # NoValue => cache'[c] # NoValue
    BY <1>0, <1>13 DEF Recycle, TypeOK
  <2> QED
    BY <1>13, <1>a, <2>1 DEF Recycle
<1>14. CASE Crash
  BY <1>0, <1>14, <1>c DEF Crash, PinInv
<1>15. CASE UNCHANGED vars
  BY <1>15, <1>a, <1>b
<1> QED
  BY <1>1, <1>2, <1>3, <1>4, <1>5, <1>6, <1>7, <1>8, <1>9, <1>10, <1>11,
     <1>12, <1>13, <1>14, <1>15 DEF Next, ProcStep, LogStep

\* Clean buffers that nobody holds agree with the disk.
LEMMA CleanStep == LogInv /\ [Next]_vars => CleanInv'
<1> SUFFICES ASSUME LogInv, [Next]_vars PROVE CleanInv'
  OBVIOUS
<1>0. TypeOK /\ TypeOK' /\ CleanInv /\ ControlInv
  BY TypeStep DEF LogInv, DataInv
<1>a. ASSUME UNCHANGED <<home, cache, dirty, held>> PROVE CleanInv'
  BY <1>0, <1>a DEF CleanInv
<1>1. ASSUME NEW p \in Proc, begin_op_sleep(p) PROVE CleanInv'
  BY <1>1, <1>a DEF begin_op_sleep
<1>2. ASSUME NEW p \in Proc, begin_op(p) PROVE CleanInv'
  BY <1>2, <1>a DEF begin_op
<1>3. ASSUME NEW p \in Proc, NEW b \in Block, NEW v \in Value,
             log_write_check(p, b, v)
      PROVE  CleanInv'
  <2>1. /\ cache' = [cache EXCEPT ![b] = v] /\ held' = [held EXCEPT ![p] = b]
        /\ UNCHANGED <<home, dirty>>
    BY <1>3 DEF log_write_check
  <2>2. held[p] = NoBlock
    BY <1>0, <1>3 DEF log_write_check, LogInv, DataInv, HeldInv
  <2>3. ASSUME NEW c \in Block
        PROVE  \/ c \in dirty' \/ cache'[c] = NoValue \/ cache'[c] = home'[c]
               \/ \E q \in Proc : held'[q] = c
    <3>1. CASE c = b
      BY <1>0, <2>1, <3>1 DEF TypeOK
    <3>2. CASE c # b
      <4>1. cache'[c] = cache[c]
        BY <1>0, <2>1, <3>2 DEF TypeOK
      <4>2. ASSUME NEW q \in Proc, held[q] = c PROVE held'[q] = c
        BY <1>0, <2>1, <2>2, <4>2, LogAssumption DEF TypeOK
      <4> QED
        BY <1>0, <2>1, <4>1, <4>2 DEF CleanInv
    <3> QED
      BY <3>1, <3>2
  <2> QED
    BY <2>3 DEF CleanInv
<1>4. ASSUME NEW p \in Proc, log_write(p) PROVE CleanInv'
  <2>1. /\ dirty' = dirty \union {held[p]} /\ held' = [held EXCEPT ![p] = NoBlock]
        /\ UNCHANGED <<home, cache>>
    BY <1>4 DEF log_write
  <2> QED
    BY <1>0, <2>1 DEF CleanInv, TypeOK
<1>5. ASSUME NEW p \in Proc, end_op(p) PROVE CleanInv'
  BY <1>5, <1>a DEF end_op
<1>6. ASSUME NEW p \in Proc, end_commit(p) PROVE CleanInv'
  BY <1>6, <1>a DEF end_commit
<1>7. CASE read_head
  BY <1>7, <1>a DEF read_head
<1>8. CASE write_log
  BY <1>8, <1>a, CacheSame DEF write_log
<1>9. CASE write_head
  BY <1>9, <1>a DEF write_head
<1>10. CASE install_trans
  <2>1. /\ home' = [home EXCEPT ![lh[tail + 1]] = logblk[tail + 1]]
        /\ cache' = [cache EXCEPT ![lh[tail + 1]] = logblk[tail + 1]]
        /\ dirty' = dirty \ {lh[tail + 1]}
        /\ held' = held
    BY <1>10 DEF install_trans
  <2> QED
    BY <1>0, <2>1 DEF CleanInv, TypeOK
<1>11. CASE erase
  BY <1>11, <1>a DEF erase
<1>12. ASSUME NEW b \in Block, Load(b) PROVE CleanInv'
  BY <1>0, <1>12 DEF Load, CleanInv, TypeOK
<1>13. ASSUME NEW b \in Block, Recycle(b) PROVE CleanInv'
  BY <1>0, <1>13 DEF Recycle, CleanInv, TypeOK
<1>14. CASE Crash
  BY <1>14 DEF Crash, CleanInv
<1>15. CASE UNCHANGED vars
  BY <1>15, <1>a
<1> QED
  BY <1>1, <1>2, <1>3, <1>4, <1>5, <1>6, <1>7, <1>8, <1>9, <1>10, <1>11,
     <1>12, <1>13, <1>14, <1>15 DEF Next, ProcStep, LogStep

\* The copies that commit() and recovery have made stay as they were made.
LEMMA CopyStep == LogInv /\ [Next]_vars => CopyInv'
<1> SUFFICES ASSUME LogInv, [Next]_vars PROVE CopyInv'
  OBVIOUS
<1>0. TypeOK /\ TypeOK' /\ CopyInv /\ ControlInv /\ PinInv
  BY TypeStep DEF LogInv, DataInv
<1>a. ASSUME step' \in {"none", "read_head", "committed"} PROVE CopyInv'
  BY <1>a DEF CopyInv
<1>b. ASSUME UNCHANGED <<home, logblk, cache, lh, step, tail, committing>>
      PROVE  CopyInv'
  BY <1>0, <1>b DEF CopyInv
<1>1. ASSUME NEW p \in Proc, begin_op_sleep(p) PROVE CopyInv'
  BY <1>1, <1>b DEF begin_op_sleep
<1>2. ASSUME NEW p \in Proc, begin_op(p) PROVE CopyInv'
  BY <1>2, <1>b DEF begin_op
<1>3. ASSUME NEW p \in Proc, NEW b \in Block, NEW v \in Value,
             log_write_check(p, b, v)
      PROVE  CopyInv'
  <2>1. step' = step /\ step = "none"
    BY <1>0, <1>3, ActiveStep DEF log_write_check, ControlInv, Recovering
  <2> QED
    BY <1>a, <2>1
<1>4. ASSUME NEW p \in Proc, log_write(p) PROVE CopyInv'
  <2>1. step' = step /\ step = "none"
    BY <1>0, <1>4 DEF log_write, ControlInv, Recovering, Active
  <2> QED
    BY <1>a, <2>1
<1>5. ASSUME NEW p \in Proc, end_op(p) PROVE CopyInv'
  <2>1. step = "none" /\ tail = 0 /\ tail' = tail
    BY <1>0, <1>5, ActiveStep DEF end_op, ControlInv, Recovering
  <2>2. step' \in {"none", "committed", "write_log"}
    BY <1>5, <2>1 DEF end_op
  <2> QED
    BY SMTT(20), <2>1, <2>2 DEF CopyInv
<1>6. ASSUME NEW p \in Proc, end_commit(p) PROVE CopyInv'
  BY <1>6, <1>a DEF end_commit
<1>7. CASE read_head
  <2>1. tail' = 0 /\ ~committing' /\ step' \in {"install_trans", "erase"}
    BY <1>0, <1>7 DEF read_head, ControlInv
  <2>2. step' = "erase" => Len(lh') = 0
    BY <1>7 DEF read_head
  <2>3. 1 .. 0 = {}
    OBVIOUS
  <2> QED
    BY <2>1, <2>2, <2>3, Zenon DEF CopyInv
<1>8. CASE write_log
  <2>1. cache' = cache /\ UNCHANGED <<home, lh, committing>>
    BY <1>8, CacheSame DEF write_log
  <2>2. cache[lh[tail + 1]] # NoValue
    BY <1>0, <1>8, EntryAtTail DEF write_log, PinInv
  <2>3. logblk' = [logblk EXCEPT ![tail + 1] = cache[lh[tail + 1]]]
    BY <1>8, <2>2 DEF write_log, bread
  <2>4. \A i \in 1 .. tail + 1 : logblk'[i] = cache[lh[i]]
    BY SMTT(20), <1>0, <1>8, <2>3, EntryAtTail DEF write_log, CopyInv, TypeOK
  <2>5. \/ tail' = tail + 1 /\ step' = "write_log"
        \/ tail' = 0 /\ step' = "write_head" /\ tail + 1 = Len(lh)
    BY SMTT(20), <1>8, EntryAtTail DEF write_log, Turn
  <2> QED
    BY <2>1, <2>4, <2>5 DEF CopyInv
<1>9. CASE write_head
  <2>1. tail' = 0 /\ step' = "install_trans" /\ UNCHANGED <<home, logblk, cache, lh>>
    BY <1>0, <1>9 DEF write_head, ControlInv
  <2> QED
    BY SMTT(20), <1>0, <1>9, <2>1 DEF CopyInv, write_head
<1>10. CASE install_trans
  <2>1. /\ home' = [home EXCEPT ![lh[tail + 1]] = logblk[tail + 1]]
        /\ UNCHANGED <<logblk, lh, committing>>
        /\ step = "install_trans"
    BY <1>10 DEF install_trans
  <2>2. \A i \in 1 .. tail + 1 : home'[lh[i]] = logblk[i]
    BY SMTT(20), <1>0, <2>1, EntryAtTail DEF CopyInv, TypeOK
  <2>3. \/ tail' = tail + 1 /\ step' = "install_trans"
        \/ tail' = 0 /\ step' = "erase" /\ tail + 1 = Len(lh)
    BY SMTT(20), <1>10, EntryAtTail DEF install_trans, Turn
  <2>4. committing => \A i \in tail + 2 .. Len(lh) : logblk[i] = cache'[lh[i]]
    BY SMTT(20), <1>0, <1>10, <2>1, CacheSame DEF CopyInv, TypeOK
  <2>5. tail' = tail + 1 => tail' + 1 = tail + 2
    BY SMTT(20), <1>0 DEF TypeOK
  <2> QED
    BY <2>1, <2>2, <2>3, <2>4, <2>5 DEF CopyInv
<1>11. CASE erase
  BY <1>11, <1>a DEF erase
<1>c. ASSUME UNCHANGED <<home, logblk, lh, step, tail, committing>>, Up,
             \A c \in dirty : cache'[c] = cache[c]
      PROVE  CopyInv'
  <2>1. CASE step = "install_trans"
    <3>1. committing /\ \A i \in tail + 1 .. Len(lh) : lh[i] \in dirty
      BY <1>0, <1>c, <2>1 DEF Up, PinInv
    <3> QED
      BY SMTT(20), <1>0, <1>c, <2>1, <3>1 DEF CopyInv
  <2>2. CASE step \in {"write_log", "write_head"}
    <3>0. lh \in Seq(Block) /\ Range(lh) \subseteq dirty
      BY <1>0, <2>2 DEF PinInv, TypeOK
    <3>1. \A i \in 1 .. Len(lh) : lh[i] \in dirty
      BY <3>0, RangeByIndex
    <3>2. tail < Len(lh)
      BY <1>0, <2>2 DEF ControlInv
    <3> QED
      BY SMTT(20), <1>0, <1>c, <2>2, <3>1, <3>2 DEF CopyInv, TypeOK
  <2>3. CASE step \notin {"write_log", "write_head", "install_trans"}
    BY <1>0, <1>c, <2>3 DEF CopyInv
  <2> QED
    BY <2>1, <2>2, <2>3
<1>12. ASSUME NEW b \in Block, Load(b) PROVE CopyInv'
  <2>1. \A c \in dirty : cache'[c] = cache[c]
    BY <1>0, <1>12 DEF Load, TypeOK, PinInv
  <2> QED
    BY <1>12, <1>c, <2>1 DEF Load
<1>13. ASSUME NEW b \in Block, Recycle(b) PROVE CopyInv'
  <2>1. \A c \in dirty : cache'[c] = cache[c]
    BY <1>0, <1>13 DEF Recycle, TypeOK
  <2> QED
    BY <1>13, <1>c, <2>1 DEF Recycle
<1>14. CASE Crash
  BY <1>14, <1>a DEF Crash
<1>15. CASE UNCHANGED vars
  BY <1>15, <1>b
<1> QED
  BY <1>1, <1>2, <1>3, <1>4, <1>5, <1>6, <1>7, <1>8, <1>9, <1>10, <1>11,
     <1>12, <1>13, <1>14, <1>15 DEF Next, ProcStep, LogStep

-----------------------------------------------------------------------------
\* The invariant holds initially.
LEMMA InitInv == Init => LogInv
<1> SUFFICES ASSUME Init PROVE LogInv
  OBVIOUS
<1>1. TypeOK
  <2>1. /\ cache \in [Block -> Value \union {NoValue}]
        /\ held \in [Proc -> Block \union {NoBlock}]
        /\ wrote \in [Proc -> SUBSET Block]
    BY DEF Init
  <2>2. pc \in [Proc -> {"idle", "begin_op", "sleep", "op", "log_write",
                        "commit", "panic"}]
    BY DEF Init
  <2>3. committing \in BOOLEAN
    BY DEF Init
  <2>4. /\ head \in Seq(Block) /\ lh \in Seq(Block) /\ dirty \subseteq Block
        /\ outstanding \in Nat /\ tail \in Nat /\ step = "none"
    BY DEF Init
  <2> QED
    BY <2>1, <2>2, <2>3, <2>4 DEF Init, TypeOK
<1>2. Active = {} /\ Reserved = {} /\ Cardinality({}) = 0
  BY FS_EmptySet DEF Init, Active, Reserved
<1>3. ControlInv
  BY <1>2 DEF Init, ControlInv, Recovering
<1>4. SpaceInv
  BY <1>2, LogAssumption DEF Init, SpaceInv, SpaceReserved
<1>5. DataInv
  BY DEF Init, DataInv, HeldInv, PinInv, CleanInv, CopyInv, IsInjective, Range, Recovering
<1> QED
  BY <1>1, <1>3, <1>4, <1>5 DEF LogInv

\* LogInv is an inductive invariant of the log.
THEOREM LogInvariant == Spec => []LogInv
<1>1. LogInv /\ [Next]_vars => LogInv'
  BY TypeStep, ControlStep, SpaceStep, HeldStep, PinStep, CleanStep, CopyStep
     DEF LogInv, DataInv
<1> QED
  BY <1>1, InitInv, PTL DEF Spec

\* Every variable of the log keeps its type.
THEOREM TypeCorrect == Spec => []TypeOK
<1>1. LogInv => TypeOK
  BY DEF LogInv
<1> QED
  BY <1>1, LogInvariant, PTL

\* begin_op() admits only calls for whose blocks the header has room.
THEOREM SpaceIsReserved == Spec => []SpaceReserved
<1>1. LogInv => SpaceReserved
  BY DEF LogInv, SpaceInv
<1> QED
  BY <1>1, LogInvariant, PTL

\* commit() runs while no file-system call is active.
THEOREM CommitIsAlone == Spec => []CommitAlone
<1>1. LogInv => CommitAlone
  <2>1. LogInv /\ committing => Active = {} /\ outstanding = Cardinality({})
    BY DEF LogInv, ControlInv
  <2> QED
    BY <2>1, FS_EmptySet DEF LogInv, ControlInv, CommitAlone
<1> QED
  BY <1>1, LogInvariant, PTL

\* The log runs into no other panic than "too big a transaction".
THEOREM OnlyPanicIsFull == Spec => []PanicOnlyWhenFull
<1> DEFINE Full == Len(lh) >= LOGSIZE \/ Len(lh) >= Size - 1
<1>1. Init => PanicOnlyWhenFull
  BY DEF Init, PanicOnlyWhenFull
<1>2. LogInv /\ PanicOnlyWhenFull /\ [Next]_vars => PanicOnlyWhenFull'
  <2> SUFFICES ASSUME LogInv, PanicOnlyWhenFull, [Next]_vars,
                      NEW q \in Proc, pc'[q] = "panic"
               PROVE  Full'
    BY DEF PanicOnlyWhenFull
  <2>0. TypeOK /\ TypeOK' /\ ControlInv
    BY TypeStep DEF LogInv
  <2>a. ASSUME pc[q] = "panic" PROVE Full /\ q \in Active
    BY <2>a DEF PanicOnlyWhenFull, Active
  <2>1. ASSUME NEW p \in Proc,
               begin_op_sleep(p) \/ begin_op(p) \/ end_op(p) \/ end_commit(p)
        PROVE  Full'
    <3>1. pc[q] = "panic" /\ lh' = lh
      <4>1. end_op(p) => ~committing
        BY <2>0, ActiveStep DEF ControlInv
      <4> QED
        BY <2>0, <2>1, <4>1
           DEF begin_op_sleep, begin_op, end_op, end_commit, Wakeup, TypeOK
    <3> QED
      BY <2>a, <3>1
  <2>2. ASSUME NEW p \in Proc, NEW b \in Block, NEW v \in Value,
               log_write_check(p, b, v)
        PROVE  Full'
    <3>1. outstanding >= 1
      <4>1. Cardinality(Active) # 0
        BY <2>0, <2>2, ActiveStep, ActiveFinite, FS_EmptySet
      <4> QED
        BY SMTT(20), <2>0, <4>1 DEF ControlInv, TypeOK
    <3>2. pc[q] = "panic" \/ Full
      BY SMTT(20), <2>0, <2>2, <3>1 DEF log_write_check, TypeOK
    <3> QED
      BY <2>2, <2>a, <3>2 DEF log_write_check
  <2>3. ASSUME NEW p \in Proc, log_write(p) PROVE Full'
    <3>1. pc[q] = "panic" /\ held[p] \in Block
      BY <2>0, <2>3 DEF log_write, TypeOK, LogInv, SpaceInv
    <3>2. Len(lh') >= Len(lh)
      BY SMTT(20), <2>0, <2>3, <3>1 DEF log_write, TypeOK
    <3> QED
      BY SMTT(20), <2>0, <2>a, <3>1, <3>2, LogAssumption DEF TypeOK
  <2>4. CASE read_head \/ erase
    <3>1. pc[q] = "panic" /\ Active = {}
      BY <2>0, <2>4 DEF read_head, erase, ControlInv, Recovering
    <3> QED
      BY <2>a, <3>1
  <2>5. CASE write_log \/ write_head \/ install_trans \/ UNCHANGED vars
    BY <2>5, <2>a DEF write_log, write_head, install_trans
  <2>6. ASSUME NEW b \in Block, Load(b) \/ Recycle(b) PROVE Full'
    BY <2>6, <2>a DEF Load, Recycle
  <2>7. CASE Crash
    BY <2>7 DEF Crash
  <2> QED
    BY <2>1, <2>2, <2>3, <2>4, <2>5, <2>6, <2>7 DEF Next, ProcStep, LogStep
<1> QED
  BY <1>1, <1>2, LogInvariant, PTL DEF Spec

-----------------------------------------------------------------------------
(* The log implements the atomic disk *)

\* What installing a log whose entries are distinct leaves on a disk.
LEMMA InstalledContents ==
  ASSUME NEW hd \in Seq(Block), IsInjective(hd), NEW copies, NEW at_home
  PROVE  /\ \A i \in 1..Len(hd) : Installed(hd, copies, at_home)[hd[i]] = copies[i]
         /\ \A b \in Block \ Range(hd) : Installed(hd, copies, at_home)[b] = at_home[b]
<1>1. DOMAIN hd = 1..Len(hd) /\ \A i \in 1..Len(hd) : hd[i] \in Block
  OBVIOUS
<1>2. ASSUME NEW i \in 1..Len(hd)
      PROVE  Installed(hd, copies, at_home)[hd[i]] = copies[i]
  <2>1. hd[i] \in Range(hd)
    BY <1>1 DEF Range
  <2>2. (CHOOSE j \in DOMAIN hd : hd[j] = hd[i]) = i
    BY <1>1 DEF IsInjective
  <2> QED
    BY <1>1, <2>1, <2>2 DEF Installed
<1> QED
  BY <1>2 DEF Installed

\* An empty log leaves a disk as it is.
LEMMA InstalledEmpty ==
  ASSUME NEW copies, NEW at_home \in [Block -> Value]
  PROVE  Installed(<<>>, copies, at_home) = at_home
BY DEF Installed, Range

\* When nothing is running and nothing is logged, the system sees its disk.
LEMMA QuiescentView ==
  ASSUME LogInv, Up, Active = {}, dirty = {}
  PROVE  View = home
<1>1. \A p \in Proc : held[p] = NoBlock
  BY DEF LogInv, DataInv, HeldInv, Active, TypeOK
<1>2. ASSUME NEW b \in Block PROVE bread(b) = home[b]
  BY <1>1, LogAssumption DEF LogInv, DataInv, CleanInv, bread
<1> QED
  BY <1>2 DEF View, LogInv, TypeOK

\* Everything finished calls wrote survives a crash once no call is active.
THEOREM QuiescentIsDurable == Spec => []QuiescentDurable
<1>1. LogInv => QuiescentDurable
  <2> SUFFICES ASSUME LogInv, Up, outstanding = 0, ~committing
               PROVE  View = Recovered
    BY DEF QuiescentDurable
  <2>1. step = "none" /\ head = <<>>
    BY DEF Up, LogInv, ControlInv
  <2>2. Active = {}
    BY ActiveFinite, FS_EmptySet DEF LogInv, ControlInv
  <2>3. lh = <<>> /\ dirty = {}
    BY <2>1, <2>2 DEF LogInv, ControlInv, DataInv, PinInv, Range
  <2> QED
    BY <2>1, <2>2, <2>3, QuiescentView, InstalledEmpty DEF Recovered, LogInv, TypeOK
<1> QED
  BY <1>1, LogInvariant, PTL

-----------------------------------------------------------------------------
\* A step that changes neither disk nor cache is seen as no step, provided
\* the system stays up or stays down.
LEMMA ViewSame ==
  ASSUME UNCHANGED <<home, logblk, head, cache>>, Up' = Up
  PROVE  Recovered' = Recovered /\ View' = View
BY DEF Recovered, View, bread

\* Every step of the log is a step of the atomic disk, or changes nothing
\* that the atomic disk has.
LEMMA SimulationStep ==
  LogInv /\ [Next]_vars => [AtomicDisk!Next]_(AtomicDisk!vars)
<1> SUFFICES ASSUME LogInv, [Next]_vars
             PROVE  AtomicDisk!Next \/ UNCHANGED AtomicDisk!vars
  OBVIOUS
<1>0. TypeOK /\ TypeOK' /\ ControlInv /\ HeldInv /\ PinInv /\ CleanInv /\ CopyInv
  BY TypeStep DEF LogInv, DataInv
<1>a. ASSUME Recovered' = Recovered, View' = View, Active' = Active
      PROVE  UNCHANGED AtomicDisk!vars
  BY <1>a DEF AtomicDisk!vars
<1>1. ASSUME NEW p \in Proc, begin_op_sleep(p) PROVE UNCHANGED AtomicDisk!vars
  BY <1>0, <1>1, <1>a, ActiveStep, ViewSame DEF begin_op_sleep, Up
<1>2. ASSUME NEW p \in Proc, begin_op(p) PROVE AtomicDisk!Begin(p)
  <2>1. Recovered' = Recovered /\ View' = View
    BY <1>2, ViewSame DEF begin_op, Up
  <2> QED
    BY <1>0, <1>2, <2>1, ActiveStep DEF AtomicDisk!Begin
<1>3. ASSUME NEW p \in Proc, NEW b \in Block, NEW v \in Value,
             log_write_check(p, b, v)
      PROVE  AtomicDisk!Write(p, b, v)
  <2>1. p \in Active /\ Active' = Active
    BY <1>0, <1>3, ActiveStep
  <2>2. Recovered' = Recovered
    BY <1>3 DEF log_write_check, Recovered
  <2>3. Up /\ Up' /\ home' = home /\ cache' = [cache EXCEPT ![b] = v]
    BY <1>3 DEF log_write_check, Up
  <2>4. View' = [View EXCEPT ![b] = v]
    BY <1>0, <2>3, LogAssumption DEF View, bread, TypeOK
  <2> QED
    BY <2>1, <2>2, <2>4 DEF AtomicDisk!Write
<1>4. ASSUME NEW p \in Proc, log_write(p) PROVE UNCHANGED AtomicDisk!vars
  BY <1>0, <1>4, <1>a, ActiveStep, ViewSame DEF log_write, Up
<1>5. ASSUME NEW p \in Proc, end_op(p) PROVE AtomicDisk!End(p)
  <2>1. p \in Active /\ ~committing /\ step = "none"
    BY <1>0, <1>5, ActiveStep DEF ControlInv, Recovering
  <2>2. Up' = Up
    BY <1>5, <2>1 DEF end_op, Up
  <2>3. Recovered' = Recovered /\ View' = View
    BY <1>5, <2>2, ViewSame DEF end_op
  <2> QED
    BY <1>0, <1>5, <2>1, <2>3, ActiveStep DEF AtomicDisk!End
<1>6. ASSUME NEW p \in Proc, end_commit(p) PROVE UNCHANGED AtomicDisk!vars
  <2>1. Up' = Up
    BY <1>0, <1>6 DEF end_commit, Up, ControlInv
  <2> QED
    BY <1>0, <1>6, <1>a, <2>1, ActiveStep, ViewSame DEF end_commit
<1>7. CASE read_head
  <2>1. Up' = Up
    BY <1>0, <1>7 DEF read_head, Up, ControlInv
  <2> QED
    BY <1>0, <1>7, <1>a, <2>1, ActiveStep, ViewSame DEF read_head, LogStep
<1>8. CASE write_log
  <2>1. cache' = cache /\ UNCHANGED <<home, head>> /\ head = <<>>
    BY <1>0, <1>8, CacheSame DEF write_log, ControlInv
  <2>2. Up /\ Up'
    BY <1>0, <1>8 DEF write_log, Up, ControlInv
  <2>3. Recovered = home /\ Recovered' = home'
    BY <1>0, <2>1, InstalledEmpty DEF Recovered, TypeOK
  <2>4. View' = View
    BY <2>1, <2>2 DEF View, bread
  <2> QED
    BY <1>0, <1>8, <1>a, <2>1, <2>3, <2>4, ActiveStep DEF LogStep
<1>9. CASE write_head
  <2>1. /\ UNCHANGED <<home, logblk, cache, lh>> /\ head' = lh
        /\ Active = {} /\ Active' = {} /\ Up /\ Up'
    BY <1>0, <1>9, ActiveStep DEF write_head, LogStep, ControlInv, Up
  <2>2. View' = View
    BY <2>1 DEF View, bread
  <2>3. \A p \in Proc : held[p] = NoBlock
    BY <1>0, <2>1 DEF HeldInv, Active, TypeOK
  <2>4. ASSUME NEW b \in Block PROVE Recovered'[b] = View[b]
    <3>1. CASE b \in Range(lh)
      <4>1. PICK i \in 1..Len(lh) : lh[i] = b
        BY <1>0, <3>1, RangeByIndex DEF TypeOK
      <4>2. Recovered'[b] = logblk[i]
        <5>0. lh \in Seq(Block) /\ IsInjective(lh)
          BY <1>0 DEF TypeOK, PinInv
        <5>1. \A j \in 1..Len(lh) : Installed(lh, logblk, home)[lh[j]] = logblk[j]
          BY SMTT(20), <5>0, InstalledContents
        <5> QED
          BY <2>1, <4>1, <5>1 DEF Recovered
      <4>3. logblk[i] = cache[b] /\ cache[b] # NoValue
        BY <1>0, <1>9, <3>1, <4>1 DEF CopyInv, PinInv, write_head
      <4> QED
        BY <2>1, <4>2, <4>3 DEF View, bread
    <3>2. CASE b \notin Range(lh)
      <4>0. lh \in Seq(Block) /\ IsInjective(lh)
        BY <1>0 DEF TypeOK, PinInv
      <4>1. Recovered'[b] = home[b]
        BY SMTT(30), <2>1, <3>2, <4>0, InstalledContents DEF Recovered
      <4>2. bread(b) = home[b]
        BY <1>0, <1>9, <2>3, <3>2, LogAssumption
           DEF CleanInv, PinInv, bread, write_head
      <4> QED
        BY <2>1, <4>1, <4>2 DEF View
    <3> QED
      BY <3>1, <3>2
  <2>5. Recovered' = View
    BY <2>1, <2>4 DEF Recovered, Installed, View
  <2> QED
    BY <2>1, <2>2, <2>5 DEF AtomicDisk!Next, AtomicDisk!Commit
<1>10. CASE install_trans
  <2>1. /\ home' = [home EXCEPT ![lh[tail + 1]] = logblk[tail + 1]]
        /\ UNCHANGED <<logblk, head, lh, committing>>
        /\ step = "install_trans" /\ step' \in {"install_trans", "erase"}
        /\ head = lh
    BY <1>0, <1>10 DEF install_trans, Turn, ControlInv
  <2>2. Recovered' = Recovered
    <3>1. lh[tail + 1] \in Range(lh)
      BY <1>0, <2>1, EntryAtTail
    <3>2. \A b \in Block \ Range(lh) : home'[b] = home[b]
      BY <1>0, <2>1, <3>1 DEF TypeOK
    <3> QED
      BY <2>1, <3>2 DEF Recovered, Installed
  <2>3. Active' = Active
    BY <1>0, <1>10, ActiveStep DEF LogStep
  <2>4. CASE ~committing
    <3>1. ~Up /\ ~Up'
      BY <2>1, <2>4 DEF Up
    <3> QED
      BY <1>a, <2>2, <2>3, <3>1 DEF View
  <2>5. CASE committing
    <3>1. Up /\ Up' /\ cache' = cache
      BY <1>10, <2>1, <2>5, CacheSame DEF Up
    <3>2. cache[lh[tail + 1]] # NoValue
      <4>1. dirty = {lh[i] : i \in tail + 1 .. Len(lh)} /\ \A b \in dirty : cache[b] # NoValue
        BY <1>0, <2>1, <2>5 DEF PinInv
      <4>2. tail + 1 \in tail + 1 .. Len(lh)
        BY <1>0, <2>1, EntryAtTail
      <4> QED
        BY <4>1, <4>2, Zenon
    <3>3. \A b \in Block : bread(b)' = bread(b)
      BY <1>0, <2>1, <3>1, <3>2, EntryAtTail DEF bread, TypeOK
    <3>4. View' = View
      BY <3>1, <3>3 DEF View
    <3> QED
      BY <1>a, <2>2, <2>3, <3>4
  <2> QED
    BY <2>4, <2>5
<1>11. CASE erase
  <2>1. /\ UNCHANGED <<home, logblk, cache, committing>>
        /\ head' = <<>> /\ head = lh /\ step = "erase"
        /\ step' = IF committing THEN "committed" ELSE "none"
        /\ Active = {} /\ Active' = {}
    BY <1>0, <1>11, ActiveStep DEF erase, LogStep, ControlInv, Recovering
  <2>2. Recovered' = home
    BY <1>0, <2>1, InstalledEmpty DEF Recovered, TypeOK
  <2>3. ASSUME NEW b \in Block PROVE Recovered[b] = home[b]
    <3>1. CASE b \in Range(lh)
      <4>1. PICK i \in 1..Len(lh) : lh[i] = b
        BY <1>0, <3>1, RangeByIndex DEF TypeOK
      <4>2. Recovered[b] = logblk[i]
        <5>0. lh \in Seq(Block) /\ IsInjective(lh)
          BY <1>0 DEF TypeOK, PinInv
        <5>1. \A j \in 1..Len(lh) : Installed(lh, logblk, home)[lh[j]] = logblk[j]
          BY SMTT(20), <5>0, InstalledContents
        <5> QED
          BY <2>1, <4>1, <5>1 DEF Recovered
      <4> QED
        BY <1>0, <2>1, <4>1, <4>2 DEF CopyInv
    <3>2. CASE b \notin Range(lh)
      <4>1. lh \in Seq(Block) /\ IsInjective(lh)
        BY <1>0 DEF TypeOK, PinInv
      <4> QED
        BY SMTT(30), <2>1, <3>2, <4>1, InstalledContents DEF Recovered
    <3> QED
      BY <3>1, <3>2
  <2>4. Recovered = home
    BY <1>0, <2>3 DEF Recovered, Installed, TypeOK
  <2>5. CASE committing
    <3>1. Up /\ Up'
      BY <2>1, <2>5 DEF Up
    <3>2. View' = View
      BY <2>1, <3>1 DEF View, bread
    <3> QED
      BY <1>a, <2>1, <2>2, <2>4, <3>2
  <2>6. CASE ~committing
    <3>1. ~Up /\ Up' /\ dirty' = {}
      BY <1>0, <1>11, <2>1, <2>6 DEF Up, PinInv, erase
    <3>2. \A p \in Proc : held[p] = NoBlock
      BY <1>0, <2>1 DEF HeldInv, Active, TypeOK
    <3>3. \A b \in Block : bread(b)' = home[b]
      BY <1>0, <2>1, <2>6, <3>2, LogAssumption DEF CleanInv, PinInv, bread
    <3>4. View' = home
      BY <1>0, <3>1, <3>3 DEF View, TypeOK
    <3> QED
      BY <1>a, <2>1, <2>2, <2>4, <3>1, <3>4 DEF View
  <2> QED
    BY <2>5, <2>6
<1>12. ASSUME NEW b \in Block, Load(b) PROVE UNCHANGED AtomicDisk!vars
  <2>1. /\ cache[b] = NoValue /\ cache' = [cache EXCEPT ![b] = home[b]]
        /\ UNCHANGED <<home, logblk, head>> /\ Up /\ Up'
    BY <1>12 DEF Load, Up
  <2>2. Recovered' = Recovered
    BY <2>1 DEF Recovered
  <2>3. \A c \in Block : bread(c)' = bread(c)
    BY <1>0, <2>1, LogAssumption DEF bread, TypeOK
  <2>4. View' = View
    BY <2>1, <2>3 DEF View
  <2> QED
    BY <1>0, <1>12, <1>a, <2>2, <2>4, ActiveStep
<1>13. ASSUME NEW b \in Block, Recycle(b) PROVE UNCHANGED AtomicDisk!vars
  <2>1. /\ cache[b] # NoValue /\ b \notin dirty /\ \A p \in Proc : held[p] # b
        /\ cache' = [cache EXCEPT ![b] = NoValue]
        /\ UNCHANGED <<home, logblk, head>> /\ Up /\ Up'
    BY <1>13 DEF Recycle, Up
  <2>2. Recovered' = Recovered
    BY <2>1 DEF Recovered
  <2>3. cache[b] = home[b]
    BY <1>0, <2>1 DEF CleanInv
  <2>4. \A c \in Block : bread(c)' = bread(c)
    BY <1>0, <2>1, <2>3 DEF bread, TypeOK
  <2>5. View' = View
    BY <2>1, <2>4 DEF View
  <2> QED
    BY <1>0, <1>13, <1>a, <2>2, <2>5, ActiveStep
<1>14. CASE Crash
  <2>1. Recovered' = Recovered
    BY <1>14 DEF Crash, Recovered
  <2>2. ~Up'
    BY <1>14 DEF Crash, Up
  <2>3. View' = Recovered
    BY <2>1, <2>2 DEF View
  <2> QED
    BY <1>0, <1>14, <2>1, <2>3, ActiveStep DEF AtomicDisk!Next, AtomicDisk!Crash
<1>15. CASE UNCHANGED vars
  BY <1>0, <1>15, <1>a, ActiveStep, ViewSame DEF Up
<1> QED
  BY <1>1, <1>2, <1>3, <1>4, <1>5, <1>6, <1>7, <1>8, <1>9, <1>10, <1>11,
     <1>12, <1>13, <1>14, <1>15 DEF Next, ProcStep, LogStep, AtomicDisk!Next

\* The log implements a disk with atomic, crash-proof file-system calls.
THEOREM LogIsAtomic == Spec => CrashAtomic
<1>1. Init => AtomicDisk!Init
  <2> SUFFICES ASSUME Init PROVE AtomicDisk!Init
    OBVIOUS
  <2>1. Active = {} /\ Recovered = home /\ home \in [Block -> Value]
    BY InstalledEmpty DEF Init, Active, Recovered
  <2>2. View = home
    BY <2>1 DEF Init, View, Up, bread
  <2> QED
    BY <2>1, <2>2 DEF AtomicDisk!Init
<1> QED
  BY <1>1, SimulationStep, LogInvariant, PTL DEF Spec, CrashAtomic, AtomicDisk!Spec

=============================================================================
