--------------------------- MODULE BioCacheProofs ---------------------------
(***************************************************************************)
(* The inductive invariant of the buffer cache and the disk driver, and the*)
(* steps of bget(), brelse(), the sleep-locks and the users of buffers     *)
(* that preserve it.                                                       *)
(***************************************************************************)
EXTENDS Bio, FiniteSetTheorems, SequenceTheorems, TLAPS

USE DEF bcache, flags, ide, frame, vars

\* A process at Holding has its buffer locked, one at Busy has a buffer.
Holding == {"use", "iderw", "io_sleep", "io_wait"}
Busy == Holding \union {"acquiresleep", "lock_sleep", "brelse"}

TypeInv ==
    /\ blockno \in [Buf -> Block \union {NoBlock}]
    /\ refcnt \in [Buf -> Nat]
    /\ valid \in [Buf -> BOOLEAN]
    /\ dirty \in [Buf -> BOOLEAN]
    /\ data \in [Buf -> Value]
    /\ owner \in [Buf -> Proc \union {NoProc}]
    /\ lru \in [Buf -> Buf]
    /\ queue \in Seq(Buf)
    /\ disk \in [Block -> Value]
    /\ pc \in [Proc -> Busy \union {"idle", "no_buffers"}]
    /\ want \in [Proc -> Block \union {NoBlock}]
    /\ buf \in [Proc -> Buf \union {NoBuf}]

\* What a process knows of its buffer.
ProcOk(p) ==
    /\ pc[p] \in Busy => buf[p] \in Buf /\ want[p] \in Block /\ blockno[buf[p]] = want[p]
    /\ pc[p] \notin Busy => buf[p] = NoBuf
    /\ pc[p] \in Holding => owner[buf[p]] = p
    /\ pc[p] = "use" => valid[buf[p]]
    /\ pc[p] = "iderw" => ~Synced(buf[p])
    /\ pc[p] = "lock_sleep" => owner[buf[p]] # NoProc

ProcInv == \A p \in Proc : ProcOk(p)

OwnerInv ==
    \A b \in Buf : owner[b] # NoProc => pc[owner[b]] \in Holding /\ buf[owner[b]] = b

\* The processes that count in refcnt.
Users(b) == {p \in Proc : buf[p] = b}

RefInv == \A b \in Buf : refcnt[b] = Cardinality(Users(b))

CacheOk(b) ==
    /\ dirty[b] => valid[b]
    /\ blockno[b] = NoBlock => ~valid[b]
    /\ Synced(b) => data[b] = disk[blockno[b]] \/ blockno[b] \in bad

CacheInv == CachedOnce /\ \A b \in Buf : CacheOk(b)

InQueue(b) == \E i \in 1 .. Len(queue) : queue[i] = b

\* The requests, and the processes that wait for them.
QueueInv ==
    /\ \A i, j \in 1 .. Len(queue) : queue[i] = queue[j] => i = j
    /\ \A b \in Buf : InQueue(b) =>
          owner[b] # NoProc /\ pc[owner[b]] \in {"io_sleep", "io_wait"} /\ ~Synced(b)
    /\ \A p \in Proc :
          pc[p] = "io_sleep" \/ (pc[p] = "io_wait" /\ ~Synced(buf[p])) => InQueue(buf[p])
    /\ FirstIsActive

BioInv == TypeInv /\ ProcInv /\ OwnerInv /\ RefInv /\ CacheInv /\ QueueInv

-----------------------------------------------------------------------------
(* Facts about sets and sequences *)

\* A set of buffers has a last one.
LEMMA LastExists ==
    ASSUME NEW S \in SUBSET Buf, S # {}
    PROVE  (CHOOSE i \in S : \A j \in S : j <= i) \in S
<1> DEFINE T == {NBUF - i : i \in S}
<1>1. T \subseteq Nat /\ T # {}
  BY BioAssumption DEF Buf
<1>2. PICK x \in T : \A y \in T : ~(<<y, x>> \in OpToRel(<, Nat))
  <2> HIDE DEF T
  <2> QED
    BY <1>1, WFMin, NatLessThanWellFounded, Zenon
<1>3. \A y \in T : ~(y < x)
  BY <1>1, <1>2, Zenon DEF OpToRel
<1>4. PICK i \in S : x = NBUF - i
  BY <1>2, Zenon
<1>5. ASSUME NEW j \in S PROVE j <= i
  <2>1. NBUF - j \in T /\ ~(NBUF - j < NBUF - i)
    BY <1>3, <1>4
  <2>2. i \in Int /\ j \in Int /\ NBUF \in Int
    BY BioAssumption DEF Buf
  <2> QED
    BY <2>1, <2>2
<1> QED
  BY <1>5

\* A buffer has finitely many users.
LEMMA UsersFinite == \A b : IsFiniteSet(Users(b)) /\ Cardinality(Users(b)) \in Nat
BY BioAssumption, FS_Subset, FS_CardinalityType DEF Users

\* Only a buffer without users has a count of 0.
LEMMA ZeroUsers ==
    ASSUME RefInv, NEW b \in Buf, refcnt[b] = 0
    PROVE  Users(b) = {}
BY UsersFinite, FS_EmptySet DEF RefInv

\* A locked buffer has a user.
LEMMA UnusedUnlocked ==
    ASSUME TypeInv, OwnerInv, NEW b \in Buf, Users(b) = {}
    PROVE  owner[b] = NoProc
BY DEF TypeInv, OwnerInv, Users

\* The first request, and the queue without it.
LEMMA HeadIsFirst ==
    ASSUME NEW s \in Seq(Buf), s # <<>>
    PROVE  /\ Len(s) \in Nat /\ 1 \in 1 .. Len(s) /\ Head(s) = s[1] /\ Head(s) \in Buf
           /\ Tail(s) \in Seq(Buf) /\ Len(Tail(s)) = Len(s) - 1
           /\ \A i \in 1 .. Len(Tail(s)) : i + 1 \in 1 .. Len(s) /\ Tail(s)[i] = s[i + 1]
OBVIOUS

\* The queue after a new request.
LEMMA AppendFacts ==
    ASSUME NEW s \in Seq(Buf), NEW b \in Buf
    PROVE  /\ Append(s, b) \in Seq(Buf) /\ Len(Append(s, b)) = Len(s) + 1 /\ Len(s) \in Nat
           /\ \A i \in 1 .. Len(s) : Append(s, b)[i] = s[i]
           /\ Append(s, b)[Len(s) + 1] = b
           /\ Append(s, b) # <<>>
<1>1. /\ Append(s, b) \in Seq(Buf) /\ Len(Append(s, b)) = Len(s) + 1 /\ Len(s) \in Nat
      /\ \A i \in 1 .. Len(s) : Append(s, b)[i] = s[i]
  OBVIOUS
<1>2. Append(s, b)[Len(s) + 1] = b
  BY AppendProperties, Zenon
<1>3. Append(s, b) # <<>>
  BY <1>1
<1> QED
  BY <1>1, <1>2, <1>3

-----------------------------------------------------------------------------
(* Facts about steps *)

\* The requests when a step leaves the queue and what is in it alone.
LEMMA SameQueue ==
    ASSUME TypeInv, QueueInv, UNCHANGED <<queue, cmd>>,
           \A b \in Buf : InQueue(b) =>
              /\ blockno'[b] = blockno[b] /\ valid'[b] = valid[b] /\ dirty'[b] = dirty[b]
              /\ data'[b] = data[b] /\ owner'[b] = owner[b]
              /\ pc'[owner[b]] \in {"io_sleep", "io_wait"},
           \A p \in Proc :
              pc'[p] = "io_sleep" \/ (pc'[p] = "io_wait" /\ ~Synced(buf[p])')
              => InQueue(buf'[p])
    PROVE  QueueInv'
<1>1. \A b : InQueue(b)' <=> InQueue(b)
  BY DEF InQueue
<1>2. \A b \in Buf : InQueue(b) => Synced(b)' = Synced(b) /\ idestart(b)' = idestart(b)
  BY Zenon DEF Synced, idestart
<1>3. FirstIsActive'
  <2>1. CASE queue = <<>>
    BY <2>1 DEF QueueInv, FirstIsActive
  <2>2. CASE queue # <<>>
    <3>1. Head(queue) \in Buf /\ InQueue(Head(queue))
      BY <2>2, HeadIsFirst DEF TypeInv, InQueue
    <3> QED
      BY <2>2, <3>1, <1>2 DEF QueueInv, FirstIsActive
  <2> QED
    BY <2>1, <2>2
<1>4. \A i, j \in 1 .. Len(queue') : queue'[i] = queue'[j] => i = j
  BY DEF QueueInv
<1>5. \A b \in Buf : InQueue(b)' =>
         owner'[b] # NoProc /\ pc'[owner'[b]] \in {"io_sleep", "io_wait"} /\ ~Synced(b)'
  BY <1>1, <1>2 DEF QueueInv
<1> QED
  BY <1>1, <1>3, <1>4, <1>5 DEF QueueInv

\* The counts when no process takes or gives back a buffer.
LEMMA SameRefs ==
    ASSUME RefInv, UNCHANGED <<refcnt, buf>>
    PROVE  RefInv'
BY DEF RefInv, Users

\* The contents of the cache when no step touches them.
LEMMA SameCache ==
    ASSUME CacheInv, UNCHANGED <<blockno, valid, dirty, data, disk, bad>>
    PROVE  CacheInv'
BY DEF CacheInv, CachedOnce, CacheOk, Synced

\* binit() establishes the invariant.
LEMMA BioInit == Init => BioInv
<1> SUFFICES ASSUME Init PROVE BioInv
  OBVIOUS
<1>1. TypeInv
  BY BioAssumption DEF Init, TypeInv, Buf, NoBuf
<1>2. ProcInv /\ OwnerInv
  BY DEF Init, ProcInv, ProcOk, OwnerInv, Busy, Holding
<1>3. RefInv
  <2>1. \A b \in Buf : Users(b) = {}
    BY DEF Init, Users, Buf, NoBuf
  <2> QED
    BY <2>1, FS_EmptySet, Zenon DEF Init, RefInv
<1>4. CacheInv
  BY DEF Init, CacheInv, CachedOnce, CacheOk, Synced
<1>5. QueueInv
  BY DEF Init, QueueInv, InQueue, FirstIsActive
<1> QED
  BY <1>1, <1>2, <1>3, <1>4, <1>5 DEF BioInv

-----------------------------------------------------------------------------
(* The steps *)

\* A process that only moves on, between labels that say the same of the
\* locks.
LEMMA MoveStep ==
    ASSUME BioInv, NEW p \in Proc, NEW l \in Busy, Goto(p, l), pc[p] \in Busy,
           UNCHANGED <<bcache, flags, data, owner, ide, frame>>,
           pc[p] \in Holding <=> l \in Holding,
           l = "use" => Synced(buf[p]),
           l = "io_sleep" => ~Synced(buf[p]),
           l # "iderw", pc[p] # "use", pc[p] # "iderw",
           l = "lock_sleep" => owner[buf[p]] # NoProc,
           pc[p] \in {"io_sleep", "io_wait"} /\ l \notin {"io_sleep", "io_wait"}
              => Synced(buf[p])
    PROVE  BioInv'
<1>1. TypeInv'
  BY DEF BioInv, TypeInv, Goto
<1>2. \A q \in Proc : pc'[q] = IF q = p THEN l ELSE pc[q]
  BY DEF BioInv, TypeInv, Goto
<1>3. ProcInv'
  <2> SUFFICES ASSUME NEW q \in Proc PROVE ProcOk(q)'
    BY DEF ProcInv
  <2>1. ProcOk(q)
    BY DEF BioInv, ProcInv
  <2> QED
    BY <1>2, <2>1 DEF ProcOk, Synced, Busy, Holding
<1>4. OwnerInv'
  <2> SUFFICES ASSUME NEW b \in Buf, owner[b] # NoProc
               PROVE  pc'[owner[b]] \in Holding /\ buf[owner[b]] = b
    BY DEF OwnerInv
  <2>1. owner[b] \in Proc /\ pc[owner[b]] \in Holding /\ buf[owner[b]] = b
    BY DEF BioInv, TypeInv, OwnerInv
  <2> QED
    BY <1>2, <2>1
<1>5. RefInv' /\ CacheInv'
  BY SameRefs, SameCache DEF BioInv
<1>6. QueueInv'
  <2>1. ASSUME NEW b \in Buf, InQueue(b)
        PROVE  pc'[owner[b]] \in {"io_sleep", "io_wait"}
    <3>1. /\ owner[b] \in Proc /\ pc[owner[b]] \in {"io_sleep", "io_wait"} /\ ~Synced(b)
          /\ buf[owner[b]] = b
      BY <2>1 DEF BioInv, TypeInv, QueueInv, OwnerInv
    <3> QED
      BY <1>2, <3>1
  <2>2. ASSUME NEW q \in Proc,
               pc'[q] = "io_sleep" \/ (pc'[q] = "io_wait" /\ ~Synced(buf[q])')
        PROVE  InQueue(buf'[q])
    <3>1. Synced(buf[q])' = Synced(buf[q])
      BY DEF Synced
    <3>2. ProcOk(q) /\ ProcOk(p)
      BY DEF BioInv, ProcInv
    <3>3. CASE q # p
      BY <1>2, <2>2, <3>1, <3>3 DEF BioInv, QueueInv
    <3>4. CASE q = p
      <4>1. pc[p] \in {"io_sleep", "io_wait"}
        BY <1>2, <2>2, <3>4 DEF Holding
      <4> QED
        BY <1>2, <2>2, <3>1, <3>4, <4>1 DEF BioInv, QueueInv
    <3> QED
      BY <3>3, <3>4
  <2> QED
    BY <2>1, <2>2, SameQueue DEF BioInv
<1> QED
  BY <1>1, <1>3, <1>4, <1>5, <1>6 DEF BioInv

\* kill() of a sleeper.
LEMMA KillStep == ASSUME BioInv, NEW p \in Proc, kill(p) PROVE BioInv'
<1>1. CASE pc[p] = "lock_sleep" /\ Goto(p, "acquiresleep")
  BY <1>1, MoveStep DEF kill, Busy, Holding
<1>2. CASE pc[p] = "io_sleep" /\ Goto(p, "io_wait")
  BY <1>2, MoveStep DEF kill, Busy, Holding
<1> QED
  BY <1>1, <1>2 DEF kill

\* The loop of iderw() after a wakeup.
LEMMA IderwWaitStep == ASSUME BioInv, NEW p \in Proc, iderw_wait(p) PROVE BioInv'
<1>1. CASE Finished(buf[p])
  BY <1>1, MoveStep DEF iderw_wait, Finished, Busy, Holding
<1>2. CASE ~Finished(buf[p])
  BY <1>2, MoveStep DEF iderw_wait, Finished, Busy, Holding
<1> QED
  BY <1>1, <1>2

\* acquiresleep(): the lock is taken, or the process sleeps.
LEMMA AcquiresleepStep == ASSUME BioInv, NEW p \in Proc, acquiresleep(p) PROVE BioInv'
<1> DEFINE b == buf[p]
           l == bread(b)
<1>1. CASE owner[b] # NoProc
  BY <1>1, MoveStep DEF acquiresleep, Busy, Holding
<1>2. CASE owner[b] = NoProc
  <2>1. /\ pc[p] = "acquiresleep" /\ owner' = [owner EXCEPT ![b] = p] /\ Goto(p, l)
        /\ UNCHANGED <<bcache, flags, data, ide, frame>>
    BY <1>2 DEF acquiresleep
  <2>2. /\ l \in {"use", "iderw"} /\ (l = "use" => valid[b]) /\ (l = "iderw" => ~Synced(b))
    BY DEF bread, Synced
  <2> HIDE DEF l
  <2>3. ProcOk(p) /\ b \in Buf
    BY <2>1 DEF BioInv, ProcInv, ProcOk, Busy
  <2>4. TypeInv'
    BY <2>1, <2>2, <2>3 DEF BioInv, TypeInv, Goto, Busy, Holding
  <2>5. \A q \in Proc : pc'[q] = IF q = p THEN l ELSE pc[q]
    BY <2>1 DEF BioInv, TypeInv, Goto
  <2>6. \A c \in Buf : owner'[c] = IF c = b THEN p ELSE owner[c]
    BY <2>1 DEF BioInv, TypeInv
  <2>7. ProcInv'
    <3> SUFFICES ASSUME NEW q \in Proc PROVE ProcOk(q)'
      BY DEF ProcInv
    <3>1. CASE q = p
      BY <2>1, <2>2, <2>3, <2>5, <2>6, <3>1 DEF ProcOk, Synced, Busy, Holding
    <3>2. CASE q # p
      <4>1. ProcOk(q) /\ q # NoProc /\ p # NoProc
        BY BioAssumption DEF BioInv, ProcInv
      <4> QED
        BY <1>2, <2>1, <2>5, <2>6, <3>2, <4>1 DEF ProcOk, Synced, Busy, Holding
    <3> QED
      BY <3>1, <3>2
  <2>8. OwnerInv'
    <3> SUFFICES ASSUME NEW c \in Buf, owner'[c] # NoProc
                 PROVE  pc'[owner'[c]] \in Holding /\ buf[owner'[c]] = c
      BY <2>1 DEF OwnerInv
    <3>1. CASE c = b
      BY <2>2, <2>5, <2>6, <3>1 DEF Holding
    <3>2. CASE c # b
      <4>1. owner[c] \in Proc /\ pc[owner[c]] \in Holding /\ buf[owner[c]] = c
        BY <2>6, <3>2 DEF BioInv, TypeInv, OwnerInv
      <4> QED
        BY <2>5, <2>6, <3>2, <4>1
    <3> QED
      BY <3>1, <3>2
  <2>9. RefInv' /\ CacheInv'
    BY <2>1, SameRefs, SameCache DEF BioInv
  <2>10. QueueInv'
    <3>1. ASSUME NEW c \in Buf, InQueue(c)
          PROVE  owner'[c] = owner[c] /\ pc'[owner[c]] \in {"io_sleep", "io_wait"}
      <4>1. owner[c] \in Proc /\ pc[owner[c]] \in {"io_sleep", "io_wait"} /\ c # b
        BY <1>2, <3>1 DEF BioInv, TypeInv, QueueInv
      <4> QED
        BY <2>1, <2>5, <2>6, <4>1
    <3>2. ASSUME NEW q \in Proc,
                 pc'[q] = "io_sleep" \/ (pc'[q] = "io_wait" /\ ~Synced(buf[q])')
          PROVE  InQueue(buf'[q])
      <4>1. q # p /\ buf'[q] = buf[q] /\ Synced(buf[q])' = Synced(buf[q])
        BY <2>1, <2>2, <2>5, <3>2 DEF Synced
      <4> QED
        BY <2>5, <3>2, <4>1 DEF BioInv, QueueInv
    <3> QED
      BY <2>1, <3>1, <3>2, SameQueue DEF BioInv
  <2> QED
    BY <2>4, <2>7, <2>8, <2>9, <2>10 DEF BioInv
<1> QED
  BY <1>1, <1>2

\* The first half of brelse(): the lock is free and its sleepers are woken.
LEMMA ReleasesleepStep == ASSUME BioInv, NEW p \in Proc, releasesleep(p) PROVE BioInv'
<1> DEFINE b == buf[p]
<1>1. pc[p] = "use" /\ ProcOk(p) /\ b \in Buf /\ owner[b] = p
  BY DEF releasesleep, BioInv, ProcInv, ProcOk, Busy, Holding
<1>2. /\ owner' = [owner EXCEPT ![b] = NoProc]
      /\ pc' = [wakeup("lock_sleep", b, "acquiresleep") EXCEPT ![p] = "brelse"]
      /\ UNCHANGED <<bcache, flags, data, ide, frame>>
  BY <1>1 DEF releasesleep
<1>3. TypeInv'
  BY <1>1, <1>2 DEF BioInv, TypeInv, wakeup, Busy, Holding
<1>4. \A q \in Proc : pc'[q] = IF q = p THEN "brelse"
                               ELSE IF pc[q] = "lock_sleep" /\ buf[q] = b THEN "acquiresleep"
                               ELSE pc[q]
  BY <1>2 DEF wakeup
<1>5. \A c \in Buf : owner'[c] = IF c = b THEN NoProc ELSE owner[c]
  BY <1>2 DEF BioInv, TypeInv
<1>6. ProcInv'
  <2> SUFFICES ASSUME NEW q \in Proc PROVE ProcOk(q)'
    BY DEF ProcInv
  <2>1. ProcOk(q)
    BY DEF BioInv, ProcInv
  <2>2. CASE q = p
    BY <1>1, <1>2, <1>4, <2>2 DEF ProcOk, Busy, Holding
  <2>3. CASE q # p
    BY <1>1, <1>2, <1>4, <1>5, <2>1, <2>3 DEF ProcOk, Synced, Busy, Holding
  <2> QED
    BY <2>2, <2>3
<1>7. OwnerInv'
  <2> SUFFICES ASSUME NEW c \in Buf, owner'[c] # NoProc
               PROVE  pc'[owner'[c]] \in Holding /\ buf[owner'[c]] = c
    BY <1>2 DEF OwnerInv
  <2>1. /\ c # b /\ owner'[c] = owner[c] /\ owner[c] \in Proc
        /\ pc[owner[c]] \in Holding /\ buf[owner[c]] = c
    BY <1>5 DEF BioInv, TypeInv, OwnerInv
  <2> QED
    BY <1>4, <2>1 DEF Holding
<1>8. RefInv' /\ CacheInv'
  BY <1>2, SameRefs, SameCache DEF BioInv
<1>9. QueueInv'
  <2>1. ASSUME NEW c \in Buf, InQueue(c)
        PROVE  owner'[c] = owner[c] /\ pc'[owner[c]] \in {"io_sleep", "io_wait"}
    <3>1. owner[c] \in Proc /\ pc[owner[c]] \in {"io_sleep", "io_wait"}
      BY <2>1 DEF BioInv, TypeInv, QueueInv
    <3>2. c # b
      BY <1>1, <3>1
    <3> QED
      BY <1>1, <1>4, <1>5, <3>1, <3>2
  <2>2. ASSUME NEW q \in Proc,
               pc'[q] = "io_sleep" \/ (pc'[q] = "io_wait" /\ ~Synced(buf[q])')
        PROVE  InQueue(buf'[q])
    <3>1. pc'[q] = pc[q] /\ buf'[q] = buf[q] /\ Synced(buf[q])' = Synced(buf[q])
      BY <1>2, <1>4, <2>2 DEF Synced
    <3> QED
      BY <2>2, <3>1 DEF BioInv, QueueInv
  <2> QED
    BY <1>2, <2>1, <2>2, SameQueue DEF BioInv
<1> QED
  BY <1>3, <1>6, <1>7, <1>8, <1>9 DEF BioInv

\* Taking and giving back a buffer: p's buffer changes, p has no lock before
\* and after, and nobody else's buffer changes.
LEMMA OthersKeep ==
    ASSUME BioInv, NEW p \in Proc, pc[p] \notin Holding, NEW l, l \notin Holding,
           Goto(p, l), UNCHANGED <<data, owner, ide>>,
           \A q \in Proc : q # p => buf'[q] = buf[q] /\ want'[q] = want[q],
           \A c \in Buf : Users(c) # {} =>
              blockno'[c] = blockno[c] /\ valid'[c] = valid[c] /\ dirty'[c] = dirty[c]
    PROVE  /\ \A q \in Proc : q # p => ProcOk(q)'
           /\ OwnerInv' /\ QueueInv'
<1>1. \A q \in Proc : pc'[q] = IF q = p THEN l ELSE pc[q]
  BY DEF BioInv, TypeInv, Goto
<1>2. ASSUME NEW q \in Proc, q # p PROVE ProcOk(q)'
  <2>1. ProcOk(q) /\ pc'[q] = pc[q] /\ buf'[q] = buf[q] /\ want'[q] = want[q]
    BY <1>1, <1>2 DEF BioInv, ProcInv
  <2>2. CASE pc[q] \in Busy
    <3>1. q \in Users(buf[q]) /\ buf[q] \in Buf
      BY <2>1, <2>2, SMTT(30) DEF Users, ProcOk
    <3> QED
      BY <2>1, <2>2, <3>1 DEF ProcOk, Synced
  <2>3. CASE pc[q] \notin Busy
    BY <2>1, <2>3 DEF ProcOk, Busy, Holding
  <2> QED
    BY <2>2, <2>3
<1>3. ASSUME NEW c \in Buf, owner[c] # NoProc
      PROVE  owner[c] \in Proc /\ owner[c] # p /\ c \in Buf /\ Users(c) # {}
             /\ pc[owner[c]] \in Holding /\ buf[owner[c]] = c
  <2>1. owner[c] \in Proc
    BY <1>3 DEF BioInv, TypeInv
  <2>2. pc[owner[c]] \in Holding /\ buf[owner[c]] = c
    BY <1>3 DEF BioInv, OwnerInv
  <2>3. owner[c] \in Users(c)
    BY <2>1, <2>2 DEF Users
  <2> QED
    BY <2>1, <2>2, <2>3
<1>4. OwnerInv'
  BY <1>1, <1>3 DEF OwnerInv
<1>5. QueueInv'
  <2>1. ASSUME NEW c \in Buf, InQueue(c)
        PROVE  /\ blockno'[c] = blockno[c] /\ valid'[c] = valid[c] /\ dirty'[c] = dirty[c]
               /\ pc'[owner[c]] \in {"io_sleep", "io_wait"}
    <3>1. owner[c] # NoProc /\ pc[owner[c]] \in {"io_sleep", "io_wait"}
      BY <2>1 DEF BioInv, QueueInv
    <3> QED
      BY <1>1, <1>3, <3>1
  <2>2. ASSUME NEW q \in Proc,
               pc'[q] = "io_sleep" \/ (pc'[q] = "io_wait" /\ ~Synced(buf[q])')
        PROVE  InQueue(buf'[q])
    <3>1. q # p /\ pc'[q] = pc[q] /\ buf'[q] = buf[q] /\ ProcOk(q)
      BY <1>1, <2>2 DEF Holding, BioInv, ProcInv
    <3>2. buf[q] \in Buf /\ q \in Users(buf[q])
      BY <2>2, <3>1 DEF ProcOk, Busy, Holding, Users
    <3>3. Synced(buf[q])' = Synced(buf[q])
      BY <3>1, <3>2 DEF Synced
    <3> QED
      BY <2>2, <3>1, <3>3 DEF BioInv, QueueInv
  <2> QED
    BY <2>1, <2>2, SameQueue DEF BioInv
<1> QED
  BY <1>2, <1>4, <1>5

\* The second half of brelse(): the reference is given back.
LEMMA BrelseStep == ASSUME BioInv, NEW p \in Proc, brelse(p) PROVE BioInv'
<1> DEFINE b == buf[p]
<1>1. pc[p] = "brelse" /\ ProcOk(p) /\ b \in Buf /\ p \in Users(b) /\ b # NoBuf
  BY DEF brelse, BioInv, ProcInv, ProcOk, Busy, Users, Buf, NoBuf
<1>2. /\ refcnt' = [refcnt EXCEPT ![b] = refcnt[b] - 1]
      /\ lru' = IF refcnt'[b] = 0 THEN ToHead(b) ELSE lru
      /\ want' = [want EXCEPT ![p] = NoBlock]
      /\ buf' = [buf EXCEPT ![p] = NoBuf]
      /\ Goto(p, "idle")
      /\ UNCHANGED <<blockno, flags, data, owner, ide>>
  BY DEF brelse, unref
<1>3. refcnt[b] \in Nat \ {0}
  <2>1. refcnt[b] # 0
    BY <1>1, ZeroUsers DEF BioInv
  <2> QED
    BY <1>1, <2>1 DEF BioInv, TypeInv
<1>4. lru' \in [Buf -> Buf]
  <2> DEFINE at == CHOOSE i \in Buf : lru[i] = b
  <2> HIDE DEF at
  <2>1. ASSUME NEW i \in Buf
        PROVE  (IF i = 1 THEN b ELSE IF i <= at THEN lru[i - 1] ELSE lru[i]) \in Buf
    <3>1. i # 1 => i - 1 \in Buf
      BY BioAssumption DEF Buf
    <3>2. lru[i] \in Buf /\ (i # 1 => lru[i - 1] \in Buf)
      BY <3>1 DEF BioInv, TypeInv
    <3> QED
      BY <1>1, <3>2
  <2>2. ToHead(b) = [i \in Buf |-> IF i = 1 THEN b ELSE IF i <= at THEN lru[i - 1] ELSE lru[i]]
    BY DEF ToHead, at
  <2>3. ToHead(b) \in [Buf -> Buf]
    BY <2>1, <2>2
  <2> QED
    BY <1>2, <2>3 DEF BioInv, TypeInv
<1>5. TypeInv'
  BY <1>1, <1>2, <1>3, <1>4 DEF BioInv, TypeInv, Goto
<1>6. /\ \A q \in Proc : q # p => buf'[q] = buf[q] /\ want'[q] = want[q]
      /\ buf'[p] = NoBuf /\ pc'[p] = "idle"
  BY <1>2, SMTT(30) DEF BioInv, TypeInv, Goto
<1>7. (\A q \in Proc : q # p => ProcOk(q)') /\ OwnerInv' /\ QueueInv'
  BY <1>1, <1>2, <1>6, OthersKeep, Zenon DEF Holding
<1>8. ProcInv'
  <2>1. ProcOk(p)'
    BY <1>6 DEF ProcOk, Busy, Holding
  <2> QED
    BY <1>7, <2>1 DEF ProcInv
<1>9. RefInv'
  <2> SUFFICES ASSUME NEW c \in Buf PROVE refcnt'[c] = Cardinality(Users(c)')
    BY DEF RefInv
  <2>0. refcnt[c] = Cardinality(Users(c)) /\ c # NoBuf
    BY DEF BioInv, RefInv, Buf, NoBuf
  <2>1. CASE c = b
    <3>1. Users(c)' = Users(c) \ {p}
      BY <1>6, <2>0, <2>1 DEF Users
    <3>2. Cardinality(Users(c) \ {p}) = Cardinality(Users(c)) - 1
      BY <1>1, <2>1, UsersFinite, FS_RemoveElement, Zenon
    <3> QED
      BY <1>1, <1>2, <2>0, <2>1, <3>1, <3>2 DEF BioInv, TypeInv
  <2>2. CASE c # b
    <3>1. Users(c)' = Users(c)
      BY <1>6, <2>0, <2>2 DEF Users
    <3> QED
      BY <1>2, <2>0, <2>2, <3>1 DEF BioInv, TypeInv
  <2> QED
    BY <2>1, <2>2
<1>10. CacheInv'
  BY <1>2, SameCache DEF BioInv
<1> QED
  BY <1>5, <1>7, <1>8, <1>9, <1>10 DEF BioInv

-----------------------------------------------------------------------------
(* bget(): its three outcomes, with the buffer it takes *)

Hit(p, k, b) ==
    /\ blockno[b] = k
    /\ refcnt' = [refcnt EXCEPT ![b] = refcnt[b] + 1]
    /\ UNCHANGED <<blockno, flags>>

Miss(p, k, b) ==
    /\ Cached(k) = {} /\ refcnt[b] = 0 /\ ~dirty[b]
    /\ blockno' = [blockno EXCEPT ![b] = k]
    /\ valid' = [valid EXCEPT ![b] = FALSE]
    /\ dirty' = [dirty EXCEPT ![b] = FALSE]
    /\ refcnt' = [refcnt EXCEPT ![b] = 1]

Take(p, k, b) ==
    /\ pc[p] = "idle"
    /\ want' = [want EXCEPT ![p] = k]
    /\ buf' = [buf EXCEPT ![p] = b]
    /\ Goto(p, "acquiresleep")
    /\ UNCHANGED <<lru, data, owner, ide>>

Exhausted(p) ==
    /\ pc[p] = "idle" /\ Goto(p, "no_buffers")
    /\ UNCHANGED <<bcache, flags, frame, data, owner, ide>>

\* Every bget() has one of the three outcomes.
LEMMA BgetCases ==
    ASSUME TypeInv, NEW p \in Proc, NEW k \in Block, bget(p, k)
    PROVE  \/ \E b \in Buf : Take(p, k, b) /\ (Hit(p, k, b) \/ Miss(p, k, b))
           \/ Exhausted(p)
<1> DEFINE unused == {i \in Buf : Unused(lru[i])}
           last == CHOOSE i \in unused : \A j \in unused : j <= i
           b == IF Cached(k) # {} THEN CHOOSE c \in Cached(k) : TRUE ELSE lru[last]
<1>1. CASE Cached(k) # {}
  <2>1. b \in Buf /\ blockno[b] = k
    BY <1>1, SMTT(30) DEF Cached
  <2>2. Take(p, k, b) /\ Hit(p, k, b)
    BY <1>1, <2>1 DEF bget, Take, Hit
  <2> QED
    BY <2>1, <2>2
<1>2. CASE Cached(k) = {} /\ unused # {}
  <2>1. last \in unused
    <3>1. unused \in SUBSET Buf
      OBVIOUS
    <3> HIDE DEF unused
    <3> QED
      BY <1>2, <3>1, LastExists
  <2>2. b = lru[last] /\ b \in Buf /\ refcnt[b] = 0 /\ ~dirty[b]
    <3>1. last \in Buf /\ Unused(lru[last])
      BY <2>1
    <3>2. b = lru[last]
      BY <1>2, SMTT(30)
    <3> HIDE DEF b, last
    <3> QED
      BY <3>1, <3>2 DEF Unused, TypeInv
  <2>3. Take(p, k, b) /\ Miss(p, k, b)
    BY <1>2, <2>2, Zenon DEF bget, Take, Miss
  <2> QED
    BY <2>2, <2>3
<1>3. CASE Cached(k) = {} /\ unused = {}
  BY <1>3 DEF bget, Exhausted
<1> QED
  BY <1>1, <1>2, <1>3

\* bget() finds no buffer.
LEMMA ExhaustedStep == ASSUME BioInv, NEW p \in Proc, Exhausted(p) PROVE BioInv'
<1>1. TypeInv'
  BY DEF Exhausted, BioInv, TypeInv, Goto
<1>2. (\A q \in Proc : q # p => ProcOk(q)') /\ OwnerInv' /\ QueueInv'
  BY OthersKeep DEF Exhausted, Holding
<1>3. ProcOk(p)'
  BY SMTT(30) DEF Exhausted, BioInv, TypeInv, ProcInv, ProcOk, Goto, Busy, Holding
<1>4. RefInv' /\ CacheInv'
  BY SameRefs, SameCache DEF Exhausted, BioInv
<1> QED
  BY <1>1, <1>2, <1>3, <1>4 DEF BioInv, ProcInv

\* bget() finds the block or recycles a buffer.
LEMMA TakeStep ==
    ASSUME BioInv, NEW p \in Proc, NEW k \in Block, NEW b \in Buf, Take(p, k, b),
           Hit(p, k, b) \/ Miss(p, k, b)
    PROVE  BioInv'
<1>1. TypeInv'
  <2>1. refcnt' \in [Buf -> Nat]
    BY DEF Hit, Miss, BioInv, TypeInv
  <2>2. /\ blockno' \in [Buf -> Block \union {NoBlock}]
        /\ valid' \in [Buf -> BOOLEAN] /\ dirty' \in [Buf -> BOOLEAN]
    <3>1. CASE Hit(p, k, b)
      BY <3>1 DEF Hit, BioInv, TypeInv
    <3>2. CASE Miss(p, k, b)
      BY <3>2 DEF Miss, BioInv, TypeInv
    <3> QED
      BY <3>1, <3>2
  <2>3. /\ want' \in [Proc -> Block \union {NoBlock}]
        /\ buf' \in [Proc -> Buf \union {NoBuf}]
        /\ pc' \in [Proc -> Busy \union {"idle", "no_buffers"}]
    BY DEF Take, BioInv, TypeInv, Goto, Busy
  <2> QED
    BY <2>1, <2>2, <2>3 DEF Take, BioInv, TypeInv
<1>2. /\ buf'[p] = b /\ want'[p] = k /\ pc'[p] = "acquiresleep" /\ buf[p] = NoBuf
      /\ \A q \in Proc : q # p => buf'[q] = buf[q] /\ want'[q] = want[q]
  BY ZenonT(30) DEF Take, BioInv, TypeInv, Goto, ProcInv, ProcOk, Busy, Holding
<1>3. blockno'[b] = k
  BY DEF Hit, Miss, BioInv, TypeInv
<1>4. Miss(p, k, b) => Users(b) = {}
  BY ZeroUsers DEF Miss, BioInv
<1>5. \A c \in Buf : Users(c) # {} =>
         blockno'[c] = blockno[c] /\ valid'[c] = valid[c] /\ dirty'[c] = dirty[c]
  BY <1>4 DEF Hit, Miss, BioInv, TypeInv
<1>6. (\A q \in Proc : q # p => ProcOk(q)') /\ OwnerInv' /\ QueueInv'
  BY <1>2, <1>5, OthersKeep DEF Take, Holding
<1>7. ProcOk(p)'
  BY <1>2, <1>3, Zenon DEF ProcOk, Busy, Holding
<1>8. RefInv'
  <2> SUFFICES ASSUME NEW c \in Buf PROVE refcnt'[c] = Cardinality(Users(c)')
    BY DEF RefInv
  <2>0. refcnt[c] = Cardinality(Users(c)) /\ c # NoBuf /\ p \notin Users(c)
    <3>1. refcnt[c] = Cardinality(Users(c))
      BY DEF BioInv, RefInv
    <3>2. c # NoBuf
      BY DEF Buf, NoBuf
    <3>3. p \notin Users(c)
      BY <1>2, <3>2 DEF Users
    <3> QED
      BY <3>1, <3>2, <3>3
  <2>1. CASE c = b
    <3>1. Users(c)' = Users(c) \union {p}
      BY <1>2, <2>0, <2>1 DEF Users
    <3>2. Cardinality(Users(c) \union {p}) = Cardinality(Users(c)) + 1
      BY <2>0, UsersFinite, FS_AddElement, Zenon
    <3>3. refcnt'[c] = refcnt[c] + 1
      <4>1. refcnt[b] \in Nat
        BY DEF BioInv, TypeInv
      <4> QED
        BY <2>1, <4>1 DEF Hit, Miss, BioInv, TypeInv
    <3> QED
      BY <2>0, <3>1, <3>2, <3>3, SMTT(30)
  <2>2. CASE c # b
    <3>1. Users(c)' = Users(c)
      BY <1>2, <2>0, <2>2 DEF Users
    <3>2. refcnt'[c] = refcnt[c]
      BY <2>2 DEF Hit, Miss, BioInv, TypeInv
    <3> QED
      BY <2>0, <3>1, <3>2
  <2> QED
    BY <2>1, <2>2
<1>9. CacheInv'
  <2>1. CASE Hit(p, k, b)
    BY <2>1, SameCache DEF Take, Hit, BioInv
  <2>2. CASE Miss(p, k, b)
    <3>1. \A c \in Buf : blockno'[c] = (IF c = b THEN k ELSE blockno[c])
      BY <2>2 DEF Miss, BioInv, TypeInv
    <3>2. \A c \in Buf : c # b => valid'[c] = valid[c] /\ dirty'[c] = dirty[c]
      BY <2>2 DEF Miss, BioInv, TypeInv
    <3>3. ~valid'[b] /\ ~dirty'[b]
      BY <2>2 DEF Miss, BioInv, TypeInv
    <3>4. \A c \in Buf : blockno[c] # k
      BY <2>2 DEF Miss, Cached
    <3>5. CachedOnce'
      <4>1. \A c, d \in Buf : blockno[c] = blockno[d] /\ c # d => blockno[c] = NoBlock
        BY DEF BioInv, CacheInv, CachedOnce
      <4>2. \A c, d \in Buf : blockno'[c] = blockno'[d] /\ c # d => blockno'[c] = NoBlock
        BY <3>1, <3>4, <4>1, SMTT(30)
      <4> QED
        BY <4>2 DEF CachedOnce
    <3>6. ASSUME NEW c \in Buf PROVE CacheOk(c)'
      <4>1. CacheOk(c)
        BY DEF BioInv, CacheInv
      <4> QED
        BY <3>1, <3>2, <3>3, <4>1 DEF CacheOk, Synced, Take
    <3> QED
      BY <3>5, <3>6 DEF CacheInv
  <2> QED
    BY <2>1, <2>2
<1> QED
  BY <1>1, <1>6, <1>7, <1>8, <1>9 DEF BioInv, ProcInv

\* Every bget() preserves the invariant.
LEMMA BgetStep == ASSUME BioInv, NEW p \in Proc, NEW k \in Block, bget(p, k) PROVE BioInv'
BY BgetCases, TakeStep, ExhaustedStep DEF BioInv

\* Both ways to change the contents of a locked buffer.
LEMMA WriteStep ==
    ASSUME BioInv, NEW p \in Proc, NEW v \in Value, NEW l \in {"use", "iderw"}, pc[p] = "use",
           data' = [data EXCEPT ![buf[p]] = v],
           dirty' = [dirty EXCEPT ![buf[p]] = TRUE],
           Goto(p, l),
           UNCHANGED <<bcache, valid, owner, ide, frame>>
    PROVE  BioInv'
<1> DEFINE b == buf[p]
<1>1. b \in Buf /\ owner[b] = p /\ valid[b] /\ ProcOk(p)
  BY DEF BioInv, ProcInv, ProcOk, Busy, Holding
<1>2. TypeInv'
  <2>1. data' \in [Buf -> Value] /\ dirty' \in [Buf -> BOOLEAN]
    BY <1>1 DEF BioInv, TypeInv
  <2>2. pc' \in [Proc -> Busy \union {"idle", "no_buffers"}]
    BY DEF BioInv, TypeInv, Goto, Busy, Holding
  <2> QED
    BY <2>1, <2>2 DEF BioInv, TypeInv
<1>3. \A q \in Proc : pc'[q] = IF q = p THEN l ELSE pc[q]
  BY DEF BioInv, TypeInv, Goto
<1>4. /\ dirty'[b]
      /\ \A c \in Buf : c # b => dirty'[c] = dirty[c] /\ data'[c] = data[c]
  BY <1>1 DEF BioInv, TypeInv
<1>5. ProcInv'
  <2> SUFFICES ASSUME NEW q \in Proc PROVE ProcOk(q)'
    BY DEF ProcInv
  <2>1. ProcOk(q)
    BY DEF BioInv, ProcInv
  <2>2. CASE q = p
    BY <1>1, <1>3, <1>4, <2>2 DEF ProcOk, Synced, Busy, Holding
  <2>3. CASE q # p
    BY <1>1, <1>3, <1>4, <2>1, <2>3 DEF ProcOk, Synced, Busy, Holding
  <2> QED
    BY <2>2, <2>3
<1>6. OwnerInv'
  <2> SUFFICES ASSUME NEW c \in Buf, owner[c] # NoProc
               PROVE  pc'[owner[c]] \in Holding /\ buf[owner[c]] = c
    BY DEF OwnerInv
  <2>1. owner[c] \in Proc /\ pc[owner[c]] \in Holding /\ buf[owner[c]] = c
    BY DEF BioInv, TypeInv, OwnerInv
  <2> QED
    BY <1>3, <2>1 DEF Holding
<1>7. RefInv'
  BY SameRefs DEF BioInv
<1>8. CacheInv'
  <2>1. CachedOnce'
    BY DEF BioInv, CacheInv, CachedOnce
  <2>2. ASSUME NEW c \in Buf PROVE CacheOk(c)'
    <3>1. CacheOk(c)
      BY DEF BioInv, CacheInv
    <3> QED
      BY <1>1, <1>4, <3>1 DEF CacheOk, Synced
  <2> QED
    BY <2>1, <2>2 DEF CacheInv
<1>9. QueueInv'
  <2>1. ASSUME NEW c \in Buf, InQueue(c)
        PROVE  c # b /\ pc'[owner[c]] \in {"io_sleep", "io_wait"}
    <3>1. owner[c] \in Proc /\ pc[owner[c]] \in {"io_sleep", "io_wait"}
      BY <2>1 DEF BioInv, TypeInv, QueueInv
    <3> QED
      BY <1>1, <1>3, <3>1
  <2>2. ASSUME NEW q \in Proc,
               pc'[q] = "io_sleep" \/ (pc'[q] = "io_wait" /\ ~Synced(buf[q])')
        PROVE  InQueue(buf'[q])
    <3>1. q # p /\ pc'[q] = pc[q] /\ ProcOk(q)
      BY <1>3, <2>2 DEF BioInv, ProcInv
    <3>2. buf[q] \in Buf /\ buf[q] # b
      BY <1>1, <2>2, <3>1 DEF ProcOk, Busy, Holding
    <3>3. Synced(buf[q])' = Synced(buf[q])
      BY <1>4, <3>2 DEF Synced
    <3> QED
      BY <2>2, <3>1, <3>3 DEF BioInv, QueueInv
  <2> QED
    BY <1>4, <2>1, <2>2, SameQueue, Zenon DEF BioInv
<1> QED
  BY <1>2, <1>5, <1>6, <1>7, <1>8, <1>9 DEF BioInv

\* log_write() pins the buffer.
LEMMA LogWriteStep == ASSUME BioInv, NEW p \in Proc, NEW v \in Value, log_write(p, v) PROVE BioInv'
<1>1. Goto(p, "use")
  BY DEF log_write, Goto, BioInv, TypeInv
<1> QED
  BY <1>1, WriteStep, Zenon DEF log_write

\* bwrite() up to iderw().
LEMMA BwriteStep == ASSUME BioInv, NEW p \in Proc, NEW v \in Value, bwrite(p, v) PROVE BioInv'
<1>1. owner[buf[p]] = p
  BY DEF bwrite, BioInv, ProcInv, ProcOk, Holding
<1> QED
  BY <1>1, WriteStep DEF bwrite
=============================================================================
