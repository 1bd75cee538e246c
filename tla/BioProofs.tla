----------------------------- MODULE BioProofs ------------------------------
(***************************************************************************)
(* The steps of the disk driver preserve the invariant of the buffer       *)
(* cache; with it the safety properties of Bio hold for any number of      *)
(* processes, blocks and buffers, and the cache over the driver implements *)
(* a store of blocks.                                                      *)
(***************************************************************************)
EXTENDS BioCacheProofs

USE DEF bcache, flags, ide, frame, vars

\* iderw() queues a request that was not queued.
LEMMA IderwStep == ASSUME BioInv, NEW p \in Proc, iderw(p) PROVE BioInv'
<1> DEFINE b == buf[p]
<1>1. pc[p] = "iderw" /\ b \in Buf /\ owner[b] = p /\ ~Synced(b) /\ ProcOk(p)
  BY DEF iderw, BioInv, ProcInv, ProcOk, Busy, Holding
<1>2. /\ queue' = Append(queue, b)
      /\ cmd' = IF queue = <<>> THEN idestart(b) ELSE cmd
      /\ Goto(p, "io_sleep")
      /\ UNCHANGED <<bcache, flags, data, owner, disk, bad, frame>>
  BY <1>1 DEF iderw, Starts
<1>3. /\ queue' \in Seq(Buf) /\ Len(queue') = Len(queue) + 1 /\ Len(queue) \in Nat
      /\ \A i \in 1 .. Len(queue) : queue'[i] = queue[i]
      /\ queue'[Len(queue) + 1] = b
      /\ queue' # <<>>
  BY <1>1, <1>2, AppendFacts DEF BioInv, TypeInv
<1>4. TypeInv'
  BY <1>2, <1>3 DEF BioInv, TypeInv, Goto, Busy, Holding
<1>5. \A q \in Proc : pc'[q] = IF q = p THEN "io_sleep" ELSE pc[q]
  BY <1>2 DEF BioInv, TypeInv, Goto
<1>6. ProcInv'
  <2> SUFFICES ASSUME NEW q \in Proc PROVE ProcOk(q)'
    BY DEF ProcInv
  <2>1. ProcOk(q)
    BY DEF BioInv, ProcInv
  <2> QED
    BY <1>1, <1>2, <1>5, <2>1 DEF ProcOk, Synced, Busy, Holding
<1>7. OwnerInv'
  <2> SUFFICES ASSUME NEW c \in Buf, owner[c] # NoProc
               PROVE  pc'[owner[c]] \in Holding /\ buf[owner[c]] = c
    BY <1>2 DEF OwnerInv
  <2>1. owner[c] \in Proc /\ pc[owner[c]] \in Holding /\ buf[owner[c]] = c
    BY DEF BioInv, TypeInv, OwnerInv
  <2> QED
    BY <1>5, <2>1 DEF Holding
<1>8. RefInv' /\ CacheInv'
  BY <1>2, SameRefs, SameCache DEF BioInv
<1>9. QueueInv'
  <2>1. ~InQueue(b)
    BY <1>1 DEF BioInv, QueueInv
  <2>2. \A c : InQueue(c)' <=> InQueue(c) \/ c = b
    BY <1>3 DEF InQueue
  <2>3. \A c : Synced(c)' = Synced(c) /\ idestart(c)' = idestart(c)
    BY <1>2 DEF Synced, idestart
  <2>4. \A i, j \in 1 .. Len(queue') : queue'[i] = queue'[j] => i = j
    <3> SUFFICES ASSUME NEW i \in 1 .. Len(queue'), NEW j \in 1 .. Len(queue'),
                        queue'[i] = queue'[j]
                 PROVE  i = j
      OBVIOUS
    <3>1. \A n \in 1 .. Len(queue) : queue'[n] = queue[n] /\ queue[n] # b
      BY <1>3, <2>1 DEF InQueue
    <3>2. \A n \in 1 .. Len(queue') : n \in 1 .. Len(queue) \/ n = Len(queue) + 1
      BY <1>3
    <3>3. \A n, m \in 1 .. Len(queue) : queue[n] = queue[m] => n = m
      BY DEF BioInv, QueueInv
    <3> QED
      BY <1>3, <3>1, <3>2, <3>3
  <2>5. ASSUME NEW c \in Buf, InQueue(c)'
        PROVE  owner'[c] # NoProc /\ pc'[owner'[c]] \in {"io_sleep", "io_wait"} /\ ~Synced(c)'
    <3>1. CASE c = b
      BY <1>1, <1>2, <1>5, <2>3, <3>1, BioAssumption
    <3>2. CASE InQueue(c)
      <4>1. /\ owner[c] \in Proc /\ owner[c] # NoProc /\ ~Synced(c)
            /\ pc[owner[c]] \in {"io_sleep", "io_wait"}
        BY <3>2 DEF BioInv, TypeInv, QueueInv
      <4> QED
        BY <1>2, <1>5, <2>3, <4>1
    <3> QED
      BY <2>2, <2>5, <3>1, <3>2
  <2>6. ASSUME NEW q \in Proc,
               pc'[q] = "io_sleep" \/ (pc'[q] = "io_wait" /\ ~Synced(buf[q])')
        PROVE  InQueue(buf[q])'
    <3>1. CASE q = p
      BY <1>2, <2>2, <3>1
    <3>2. CASE q # p
      BY <1>2, <1>5, <2>2, <2>3, <2>6, <3>2 DEF BioInv, QueueInv
    <3> QED
      BY <3>1, <3>2
  <2>7. FirstIsActive'
    <3>0. queue \in Seq(Buf)
      BY DEF BioInv, TypeInv
    <3>1. CASE queue = <<>>
      <4>1. Head(queue') = b
        BY <1>2, <3>1
      <4> QED
        BY <1>2, <1>3, <2>3, <3>1, <4>1 DEF FirstIsActive
    <3>2. CASE queue # <<>>
      <4>1. Head(queue') = Head(queue)
        BY <1>1, <1>3, <3>0, <3>2, HeadIsFirst, SMTT(30)
      <4> QED
        BY <1>2, <1>3, <2>3, <3>2, <4>1 DEF FirstIsActive, BioInv, QueueInv
    <3> QED
      BY <3>1, <3>2
  <2> QED
    BY <2>4, <2>5, <2>6, <2>7 DEF QueueInv
<1> QED
  BY <1>4, <1>6, <1>7, <1>8, <1>9 DEF BioInv

-----------------------------------------------------------------------------
\* What the interrupt does to the first buffer b of the queue, to its block
\* and to the requests behind it.
LEMMA IdeintrEffect ==
    ASSUME BioInv, ideintr, NEW b, b = Head(queue)
    PROVE  /\ b \in Buf /\ InQueue(b) /\ ~Synced(b) /\ blockno[b] \in Block
           /\ owner[b] \in Proc /\ pc[owner[b]] \in {"io_sleep", "io_wait"} /\ buf[owner[b]] = b
           /\ cmd = idestart(b)
           /\ valid'[b] /\ ~dirty'[b]
           /\ \A c \in Buf : c # b =>
                 valid'[c] = valid[c] /\ dirty'[c] = dirty[c] /\ data'[c] = data[c]
           /\ disk' \in [Block -> Value] /\ data' \in [Buf -> Value]
           /\ \A k \in Block : k # blockno[b] => disk'[k] = disk[k]
           /\ data'[b] = disk'[blockno[b]] \/ blockno[b] \in bad'
           /\ bad \subseteq bad'
<1> USE DEF NoCmd
<1>1. queue # <<>> /\ queue \in Seq(Buf)
  BY DEF ideintr, BioInv, TypeInv
<1>2. b \in Buf /\ InQueue(b)
  BY <1>1, HeadIsFirst DEF InQueue
<1>3. /\ owner[b] \in Proc /\ pc[owner[b]] \in {"io_sleep", "io_wait"} /\ buf[owner[b]] = b
      /\ ~Synced(b)
  BY <1>2 DEF BioInv, TypeInv, QueueInv, OwnerInv
<1>4. blockno[b] \in Block
  <2>1. ProcOk(owner[b])
    BY <1>3 DEF BioInv, ProcInv
  <2> QED
    BY <1>3, <2>1 DEF ProcOk, Busy, Holding
<1>5. cmd = idestart(b)
  BY <1>1 DEF BioInv, QueueInv, FirstIsActive
<1>6. /\ valid' = [valid EXCEPT ![b] = TRUE] /\ dirty' = [dirty EXCEPT ![b] = FALSE]
      /\ disk' = IF cmd.write THEN [disk EXCEPT ![cmd.no] = cmd.data] ELSE disk
      /\ \/ dirty[b] /\ data' = data /\ bad' = bad
         \/ ~dirty[b] /\ data' = [data EXCEPT ![b] = disk[cmd.no]] /\ bad' = bad
         \/ ~dirty[b] /\ bad' = bad \union {cmd.no} /\ data' = data
  BY DEF ideintr
<1>7. /\ valid'[b] /\ ~dirty'[b]
      /\ \A c \in Buf : c # b => valid'[c] = valid[c] /\ dirty'[c] = dirty[c]
  BY <1>2, <1>6 DEF BioInv, TypeInv
<1>8. /\ disk \in [Block -> Value] /\ data \in [Buf -> Value]
      /\ data[b] \in Value /\ disk[blockno[b]] \in Value
  BY <1>2, <1>4 DEF BioInv, TypeInv
<1>9. /\ \A c \in Buf : c # b => data'[c] = data[c]
      /\ disk' \in [Block -> Value] /\ data' \in [Buf -> Value]
      /\ \A k \in Block : k # blockno[b] => disk'[k] = disk[k]
      /\ data'[b] = disk'[blockno[b]] \/ blockno[b] \in bad'
      /\ bad \subseteq bad'
  <2>1. CASE dirty[b]
    <3>1. cmd.write = TRUE /\ cmd.no = blockno[b] /\ cmd.data = data[b]
      BY <1>5, <2>1 DEF idestart
    <3>2. disk' = [disk EXCEPT ![blockno[b]] = data[b]] /\ data' = data /\ bad' = bad
      BY <1>6, <2>1, <3>1
    <3> QED
      BY <1>2, <1>4, <1>8, <3>2
  <2>2. CASE ~dirty[b]
    <3>1. cmd.write = FALSE /\ cmd.no = blockno[b]
      BY <1>5, <2>2 DEF idestart
    <3>2. /\ disk' = disk
          /\ \/ data' = [data EXCEPT ![b] = disk[blockno[b]]] /\ bad' = bad
             \/ bad' = bad \union {blockno[b]} /\ data' = data
      BY <1>6, <2>2, <3>1
    <3> QED
      BY <1>2, <1>4, <1>8, <3>2
  <2> QED
    BY <2>1, <2>2
<1> QED
  BY <1>2, <1>3, <1>4, <1>5, <1>7, <1>9

\* The interrupt takes the first request off the queue.
LEMMA IdeintrStep == ASSUME BioInv, ideintr PROVE BioInv'
<1> DEFINE b == Head(queue)
<1>1. /\ b \in Buf /\ InQueue(b) /\ ~Synced(b) /\ blockno[b] \in Block
      /\ owner[b] \in Proc /\ pc[owner[b]] \in {"io_sleep", "io_wait"} /\ buf[owner[b]] = b
      /\ valid'[b] /\ ~dirty'[b]
      /\ \A c \in Buf : c # b =>
            valid'[c] = valid[c] /\ dirty'[c] = dirty[c] /\ data'[c] = data[c]
      /\ disk' \in [Block -> Value] /\ data' \in [Buf -> Value]
      /\ \A k \in Block : k # blockno[b] => disk'[k] = disk[k]
      /\ data'[b] = disk'[blockno[b]] \/ blockno[b] \in bad'
      /\ bad \subseteq bad'
  BY IdeintrEffect
<1>2. /\ queue # <<>> /\ queue' = Tail(queue)
      /\ valid' = [valid EXCEPT ![b] = TRUE] /\ dirty' = [dirty EXCEPT ![b] = FALSE]
      /\ pc' = wakeup("io_sleep", b, "io_wait")
      /\ cmd' = Following(Tail(queue))
      /\ UNCHANGED <<bcache, owner, frame>>
  BY DEF ideintr
<1>3. /\ queue \in Seq(Buf) /\ queue' \in Seq(Buf) /\ Len(queue) \in Nat
      /\ 1 \in 1 .. Len(queue) /\ b = queue[1] /\ Len(queue') = Len(queue) - 1
      /\ \A i \in 1 .. Len(queue') : i + 1 \in 1 .. Len(queue) /\ queue'[i] = queue[i + 1]
  BY <1>2, HeadIsFirst DEF BioInv, TypeInv
<1> HIDE DEF b
<1>4. \A q \in Proc : pc'[q] = IF pc[q] = "io_sleep" /\ buf[q] = b THEN "io_wait" ELSE pc[q]
  BY <1>2 DEF wakeup
<1>5. TypeInv'
  <2>1. valid' \in [Buf -> BOOLEAN] /\ dirty' \in [Buf -> BOOLEAN]
    BY <1>1, <1>2 DEF BioInv, TypeInv
  <2>2. pc' \in [Proc -> Busy \union {"idle", "no_buffers"}]
    BY <1>2 DEF BioInv, TypeInv, wakeup, Busy, Holding
  <2> QED
    BY <1>1, <1>2, <1>3, <2>1, <2>2 DEF BioInv, TypeInv
<1>6. ProcInv'
  <2> SUFFICES ASSUME NEW q \in Proc PROVE ProcOk(q)'
    BY DEF ProcInv
  <2>1. ProcOk(q)
    BY DEF BioInv, ProcInv
  <2>2. CASE pc[q] = "iderw"
    <3>1. buf[q] \in Buf /\ buf[q] # b
      BY <1>1, <2>1, <2>2, Zenon DEF ProcOk, Busy, Holding
    <3> QED
      BY <1>1, <1>2, <1>4, <2>1, <2>2, <3>1, SMTT(30) DEF ProcOk, Synced, Busy, Holding
  <2>3. CASE pc[q] = "io_sleep" /\ buf[q] = b
    <3>1. pc'[q] = "io_wait"
      BY <1>4, <2>3
    <3> QED
      BY <1>1, <1>2, <2>1, <2>3, <3>1 DEF ProcOk, Busy, Holding
  <2>4. CASE pc[q] # "iderw" /\ ~(pc[q] = "io_sleep" /\ buf[q] = b)
    <3>1. pc'[q] = pc[q]
      BY <1>4, <2>4
    <3> QED
      BY <1>1, <1>2, <2>1, <2>4, <3>1, SMTT(30) DEF ProcOk, Busy, Holding
  <2> QED
    BY <2>2, <2>3, <2>4
<1>7. OwnerInv'
  <2> SUFFICES ASSUME NEW c \in Buf, owner[c] # NoProc
               PROVE  pc'[owner[c]] \in Holding /\ buf[owner[c]] = c
    BY <1>2 DEF OwnerInv
  <2>1. owner[c] \in Proc /\ pc[owner[c]] \in Holding /\ buf[owner[c]] = c
    BY DEF BioInv, TypeInv, OwnerInv
  <2> QED
    BY <1>4, <2>1 DEF Holding
<1>8. RefInv'
  BY <1>2, SameRefs DEF BioInv
<1>9. CacheInv'
  <2>1. CachedOnce'
    BY <1>2 DEF BioInv, CacheInv, CachedOnce
  <2>2. ASSUME NEW c \in Buf PROVE CacheOk(c)'
    <3>1. CacheOk(c)
      BY DEF BioInv, CacheInv
    <3>2. CASE c = b
      <4>1. blockno[b] # NoBlock
        BY <1>1, BioAssumption
      <4> QED
        BY <1>1, <1>2, <3>2, <4>1 DEF CacheOk, Synced
    <3>3. CASE c # b
      <4>1. blockno[c] # blockno[b]
        BY <1>1, <3>3, BioAssumption DEF BioInv, CacheInv, CachedOnce
      <4>2. blockno[c] \in Block \/ blockno[c] = NoBlock
        BY DEF BioInv, TypeInv
      <4>3. /\ valid'[c] = valid[c] /\ dirty'[c] = dirty[c] /\ data'[c] = data[c]
            /\ blockno'[c] = blockno[c]
        BY <1>1, <1>2, <3>3
      <4> QED
        BY <1>1, <3>1, <4>1, <4>2, <4>3 DEF CacheOk, Synced
    <3> QED
      BY <3>2, <3>3
  <2> QED
    BY <2>1, <2>2 DEF CacheInv
<1>10. QueueInv'
  <2>1. \A i, j \in 1 .. Len(queue) : queue[i] = queue[j] => i = j
    BY DEF BioInv, QueueInv
  <2>2. \A c : InQueue(c)' => InQueue(c) /\ c # b
    <3> SUFFICES ASSUME NEW i \in 1 .. Len(queue')
                 PROVE  InQueue(queue'[i]) /\ queue'[i] # b
      BY DEF InQueue
    <3>1. i + 1 \in 1 .. Len(queue) /\ queue'[i] = queue[i + 1] /\ i + 1 # 1
      BY <1>3
    <3> QED
      BY <1>3, <2>1, <3>1 DEF InQueue
  <2>3. \A c : InQueue(c) /\ c # b => InQueue(c)'
    <3> SUFFICES ASSUME NEW i \in 1 .. Len(queue), queue[i] # b
                 PROVE  \E j \in 1 .. Len(queue') : queue'[j] = queue[i]
      BY DEF InQueue
    <3>1. i - 1 \in 1 .. Len(queue') /\ (i - 1) + 1 = i
      BY <1>3
    <3> QED
      BY <1>3, <3>1
  <2>4. \A i, j \in 1 .. Len(queue') : queue'[i] = queue'[j] => i = j
    <3> SUFFICES ASSUME NEW i \in 1 .. Len(queue'), NEW j \in 1 .. Len(queue'),
                        queue'[i] = queue'[j]
                 PROVE  i = j
      OBVIOUS
    <3>1. i + 1 = j + 1
      BY <1>3, <2>1
    <3> QED
      BY <3>1
  <2>5. ASSUME NEW c \in Buf, InQueue(c)'
        PROVE  owner'[c] # NoProc /\ pc'[owner'[c]] \in {"io_sleep", "io_wait"} /\ ~Synced(c)'
    <3>1. InQueue(c) /\ c # b
      BY <2>2, <2>5
    <3>2. /\ owner[c] \in Proc /\ owner[c] # NoProc /\ ~Synced(c)
          /\ pc[owner[c]] \in {"io_sleep", "io_wait"}
      BY <3>1 DEF BioInv, TypeInv, QueueInv
    <3>3. ~Synced(c)'
      BY <1>1, <3>1, <3>2 DEF Synced
    <3> QED
      BY <1>2, <1>4, <3>2, <3>3
  <2>6. ASSUME NEW q \in Proc,
               pc'[q] = "io_sleep" \/ (pc'[q] = "io_wait" /\ ~Synced(buf[q])')
        PROVE  InQueue(buf[q])'
    <3>1. buf'[q] = buf[q] /\ buf[q] # b /\ pc'[q] = pc[q]
      BY <1>1, <1>2, <1>4, <2>6, SMTT(30) DEF Synced
    <3>2. buf[q] \in Buf
      BY <2>6, <3>1 DEF BioInv, ProcInv, ProcOk, Busy, Holding
    <3>3. Synced(buf[q])' = Synced(buf[q])
      BY <1>1, <3>1, <3>2 DEF Synced
    <3>4. InQueue(buf[q])
      BY <2>6, <3>1, <3>3 DEF BioInv, QueueInv
    <3> QED
      BY <2>3, <3>1, <3>4, SMTT(30)
  <2>7. FirstIsActive'
    <3>1. CASE queue' = <<>>
      BY <1>2, <3>1 DEF FirstIsActive, Following
    <3>2. CASE queue' # <<>>
      <4>1. Head(queue') = queue'[1] /\ 1 \in 1 .. Len(queue') /\ Head(queue') \in Buf
        BY <1>3, <3>2, HeadIsFirst
      <4>2. PICK c \in Buf : c = Head(queue')
        BY <4>1
      <4>3. InQueue(c)'
        BY <4>1, <4>2 DEF InQueue
      <4>4. c # b
        BY <2>2, <4>3
      <4>5. cmd' = idestart(c)
        BY <1>2, <3>2, <4>2, SMTT(30) DEF Following
      <4>6. cmd' = IF dirty'[c] THEN [write |-> TRUE, no |-> blockno'[c], data |-> data'[c]]
                               ELSE [write |-> FALSE, no |-> blockno'[c]]
        BY <1>1, <1>2, <4>4, <4>5 DEF idestart
      <4> QED
        BY <3>2, <4>2, <4>6 DEF FirstIsActive, idestart
    <3> QED
      BY <3>1, <3>2
  <2> QED
    BY <2>4, <2>5, <2>6, <2>7 DEF QueueInv
<1> QED
  BY <1>5, <1>6, <1>7, <1>8, <1>9, <1>10 DEF BioInv

-----------------------------------------------------------------------------
\* Every step preserves the invariant.
LEMMA BioNext == BioInv /\ [Next]_vars => BioInv'
<1> SUFFICES ASSUME BioInv, [Next]_vars PROVE BioInv'
  OBVIOUS
<1>1. CASE UNCHANGED vars
  <2>1. TypeInv' /\ RefInv' /\ CacheInv'
    BY <1>1, SameRefs, SameCache DEF BioInv, TypeInv
  <2>2. ProcInv' /\ OwnerInv'
    BY <1>1, SMTT(30) DEF BioInv, ProcInv, ProcOk, Synced, OwnerInv
  <2>3. QueueInv'
    BY <1>1, Zenon DEF BioInv, QueueInv, InQueue, Synced, FirstIsActive, idestart
  <2> QED
    BY <2>1, <2>2, <2>3 DEF BioInv
<1>2. CASE \E p \in Proc, k \in Block : bget(p, k)
  BY <1>2, BgetStep
<1>3. CASE \E p \in Proc, v \in Value : log_write(p, v) \/ bwrite(p, v)
  BY <1>3, LogWriteStep, BwriteStep
<1>4. CASE \E p \in Proc : acquiresleep(p) \/ brelse(p) \/ iderw(p) \/ iderw_wait(p)
  BY <1>4, AcquiresleepStep, BrelseStep, IderwStep, IderwWaitStep
<1>5. CASE \E p \in Proc : releasesleep(p) \/ kill(p)
  BY <1>5, ReleasesleepStep, KillStep
<1>6. CASE ideintr
  BY <1>6, IdeintrStep
<1> QED
  BY <1>1, <1>2, <1>3, <1>4, <1>5, <1>6 DEF Next, Kernel

\* The inductive invariant holds in every reachable state.
THEOREM BioInvariant == Spec => []BioInv
BY BioInit, BioNext, PTL DEF Spec

\* The history of failed reads names only blocks that the disk may fail to
\* read: ideintr() adds no other.
LEMMA FailuresKnown == Spec => [](bad \subseteq Flaky)
<1>1. Init => bad \subseteq Flaky
  BY DEF Init
<1>2. bad \subseteq Flaky /\ [Next]_vars => (bad \subseteq Flaky)'
  <2> SUFFICES ASSUME bad \subseteq Flaky, [Next]_vars PROVE bad' \subseteq Flaky
    OBVIOUS
  <2>1. CASE UNCHANGED bad
    BY <2>1
  <2>2. CASE ideintr
    BY <2>2 DEF ideintr
  <2>3. ASSUME NEW p \in Proc, NEW k \in Block, bget(p, k) PROVE UNCHANGED bad
    BY <2>3 DEF bget, ide
  <2>4. ASSUME NEW p \in Proc, NEW v \in Value, log_write(p, v) \/ bwrite(p, v)
        PROVE  UNCHANGED bad
    BY <2>4 DEF log_write, bwrite, ide
  <2>5. ASSUME NEW p \in Proc, kill(p) \/ Kernel(p) \/ releasesleep(p) PROVE UNCHANGED bad
    BY <2>5 DEF kill, Kernel, releasesleep, acquiresleep, brelse, iderw, iderw_wait, ide
  <2> QED
    BY <2>1, <2>2, <2>3, <2>4, <2>5 DEF Next, Kernel, vars, ide
<1> QED
  BY <1>1, <1>2, PTL DEF Spec

\* The command of the disk is for a block: the first request in the queue is
\* for a buffer that its owner has asked for by number.
LEMMA CommandTyped == BioInv => cmd \in Command
<1> SUFFICES ASSUME BioInv PROVE cmd \in Command
  OBVIOUS
<1>1. CASE queue = <<>>
  BY <1>1, Zenon DEF BioInv, QueueInv, FirstIsActive, Command
<1>2. CASE queue # <<>>
  <2>1. PICK b \in Buf : b = Head(queue) /\ InQueue(b)
    BY <1>2, HeadIsFirst DEF BioInv, TypeInv, InQueue
  <2>2. owner[b] \in Proc /\ pc[owner[b]] \in Busy /\ buf[owner[b]] = b
    BY <2>1 DEF BioInv, TypeInv, QueueInv, OwnerInv, Busy
  <2>3. blockno[b] \in Block /\ data[b] \in Value
    BY <2>2 DEF BioInv, TypeInv, ProcInv, ProcOk
  <2>4. cmd = idestart(b)
    BY <1>2, <2>1 DEF BioInv, QueueInv, FirstIsActive
  <2>5. CASE dirty[b]
    <3>1. cmd \in [write : {TRUE}, no : Block, data : Value]
      BY <2>3, <2>4, <2>5 DEF idestart
    <3> QED
      BY <3>1, Zenon DEF Command
  <2>6. CASE ~dirty[b]
    <3>1. cmd \in [write : {FALSE}, no : Block]
      BY <2>3, <2>4, <2>6 DEF idestart
    <3> QED
      BY <3>1, Zenon DEF Command
  <2> QED
    BY <2>5, <2>6
<1> QED
  BY <1>1, <1>2

\* Every variable of the buffer cache and of the driver keeps its type.
THEOREM BioTypeCorrect == Spec => []TypeOK
<1>1. BioInv /\ bad \subseteq Flaky => TypeOK
  <2> SUFFICES ASSUME BioInv, bad \subseteq Flaky PROVE TypeOK
    OBVIOUS
  <2>1. Busy \union {"idle", "no_buffers"} \subseteq Label
    BY DEF Busy, Holding, Label
  <2>2. pc \in [Proc -> Label]
    BY <2>1 DEF BioInv, TypeInv
  <2> QED
    BY <2>2, CommandTyped, Zenon DEF BioInv, TypeInv, TypeOK
<1> QED
  BY <1>1, BioInvariant, FailuresKnown, PTL

\* bget() under bcache.lock never puts a block into a second buffer.
THEOREM BlocksCachedOnce == Spec => []CachedOnce
<1>1. BioInv => CachedOnce
  BY DEF BioInv, CacheInv
<1> QED
  BY <1>1, BioInvariant, PTL

\* The sleep-lock gives a buffer one user from bread() to brelse(), through
\* the waits in iderw(), and no panic() but "bget: no buffers" is reached.
THEOREM BufferHasOneUser == Spec => []OneUser
<1>1. BioInv => OneUser
  BY Zenon DEF BioInv, TypeInv, ProcInv, ProcOk, OneUser, Busy, Holding
<1> QED
  BY <1>1, BioInvariant, PTL

\* The reference count keeps a buffer with its block while a process uses it
\* or waits for its lock.
THEOREM BufferKeepsBlock == Spec => []KeepsBlock
<1>1. BioInv => KeepsBlock
  BY DEF BioInv, ProcInv, ProcOk, KeepsBlock
<1> QED
  BY <1>1, BioInvariant, PTL

\* iderw() and ideintr() together start every request once, in order.
THEOREM DriverWorksOnFirst == Spec => []FirstIsActive
<1>1. BioInv => FirstIsActive
  BY DEF BioInv, QueueInv
<1> QED
  BY <1>1, BioInvariant, PTL

\* A process that sleeps in acquiresleep() or iderw() has a wakeup to come.
THEOREM SleepersHaveReason == Spec => []SleepsForReason
<1>1. BioInv => SleepsForReason
  <2> SUFFICES ASSUME BioInv, NEW p \in Proc
               PROVE  /\ pc[p] = "lock_sleep" => owner[buf[p]] # NoProc
                      /\ pc[p] = "io_sleep" => buf[p] \in Range(queue)
    BY DEF SleepsForReason
  <2>1. pc[p] = "lock_sleep" => owner[buf[p]] # NoProc
    BY DEF BioInv, ProcInv, ProcOk
  <2>2. pc[p] = "io_sleep" => InQueue(buf[p])
    BY DEF BioInv, QueueInv
  <2>3. DOMAIN queue = 1 .. Len(queue)
    BY DEF BioInv, TypeInv
  <2> QED
    BY <2>1, <2>2, <2>3 DEF InQueue, Range
<1> QED
  BY <1>1, BioInvariant, PTL

-----------------------------------------------------------------------------
(* The cache implements the store of blocks *)

\* What the mapping says of a cached block and of one that is not cached.
MapOk ==
    \A k \in Block :
        /\ \A b \in Buf : blockno[b] = k =>
              val[k] = (IF valid[b] THEN data[b] ELSE disk[k]) /\ holder[k] = owner[b]
        /\ Cached(k) = {} => val[k] = disk[k] /\ holder[k] = NoProc

\* The mapping is what MapOk says, because a block is cached once.
LEMMA Mapping == BioInv => MapOk
<1> SUFFICES ASSUME BioInv, NEW k \in Block
             PROVE  /\ \A b \in Buf : blockno[b] = k =>
                          /\ val[k] = (IF valid[b] THEN data[b] ELSE disk[k])
                          /\ holder[k] = owner[b]
                    /\ Cached(k) = {} => val[k] = disk[k] /\ holder[k] = NoProc
  BY DEF MapOk
<1>1. ASSUME NEW b \in Buf, blockno[b] = k
      PROVE  val[k] = (IF valid[b] THEN data[b] ELSE disk[k]) /\ holder[k] = owner[b]
  <2>1. \A c \in Buf : blockno[c] = k => c = b
    BY <1>1, BioAssumption DEF BioInv, CacheInv, CachedOnce
  <2>2. (CHOOSE c \in Buf : blockno[c] = k) = b
    BY <1>1, <2>1
  <2>3. Cached(k) = {b} /\ (CHOOSE c \in Cached(k) : TRUE) = b
    BY <1>1, <2>1 DEF Cached
  <2>4. (\E c \in Buf : blockno[c] = k /\ (valid[c] \/ dirty[c])) <=> valid[b]
    BY <1>1, <2>1 DEF BioInv, CacheInv, CacheOk
  <2>5. val[k] = (IF valid[b] THEN data[b] ELSE disk[k])
    BY <2>2, <2>4, Zenon DEF val
  <2>6. holder[k] = owner[b]
    BY <2>3 DEF holder
  <2> QED
    BY <2>5, <2>6
<1>2. ASSUME Cached(k) = {} PROVE val[k] = disk[k] /\ holder[k] = NoProc
  BY <1>2 DEF Cached, val, holder
<1> QED
  BY <1>1, <1>2

\* The mapped contents are values.
LEMMA MapTypes == BioInv => val \in [Block -> Value]
<1> SUFFICES ASSUME BioInv, NEW k \in Block PROVE val[k] \in Value
  BY DEF val
<1>1. MapOk
  BY Mapping
<1>2. CASE \E b \in Buf : blockno[b] = k
  BY <1>1, <1>2 DEF MapOk, BioInv, TypeInv
<1>3. CASE ~\E b \in Buf : blockno[b] = k
  BY <1>1, <1>3 DEF MapOk, Cached, BioInv, TypeInv
<1> QED
  BY <1>2, <1>3

\* The two state functions are functions of blocks.
LEMMA ValFunction == val = [j \in Block |-> val[j]]
BY DEF val

LEMMA HolderFunction == holder = [j \in Block |-> holder[j]]
BY DEF holder

\* What the users and the contents of the blocks depend on.
LEMMA HolderSame == ASSUME UNCHANGED <<blockno, owner>> PROVE holder' = holder
BY DEF holder, Cached

LEMMA ValSame == ASSUME UNCHANGED <<blockno, valid, dirty, data, disk>> PROVE val' = val
BY DEF val

\* A step that changes nothing the mapping looks at is no step of the store.
LEMMA StoreSame ==
    ASSUME UNCHANGED <<blockno, valid, dirty, data, disk, owner, bad>>
    PROVE  UNCHANGED Store!vars
BY HolderSame, ValSame DEF Store!vars

\* The users of blocks when one lock changes hands.
LEMMA HolderStep ==
    ASSUME BioInv, BioInv', UNCHANGED blockno, NEW b \in Buf, blockno[b] \in Block, NEW x,
           owner' = [owner EXCEPT ![b] = x]
    PROVE  holder[blockno[b]] = owner[b] /\ holder' = [holder EXCEPT ![blockno[b]] = x]
<1>1. MapOk
  BY Mapping
<1>2. MapOk'
  BY Mapping, PTL
<1>3. \A c \in Buf : owner'[c] = IF c = b THEN x ELSE owner[c]
  BY DEF BioInv, TypeInv
<1>4. ASSUME NEW j \in Block PROVE holder'[j] = IF j = blockno[b] THEN x ELSE holder[j]
  <2>1. CASE j = blockno[b]
    BY <1>2, <1>3, <2>1 DEF MapOk
  <2>2. CASE j # blockno[b] /\ \E c \in Buf : blockno[c] = j
    <3>1. PICK c \in Buf : blockno[c] = j
      BY <2>2
    <3>2. c # b /\ holder[j] = owner[c] /\ holder'[j] = owner'[c]
      BY <1>1, <1>2, <2>2, <3>1 DEF MapOk
    <3> QED
      BY <1>3, <2>2, <3>2
  <2>3. CASE j # blockno[b] /\ ~\E c \in Buf : blockno[c] = j
    <3>1. Cached(j) = {} /\ Cached(j)' = {}
      BY <2>3 DEF Cached
    <3>2. holder[j] = NoProc /\ holder'[j] = NoProc
      BY <1>1, <1>2, <3>1 DEF MapOk
    <3> QED
      BY <2>3, <3>2
  <2> QED
    BY <2>1, <2>2, <2>3
<1>a. (holder = [j \in Block |-> holder[j]])'
  BY HolderFunction, PTL
<1>5. holder' = [j \in Block |-> holder'[j]] /\ holder = [j \in Block |-> holder[j]]
  BY <1>a, HolderFunction
<1>6. holder' = [holder EXCEPT ![blockno[b]] = x]
  BY <1>4, <1>5
<1> QED
  BY <1>1, <1>6 DEF MapOk

\* The contents of blocks when one buffer and its block change.
LEMMA ValStep ==
    ASSUME BioInv, BioInv', UNCHANGED blockno, NEW b \in Buf, blockno[b] \in Block,
           \A c \in Buf : c # b => valid'[c] = valid[c] /\ data'[c] = data[c],
           \A k \in Block : k # blockno[b] => disk'[k] = disk[k]
    PROVE  /\ val[blockno[b]] = IF valid[b] THEN data[b] ELSE disk[blockno[b]]
           /\ val' = [val EXCEPT ![blockno[b]] = IF valid'[b] THEN data'[b] ELSE disk'[blockno[b]]]
<1> DEFINE v == IF valid'[b] THEN data'[b] ELSE disk'[blockno[b]]
<1>1. MapOk
  BY Mapping
<1>2. MapOk'
  BY Mapping, PTL
<1>3. ASSUME NEW j \in Block PROVE val'[j] = IF j = blockno[b] THEN v ELSE val[j]
  <2>1. CASE j = blockno[b]
    BY <1>2, <2>1 DEF MapOk
  <2>2. CASE j # blockno[b] /\ \E c \in Buf : blockno[c] = j
    <3>1. PICK c \in Buf : blockno[c] = j
      BY <2>2
    <3>2. /\ c # b /\ val[j] = IF valid[c] THEN data[c] ELSE disk[j]
      BY <1>1, <2>2, <3>1 DEF MapOk
    <3>3. val'[j] = IF valid'[c] THEN data'[c] ELSE disk'[j]
      BY <1>2, <3>1 DEF MapOk
    <3> QED
      BY <2>2, <3>2, <3>3
  <2>3. CASE j # blockno[b] /\ ~\E c \in Buf : blockno[c] = j
    <3>1. Cached(j) = {} /\ Cached(j)' = {}
      BY <2>3 DEF Cached
    <3>2. val[j] = disk[j] /\ val'[j] = disk'[j]
      BY <1>1, <1>2, <3>1 DEF MapOk
    <3> QED
      BY <2>3, <3>2
  <2> QED
    BY <2>1, <2>2, <2>3
<1>a. (val = [j \in Block |-> val[j]])'
  BY ValFunction, PTL
<1>4. val' = [j \in Block |-> val'[j]] /\ val = [j \in Block |-> val[j]]
  BY <1>a, ValFunction
<1> HIDE DEF v
<1>5. val' = [val EXCEPT ![blockno[b]] = v]
  BY <1>3, <1>4
<1> QED
  BY <1>1, <1>5 DEF MapOk, v

\* Recycling a buffer shows a block as it is on the disk, which differs from
\* the buffer only if the disk has failed to read that block.
LEMMA MissRefines ==
    ASSUME BioInv, BioInv', NEW p \in Proc, NEW k \in Block, NEW b \in Buf,
           Take(p, k, b), Miss(p, k, b)
    PROVE  [Store!Next]_(Store!vars)
<1>1. MapOk
  BY Mapping
<1>2. MapOk'
  BY Mapping, PTL
<1>3. /\ \A c \in Buf : blockno'[c] = (IF c = b THEN k ELSE blockno[c])
      /\ \A c \in Buf : c # b => valid'[c] = valid[c] /\ dirty'[c] = dirty[c]
      /\ ~valid'[b] /\ ~dirty'[b] /\ ~dirty[b] /\ \A c \in Buf : blockno[c] # k
      /\ UNCHANGED <<data, disk, owner, bad>>
  BY SMTT(30) DEF Take, Miss, Cached, BioInv, TypeInv
<1>4. owner[b] = NoProc
  BY ZeroUsers, UnusedUnlocked DEF Miss, BioInv
<1>5. \A c \in Buf : c # b /\ blockno[b] \in Block => blockno[c] # blockno[b]
  BY BioAssumption DEF BioInv, CacheInv, CachedOnce
<1>6. ASSUME NEW j \in Block
      PROVE  holder'[j] = holder[j] /\ val'[j] = IF j = blockno[b] THEN disk[j] ELSE val[j]
  <2>1. CASE j = k
    <3>1. Cached(j) = {} /\ blockno[b] # j
      BY <1>3, <2>1 DEF Cached
    <3>2. holder[j] = NoProc /\ val[j] = disk[j]
      BY <1>1, <3>1 DEF MapOk
    <3>3. holder'[j] = owner'[b] /\ val'[j] = disk'[j]
      BY <1>2, <1>3, <2>1 DEF MapOk
    <3> QED
      BY <1>3, <1>4, <3>1, <3>2, <3>3
  <2>2. CASE j # k /\ \E c \in Buf : c # b /\ blockno[c] = j
    <3>1. PICK c \in Buf : c # b /\ blockno[c] = j
      BY <2>2
    <3>2. holder[j] = owner[c] /\ val[j] = IF valid[c] THEN data[c] ELSE disk[j]
      BY <1>1, <3>1 DEF MapOk
    <3>3. holder'[j] = owner'[c] /\ val'[j] = IF valid'[c] THEN data'[c] ELSE disk'[j]
      BY <1>2, <1>3, <3>1 DEF MapOk
    <3> QED
      BY <1>3, <1>5, <3>1, <3>2, <3>3
  <2>3. CASE j # k /\ ~\E c \in Buf : c # b /\ blockno[c] = j
    <3>1. Cached(j)' = {}
      BY <1>3, <2>3 DEF Cached
    <3>2. holder'[j] = NoProc /\ val'[j] = disk'[j]
      BY <1>2, <3>1 DEF MapOk
    <3>3. CASE j = blockno[b]
      BY <1>1, <1>3, <1>4, <3>2, <3>3 DEF MapOk
    <3>4. CASE j # blockno[b]
      <4>1. Cached(j) = {}
        BY <2>3, <3>4 DEF Cached
      <4> QED
        BY <1>1, <1>3, <3>2, <3>4, <4>1 DEF MapOk
    <3> QED
      BY <3>3, <3>4
  <2> QED
    BY <2>1, <2>2, <2>3
<1>a. (holder = [j \in Block |-> holder[j]])' /\ (val = [j \in Block |-> val[j]])'
  BY HolderFunction, ValFunction, PTL
<1>7. /\ holder' = [j \in Block |-> holder'[j]] /\ holder = [j \in Block |-> holder[j]]
      /\ val' = [j \in Block |-> val'[j]] /\ val = [j \in Block |-> val[j]]
  BY <1>a, HolderFunction, ValFunction
<1>8. holder' = holder
  BY <1>6, <1>7
<1>9. CASE blockno[b] \in Block /\ blockno[b] \in bad
  <2>1. val' = [val EXCEPT ![blockno[b]] = disk[blockno[b]]]
    BY <1>6, <1>7, <1>9
  <2>2. bad' = bad \union {blockno[b]} /\ disk[blockno[b]] \in Value
    BY <1>3, <1>9 DEF BioInv, TypeInv
  <2>3. Store!Fault(blockno[b], disk[blockno[b]])
    BY <1>8, <2>1, <2>2 DEF Store!Fault
  <2> QED
    BY <1>9, <2>2, <2>3 DEF Store!Next
<1>10. CASE ~(blockno[b] \in Block /\ blockno[b] \in bad)
  <2>1. ASSUME NEW j \in Block, j = blockno[b] PROVE val[j] = disk[j]
    <3>1. CacheOk(b)
      BY DEF BioInv, CacheInv
    <3>2. val[j] = IF valid[b] THEN data[b] ELSE disk[j]
      BY <1>1, <2>1 DEF MapOk
    <3> QED
      BY <1>3, <1>10, <2>1, <3>1, <3>2 DEF CacheOk, Synced
  <2>2. val' = val
    BY <1>6, <1>7, <2>1
  <2> QED
    BY <1>3, <1>8, <2>2 DEF Store!vars
<1> QED
  BY <1>9, <1>10

\* Taking the lock of a buffer is taking its block.
LEMMA AcquiresleepRefines ==
    ASSUME BioInv, BioInv', NEW p \in Proc, acquiresleep(p)
    PROVE  [Store!Next]_(Store!vars)
<1>1. buf[p] \in Buf /\ blockno[buf[p]] \in Block
  BY DEF acquiresleep, BioInv, ProcInv, ProcOk, Busy
<1>2. CASE owner[buf[p]] = NoProc
  <2>1. /\ owner' = [owner EXCEPT ![buf[p]] = p]
        /\ UNCHANGED <<blockno, valid, dirty, data, disk, bad>>
    BY <1>2 DEF acquiresleep
  <2>2. PICK k \in Block : k = blockno[buf[p]]
    BY <1>1
  <2>3. holder[k] = NoProc /\ holder' = [holder EXCEPT ![k] = p]
    BY <1>1, <1>2, <2>1, <2>2, HolderStep, Zenon
  <2>4. val' = val
    BY <2>1, ValSame
  <2>5. Store!Get(p, k)
    BY <2>1, <2>3, <2>4 DEF Store!Get
  <2> QED
    BY <2>5 DEF Store!Next
<1>3. CASE owner[buf[p]] # NoProc
  BY <1>3, StoreSame DEF acquiresleep
<1> QED
  BY <1>2, <1>3

\* Releasing the lock of a buffer is giving its block back.
LEMMA ReleasesleepRefines ==
    ASSUME BioInv, BioInv', NEW p \in Proc, releasesleep(p)
    PROVE  [Store!Next]_(Store!vars)
<1>1. buf[p] \in Buf /\ blockno[buf[p]] \in Block /\ owner[buf[p]] = p
  BY DEF releasesleep, BioInv, ProcInv, ProcOk, Busy, Holding
<1>2. /\ owner' = [owner EXCEPT ![buf[p]] = NoProc]
      /\ UNCHANGED <<blockno, valid, dirty, data, disk, bad>>
  BY <1>1 DEF releasesleep
<1>3. PICK k \in Block : k = blockno[buf[p]]
  BY <1>1
<1>4. holder[k] = p /\ holder' = [holder EXCEPT ![k] = NoProc]
  BY <1>1, <1>2, <1>3, HolderStep, Zenon
<1>5. val' = val
  BY <1>2, ValSame
<1>6. Store!Put(p, k)
  BY <1>2, <1>4, <1>5 DEF Store!Put
<1> QED
  BY <1>6 DEF Store!Next

\* The common part of log_write() and bwrite().
LEMMA WriteRefines ==
    ASSUME BioInv, BioInv', NEW p \in Proc, NEW v \in Value, pc[p] = "use",
           data' = [data EXCEPT ![buf[p]] = v],
           UNCHANGED <<blockno, valid, owner, disk, bad>>
    PROVE  [Store!Next]_(Store!vars)
<1>1. /\ buf[p] \in Buf /\ blockno[buf[p]] \in Block
      /\ owner[buf[p]] = p /\ valid[buf[p]]
  BY DEF BioInv, ProcInv, ProcOk, Busy, Holding
<1>2. PICK b \in Buf : b = buf[p]
  BY <1>1
<1>3. PICK k \in Block : k = blockno[b]
  BY <1>1, <1>2
<1>4. data'[b] = v /\ \A c \in Buf : c # b => data'[c] = data[c]
  BY <1>2 DEF BioInv, TypeInv
<1>5. val' = [val EXCEPT ![k] = v]
  BY <1>1, <1>2, <1>3, <1>4, ValStep
<1>6. holder[k] = p
  <2>1. MapOk
    BY Mapping
  <2> QED
    BY <1>1, <1>2, <1>3, <2>1 DEF MapOk
<1>7. holder' = holder
  BY HolderSame
<1>8. Store!Write(p, k, v)
  BY <1>5, <1>6, <1>7 DEF Store!Write
<1> QED
  BY <1>8 DEF Store!Next

\* A finished request changes no contents, unless a read has failed.
LEMMA IdeintrRefines ==
    ASSUME BioInv, BioInv', ideintr
    PROVE  [Store!Next]_(Store!vars)
<1>1. PICK b : b = Head(queue)
  OBVIOUS
<1>2. /\ b \in Buf /\ ~Synced(b) /\ blockno[b] \in Block /\ cmd = idestart(b) /\ valid'[b]
      /\ \A c \in Buf : c # b => valid'[c] = valid[c] /\ data'[c] = data[c]
      /\ \A k \in Block : k # blockno[b] => disk'[k] = disk[k]
      /\ data' \in [Buf -> Value]
  BY <1>1, IdeintrEffect
<1>3. UNCHANGED <<blockno, owner>>
  BY DEF ideintr
<1>4. PICK k \in Block : k = blockno[b]
  BY <1>2
<1>5. /\ val[k] = IF valid[b] THEN data[b] ELSE disk[k]
      /\ val' = [val EXCEPT ![k] = data'[b]]
  BY <1>2, <1>3, <1>4, ValStep
<1>6. holder' = holder
  BY <1>3, HolderSame
<1>7. cmd.no = k
  BY <1>2, <1>4 DEF idestart
<1>8. \/ dirty[b] /\ data' = data /\ bad' = bad
      \/ ~dirty[b] /\ data' = [data EXCEPT ![b] = disk[k]] /\ bad' = bad
      \/ bad' = bad \union {k}
  BY <1>1, <1>7 DEF ideintr
<1>9. val \in [Block -> Value]
  BY MapTypes
<1>10. CASE dirty[b] /\ data' = data /\ bad' = bad
  <2>1. valid[b]
    BY <1>2, <1>10 DEF BioInv, CacheInv, CacheOk
  <2>2. val' = val
    BY <1>5, <1>9, <1>10, <2>1
  <2> QED
    BY <1>6, <1>10, <2>2, SMTT(30) DEF Store!vars
<1>11. CASE ~dirty[b] /\ data' = [data EXCEPT ![b] = disk[k]] /\ bad' = bad
  <2>1. ~valid[b] /\ data'[b] = disk[k]
    BY <1>2, <1>11 DEF Synced, BioInv, TypeInv
  <2>2. val' = val
    BY <1>5, <1>9, <2>1
  <2> QED
    BY <1>6, <1>11, <2>2 DEF Store!vars
<1>12. CASE bad' = bad \union {k}
  <2>1. data'[b] \in Value
    BY <1>2
  <2>2. Store!Fault(k, data'[b])
    BY <1>5, <1>6, <1>12 DEF Store!Fault
  <2> QED
    BY <2>1, <2>2, SMTT(30) DEF Store!Next
<1> QED
  BY <1>8, <1>10, <1>11, <1>12

\* bget() is no step of the store, or recycles.
LEMMA BgetRefines ==
    ASSUME BioInv, BioInv', NEW p \in Proc, NEW k \in Block, bget(p, k)
    PROVE  [Store!Next]_(Store!vars)
<1>1. CASE \E b \in Buf : Take(p, k, b) /\ Hit(p, k, b)
  BY <1>1, StoreSame DEF Take, Hit
<1>2. CASE \E b \in Buf : Take(p, k, b) /\ Miss(p, k, b)
  BY <1>2, MissRefines
<1>3. CASE Exhausted(p)
  BY <1>3, StoreSame DEF Exhausted
<1> QED
  BY <1>1, <1>2, <1>3, BgetCases DEF BioInv

\* Every step of the cache is one of the store, or none.
LEMMA StepRefines == BioInv /\ BioInv' /\ [Next]_vars => [Store!Next]_(Store!vars)
<1> SUFFICES ASSUME BioInv, BioInv', [Next]_vars PROVE [Store!Next]_(Store!vars)
  OBVIOUS
<1>1. CASE UNCHANGED vars
  BY <1>1, StoreSame
<1>2. CASE \E p \in Proc, k \in Block : bget(p, k)
  BY <1>2, BgetRefines
<1>3. CASE \E p \in Proc, v \in Value : log_write(p, v)
  BY <1>3, WriteRefines, Zenon DEF log_write
<1>4. CASE \E p \in Proc, v \in Value : bwrite(p, v)
  <2>1. PICK p \in Proc, v \in Value : bwrite(p, v)
    BY <1>4
  <2>2. owner[buf[p]] = p
    BY <2>1 DEF bwrite, BioInv, ProcInv, ProcOk, Holding
  <2> QED
    BY <2>1, <2>2, WriteRefines DEF bwrite
<1>5. CASE \E p \in Proc : acquiresleep(p)
  BY <1>5, AcquiresleepRefines
<1>6. CASE \E p \in Proc : releasesleep(p)
  BY <1>6, ReleasesleepRefines
<1>7. CASE \E p \in Proc : brelse(p) \/ iderw(p) \/ iderw_wait(p) \/ kill(p)
  BY <1>7, StoreSame DEF brelse, iderw, iderw_wait, kill
<1>8. CASE ideintr
  BY <1>8, IdeintrRefines
<1> QED
  BY <1>1, <1>2, <1>3, <1>4, <1>5, <1>6, <1>7, <1>8 DEF Next, Kernel

\* The initial states are those of the store.
LEMMA InitRefines == Init => Store!Init
<1> SUFFICES ASSUME Init PROVE Store!Init
  OBVIOUS
<1>1. BioInv
  BY BioInit
<1>2. val \in [Block -> Value]
  BY <1>1, MapTypes
<1>3. \A k \in Block : Cached(k) = {}
  BY BioAssumption DEF Init, Cached
<1>4. holder = [k \in Block |-> NoProc]
  BY <1>3 DEF holder
<1> QED
  BY <1>2, <1>4 DEF Init, Store!Init

\* Whatever the cache recycles, reads, pins and writes, its users see a store
\* of blocks with one user each: no update is lost and no old contents are
\* shown, unless the disk has failed to read the block.
THEOREM CacheIsStore == Spec => IsBlockStore
BY InitRefines, StepRefines, BioInvariant, PTL DEF Spec, IsBlockStore, Store!Spec
=============================================================================
