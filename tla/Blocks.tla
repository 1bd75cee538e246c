------------------------------- MODULE Blocks -------------------------------
(***************************************************************************)
(* The contents of files: the image that mkfs.c builds, the allocation of  *)
(* blocks, direct and indirect blocks, readi(), writei() and itrunc() of   *)
(* fs.c, and fileread() and filewrite() of file.c with their offsets.      *)
(*                                                                         *)
(* Processes read and write files through file structures, which they may  *)
(* share.  One turn of the loop of writei() is a step; the sleep-lock of   *)
(* the inode is held from one to the next.  A block is a function from     *)
(* positions to words: bytes of a file, or numbers of blocks.              *)
(***************************************************************************)
EXTENDS Integers, Sequences, SequencesExt, FiniteSets, FiniteSetsExt

CONSTANTS
    Proc,         \* processes
    NoProc,       \* "not locked"
    BSIZE,        \* words in a block
    NDIRECT,      \* direct blocks of an inode
    LOGSIZE,      \* blocks of the log
    IPB,          \* inodes in a block
    FSSIZE,       \* blocks of the disk
    BPB,          \* bits in a block of the bitmap
    MAXOPBLOCKS,  \* blocks that a system call may log
    NINODES,      \* inodes of the disk
    Images,       \* contents of the files that mkfs puts on the disk
    File,         \* file structures: the inode number of each
    WriteLen,     \* lengths of the calls of write()
    ReadLen       \* lengths of the calls of read()

BlocksAssumption ==
    /\ NoProc \notin Proc
    /\ {BSIZE, NINODES, NDIRECT, LOGSIZE, IPB, BPB, MAXOPBLOCKS} \union WriteLen \union ReadLen \subseteq Nat \ {0}
    /\ FSSIZE \in Nat

VARIABLES
    bitmap,   \* the blocks marked in use
    blk,      \* the contents of the data blocks
    dinode,   \* the inodes on the disk
    inode,    \* the cached inodes
    lock,     \* of each inode, the process that has it locked
    off,      \* the offset of each file structure
    frame,    \* what each process is doing
    logged,   \* the blocks that the transaction of each process has logged
    want,     \* history: what each file should hold
    panicked  \* the message of the panic that stopped the machine

vars == <<bitmap, blk, dinode, inode, lock, off, frame, logged, want, panicked>>

\* The disk: boot block, superblock, log, inodes, bitmap, data.
nbitmap == FSSIZE \div BPB + 1
ninodeblocks == NINODES \div IPB + 1
NMETA == 2 + LOGSIZE + ninodeblocks + nbitmap
inodestart == 2 + LOGSIZE
bmapstart == 2 + LOGSIZE + ninodeblocks
IBLOCK(i) == i \div IPB + inodestart
BBLOCK(b) == b \div BPB + bmapstart

NINDIRECT == BSIZE
MAXFILE == NDIRECT + NINDIRECT
Block == NMETA .. FSSIZE - 1
Word == 0 .. BSIZE - 1
Zeroes == [w \in Word |-> 0]
ROOTINO == 1
Inum == 1 .. NINODES
NoAddrs == [n \in 0 .. NDIRECT |-> 0]
EmptyInode == [size |-> 0, addrs |-> NoAddrs]
Idle == [pc |-> "idle", f |-> 0, n |-> 0, i |-> 0, tot |-> 0, n1 |-> 0]
MinOf(a, b) == IF a < b THEN a ELSE b

-----------------------------------------------------------------------------
(* mkfs.c *)

\* Where iappend() puts word number o of an inode d of image im, with the
\* blocks it takes from freeblock.
mkfs_bmap(im, d, o) ==
    LET fbn == o \div BSIZE
        new == [im EXCEPT !.free = @ + 1]
    IN IF fbn < NDIRECT
       THEN IF d.addrs[fbn] # 0 THEN [im |-> im, d |-> d, x |-> d.addrs[fbn]]
            ELSE [im |-> new, d |-> [d EXCEPT !.addrs[fbn] = im.free], x |-> im.free]
       ELSE LET t == IF d.addrs[NDIRECT] # 0 THEN im ELSE new
                e == IF d.addrs[NDIRECT] # 0 THEN d ELSE [d EXCEPT !.addrs[NDIRECT] = im.free]
                a == e.addrs[NDIRECT]
                x == t.blk[a][fbn - NDIRECT]
            IN IF x # 0 THEN [im |-> t, d |-> e, x |-> x]
               ELSE [im |-> [t EXCEPT !.free = @ + 1, !.blk[a][fbn - NDIRECT] = t.free],
                     d |-> e, x |-> t.free]

\* iappend() of one word w to inode i of image im.
iappend(im, i, w) ==
    LET d == im.dinode[i]
        b == mkfs_bmap(im, d, d.size)
    IN [b.im EXCEPT !.blk[b.x][d.size % BSIZE] = w,
                    !.dinode[i] = [b.d EXCEPT !.size = d.size + 1]]

\* The size that main() gives the root directory at the end.
RootSize(n) == ((n \div BSIZE) + 1) * BSIZE

\* main(): the root directory has a word for each of ".", ".." and the files;
\* then the files are appended.
mkfs(files) ==
    LET empty == [free |-> NMETA, blk |-> [b \in Block |-> Zeroes],
                  dinode |-> [i \in Inum |-> EmptyInode]]
        dots == iappend(iappend(empty, ROOTINO, ROOTINO), ROOTINO, ROOTINO)
        addfile(im, k) == FoldLeft(LAMBDA x, w : iappend(x, k + 1, w),
                                   iappend(im, ROOTINO, k + 1), files[k])
        im == FoldLeft(addfile, dots, [k \in 1 .. Len(files) |-> k])
    IN [im EXCEPT !.dinode[ROOTINO].size = RootSize(@)]

\* balloc() of mkfs: the blocks below freeblock are in use.
mkfs_balloc(im) == 0 .. im.free - 1

-----------------------------------------------------------------------------
(* The contents of an inode, as a sequence of words *)

\* The block of an inode d, 0 if it has none.
Mapped(d, bn) ==
    IF bn < NDIRECT THEN d.addrs[bn]
    ELSE IF d.addrs[NDIRECT] \notin Block THEN 0 ELSE blk[d.addrs[NDIRECT]][bn - NDIRECT]

Contents(d) ==
    [k \in 1 .. d.size |->
        LET b == Mapped(d, (k - 1) \div BSIZE) IN IF b \notin Block THEN 0 ELSE blk[b][(k - 1) % BSIZE]]

Init ==
    \E files \in Images :
       LET im == mkfs(files)
       IN /\ bitmap = mkfs_balloc(im)
          /\ blk = im.blk
          /\ dinode = im.dinode
          /\ inode = im.dinode
          /\ lock = [i \in Inum |-> NoProc]
          /\ off = [f \in DOMAIN File |-> 0]
          /\ frame = [p \in Proc |-> Idle]
          /\ logged = [p \in Proc |-> {}]
          /\ want = [i \in Inum |-> IF i - 1 \in DOMAIN files THEN files[i - 1]
                                    ELSE IF i = ROOTINO
                                    THEN [k \in 1 .. im.dinode[i].size |->
                                            IF k <= 2 THEN ROOTINO
                                            ELSE IF k - 2 \in DOMAIN files THEN k - 1 ELSE 0]
                                    ELSE <<>>]
          /\ panicked = ""

-----------------------------------------------------------------------------
(* fs.c.  The disk is a record s; s.log is what the transaction has logged. *)

Disk(p) == [bitmap |-> bitmap, blk |-> blk, log |-> logged[p], ok |-> TRUE]

\* Mutant: a new block holds what a removed file has left in it.
bzero_Not(s, b) == [s EXCEPT !.log = @ \union {b}]

bzero(s, b) == [s EXCEPT !.blk[b] = Zeroes, !.log = @ \union {b}]

\* Block b, marked in the bitmap.
Marked(s, b) == [s EXCEPT !.bitmap = @ \union {b}, !.log = @ \union {BBLOCK(b)}]

\* balloc(): the first free block is marked and cleared.
FirstFree(s) == Min((0 .. FSSIZE - 1) \ s.bitmap)
balloc(s) ==
    IF 0 .. FSSIZE - 1 \subseteq s.bitmap THEN [s EXCEPT !.ok = FALSE]
    ELSE bzero(Marked(s, FirstFree(s)), FirstFree(s))

\* bmap() of block bn of inode d, for the caller of writei().
bmap(s, d, bn) ==
    IF bn < NDIRECT
    THEN IF d.addrs[bn] # 0 THEN [s |-> s, d |-> d, addr |-> d.addrs[bn]]
         ELSE LET t == balloc(s)
              IN IF ~t.ok THEN [s |-> t, d |-> d, addr |-> 0]
                 ELSE [s |-> t, d |-> [d EXCEPT !.addrs[bn] = FirstFree(s)], addr |-> FirstFree(s)]
    ELSE LET t == IF d.addrs[NDIRECT] # 0 THEN s ELSE balloc(s)
             e == IF d.addrs[NDIRECT] # 0 \/ ~t.ok THEN d ELSE [d EXCEPT !.addrs[NDIRECT] = FirstFree(s)]
             ind == e.addrs[NDIRECT]
             n == bn - NDIRECT
         IN IF ~t.ok THEN [s |-> t, d |-> e, addr |-> 0]
            ELSE IF t.blk[ind][n] # 0 THEN [s |-> t, d |-> e, addr |-> t.blk[ind][n]]
            ELSE LET u == balloc(t)
                 IN IF ~u.ok THEN [s |-> u, d |-> e, addr |-> 0]
                    ELSE [s |-> [u EXCEPT !.blk[ind][n] = FirstFree(t),
                                          !.log = @ \union {ind}],
                          d |-> e, addr |-> FirstFree(t)]

Running(p, l) == panicked = "" /\ frame[p].pc = l
panic(msg) ==
    /\ panicked' = msg
    /\ UNCHANGED <<bitmap, blk, dinode, inode, lock, off, frame, logged, want>>

\* filewrite(): a call that writes n words through file structure f.
filewrite(p, f, n) ==
    /\ Running(p, "idle")
    /\ frame' = [frame EXCEPT ![p] = [Idle EXCEPT !.pc = "chunk", !.f = f, !.n = n]]
    /\ UNCHANGED <<bitmap, blk, dinode, inode, lock, off, logged, want, panicked>>

\* Mutant: as many blocks as the log has room for, and none for the rest.
MaxChunk_Slop == (MAXOPBLOCKS - 1) * BSIZE

\* max: what is written in one transaction.
MaxChunk == ((MAXOPBLOCKS - 1 - 1 - 2) \div 2) * BSIZE

\* The checks of writei().
BadRange(d, o, n) == o > d.size \/ o + n > MAXFILE * BSIZE

\* One turn of the loop of filewrite(), up to the loop of writei(): a
\* transaction begins and the inode is locked.
chunk(p) ==
    LET fr == frame[p]
        i == File[fr.f]
        n1 == MinOf(fr.n - fr.i, MaxChunk)
        bad == BadRange(inode[i], off[fr.f], n1)
    IN /\ Running(p, "chunk") /\ lock[i] = NoProc
       /\ frame' = [frame EXCEPT ![p] = IF bad THEN Idle
                                        ELSE [fr EXCEPT !.pc = "writei", !.tot = 0, !.n1 = n1]]
       /\ lock' = IF bad THEN lock ELSE [lock EXCEPT ![i] = p]
       /\ UNCHANGED <<bitmap, blk, dinode, inode, off, logged, want, panicked>>

\* One turn of the loop of writei(): the words of one block.  What is
\* written to a file is its inode number.
writei(p) ==
    LET fr == frame[p]
        i == File[fr.f]
        o == off[fr.f] + fr.tot
        m == MinOf(fr.n1 - fr.tot, BSIZE - (o % BSIZE))
        b == bmap(Disk(p), inode[i], o \div BSIZE)
    IN /\ Running(p, "writei") /\ fr.tot < fr.n1
       /\ IF o \div BSIZE >= MAXFILE THEN panic("bmap: out of range")
          ELSE IF ~b.s.ok THEN panic("balloc: out of blocks")
          ELSE /\ bitmap' = b.s.bitmap
               /\ blk' = [b.s.blk EXCEPT ![b.addr] =
                            [w \in Word |-> IF w - (o % BSIZE) \in 0 .. m - 1 THEN i ELSE @[w]]]
               /\ logged' = [logged EXCEPT ![p] = b.s.log \union {b.addr}]
               /\ inode' = [inode EXCEPT ![i] = b.d]
               /\ frame' = [frame EXCEPT ![p].tot = fr.tot + m]
               /\ UNCHANGED <<dinode, lock, off, want, panicked>>

\* The words that a file holds once n words b are written at offset o.
Overwritten(c, o, n, b) ==
    [k \in 1 .. Max({Len(c), o + n}) |-> IF k \in o + 1 .. o + n THEN b ELSE c[k]]

\* The offset of the file structure after a chunk.
Advanced(p, fr) == [off EXCEPT ![fr.f] = @ + fr.n1]

\* The end of writei(), and the rest of the turn of the loop of filewrite():
\* the inode is unlocked and the transaction ends.
chunkEnd(p) ==
    LET fr == frame[p]
        i == File[fr.f]
        o == off[fr.f] + fr.n1
        d == [inode[i] EXCEPT !.size = o]
        more == fr.i + fr.n1 < fr.n
    IN /\ Running(p, "writei") /\ fr.tot = fr.n1
       /\ IF o > inode[i].size
          THEN /\ inode' = [inode EXCEPT ![i] = d]
               /\ dinode' = [dinode EXCEPT ![i] = d]
               /\ logged' = [logged EXCEPT ![p] = @ \union {IBLOCK(i)}]
          ELSE UNCHANGED <<inode, dinode, logged>>
       /\ want' = [want EXCEPT ![i] = Overwritten(@, off[fr.f], fr.n1, i)]
       /\ off' = Advanced(p, fr)
       /\ lock' = [lock EXCEPT ![i] = NoProc]
       /\ frame' = [frame EXCEPT ![p] = [fr EXCEPT !.pc = "commit", !.i = IF more THEN fr.i + fr.n1 ELSE fr.n]]
       /\ UNCHANGED <<bitmap, blk, panicked>>

\* end_op()
end_op(p) ==
    /\ Running(p, "commit")
    /\ logged' = [logged EXCEPT ![p] = {}]
    /\ frame' = [frame EXCEPT ![p] = IF frame[p].i < frame[p].n THEN [frame[p] EXCEPT !.pc = "chunk"] ELSE Idle]
    /\ UNCHANGED <<bitmap, blk, dinode, inode, lock, off, want, panicked>>

\* How much readi() reads: nothing beyond the end of the file.
ReadLength(d, o, n) == IF o > d.size THEN 0 ELSE MinOf(n, d.size - o)

\* fileread(): readi() under the lock of the inode.  bmap() finds every
\* block below the end of the file (NoHoles), so it allocates none.
fileread(p, f, n) ==
    LET i == File[f]
        r == ReadLength(inode[i], off[f], n)
    IN /\ Running(p, "idle") /\ lock[i] = NoProc
       /\ off' = [off EXCEPT ![f] = @ + r]
       /\ frame' = [frame EXCEPT ![p] =
                      [Idle EXCEPT !.pc = "read", !.f = f, !.n = off[f], !.i = r]]
       /\ UNCHANGED <<bitmap, blk, dinode, inode, lock, logged, want, panicked>>

\* The call returns to the process.
readReturn(p) ==
    /\ Running(p, "read")
    /\ frame' = [frame EXCEPT ![p] = Idle]
    /\ UNCHANGED <<bitmap, blk, dinode, inode, lock, off, logged, want, panicked>>

-----------------------------------------------------------------------------
(* Removing a file *)

\* The blocks that itrunc() frees: the direct ones, those of the indirect
\* block and the indirect block itself.
Owned(d) ==
    LET ind == d.addrs[NDIRECT]
    IN SelectSeq([n \in 1 .. NDIRECT |-> d.addrs[n - 1]]
                 \o (IF ind = 0 THEN <<>>
                     ELSE [n \in 1 .. NINDIRECT |-> blk[ind][n - 1]] \o <<ind>>),
                 LAMBDA b : b # 0)

\* bfree()
bfree(s, b) == IF b \in s.bitmap THEN [s EXCEPT !.bitmap = @ \ {b}, !.log = @ \union {BBLOCK(b)}]
               ELSE [s EXCEPT !.ok = FALSE]

\* itrunc() of an inode that no file structure is using any more; its number
\* is allocated again, to an empty file that the file structures open.
itrunc(p, i) ==
    LET s == FoldLeft(bfree, Disk(p), Owned(inode[i]))
        fs == {f \in DOMAIN File : File[f] = i}
    IN /\ Running(p, "idle") /\ lock[i] = NoProc /\ i # ROOTINO
       /\ \A q \in Proc : frame[q].pc # "idle" => File[frame[q].f] # i
       /\ IF ~s.ok THEN panic("freeing free block")
          ELSE /\ bitmap' = s.bitmap
               /\ inode' = [inode EXCEPT ![i] = EmptyInode]
               /\ dinode' = [dinode EXCEPT ![i] = EmptyInode]
               /\ want' = [want EXCEPT ![i] = <<>>]
               /\ off' = [f \in DOMAIN File |-> IF f \in fs THEN 0 ELSE off[f]]
               /\ logged' = [logged EXCEPT ![p] = s.log \union {IBLOCK(i)}]
               /\ frame' = [frame EXCEPT ![p].pc = "commit", ![p].f = CHOOSE f \in fs : TRUE]
               /\ UNCHANGED <<blk, lock, panicked>>

\* iget() recycles the cache entry of an inode and ilock() reads the disk;
\* the file is opened again.
reopen(i) ==
    /\ panicked = "" /\ lock[i] = NoProc
    /\ \A q \in Proc : frame[q].pc # "idle" => File[frame[q].f] # i
    /\ inode' = [inode EXCEPT ![i] = dinode[i]]
    /\ off' = [f \in DOMAIN File |-> IF File[f] = i THEN 0 ELSE off[f]]
    /\ UNCHANGED <<bitmap, blk, dinode, lock, frame, logged, want, panicked>>

Next ==
    \/ \E p \in Proc :
          \/ \E f \in DOMAIN File, n \in WriteLen : File[f] # ROOTINO /\ filewrite(p, f, n)
          \/ chunk(p)
          \/ writei(p)
          \/ chunkEnd(p)
          \/ end_op(p)
          \/ \E f \in DOMAIN File, n \in ReadLen : fileread(p, f, n)
          \/ readReturn(p)
          \/ \E i \in {File[f] : f \in DOMAIN File} : itrunc(p, i)
    \/ \E i \in {File[f] : f \in DOMAIN File} : reopen(i)

Spec == Init /\ [][Next]_vars

-----------------------------------------------------------------------------
(* Properties *)

Free(i) == lock[i] = NoProc
Quiet == \A i \in Inum : Free(i)

TypeOK ==
    /\ bitmap \subseteq 0 .. FSSIZE - 1
    /\ blk \in [Block -> [Word -> Nat]]
    /\ \A i \in Inum : /\ inode[i].size \in 0 .. MAXFILE * BSIZE + BSIZE
                       /\ inode[i].addrs \in [0 .. NDIRECT -> {0} \union Block]
    /\ lock \in [Inum -> Proc \union {NoProc}]
    /\ \A p \in Proc : logged[p] \subseteq inodestart .. FSSIZE - 1
    /\ off \in [DOMAIN File -> 0 .. MAXFILE * BSIZE]

\* While no inode is locked, the bitmap marks exactly the blocks before the
\* data and the blocks that inodes own, and no block has two owners: neither
\* the image of mkfs, nor allocation by two writers at once, nor itrunc()
\* loses or shares one.
BitmapExact ==
    Quiet /\ panicked = "" =>
       LET all == FoldLeft(LAMBDA s, i : s \o Owned(inode[i]), <<>>, [k \in Inum |-> k])
       IN /\ bitmap = (0 .. NMETA - 1) \union ToSet(all)
          /\ Len(all) = Cardinality(ToSet(all))

\* A file that nobody has locked holds what the chunks written to it say, in
\* the cached inode and in the one on the disk: it survives the inode's
\* leaving the cache.
ContentsKept ==
    panicked = "" => \A i \in Inum : Free(i) =>
       /\ Contents(inode[i]) = want[i]
       /\ Contents(dinode[i]) = want[i]

\* Every block below the end of a file is allocated, in the image of mkfs and
\* ever after; bmap() in readi() would allocate it without iupdate().
NoHoles ==
    \A i \in Inum : Free(i) =>
       \A k \in 0 .. inode[i].size - 1 : Mapped(inode[i], k \div BSIZE) # 0

\* A read reaches no word beyond those that were written.
ReadsWithin ==
    \A p \in Proc : frame[p].pc = "read" /\ Free(File[frame[p].f]) =>
                       frame[p].i = 0 \/ frame[p].n + frame[p].i <= Len(want[File[frame[p].f]])

\* The chunks of filewrite() and itrunc() stay within what begin_op() reserves
\* for a system call, wherever in a block a write begins.
TransactionFits == \A p \in Proc : Cardinality(logged[p]) <= MAXOPBLOCKS

\* No call panics unless the disk is full.
PanicOnlyWhenFull == panicked \in {"", "balloc: out of blocks"}
=============================================================================
