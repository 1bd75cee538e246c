--------------------------------- MODULE Fs ---------------------------------
(***************************************************************************)
(* Inodes, the inode cache and directories of fs.c, and the system calls   *)
(* of sysfile.c that name files.                                           *)
(*                                                                         *)
(* Processes run the calls concurrently.  A step is what happens under     *)
(* icache.lock, or the part of a call between two such sections that works *)
(* on inodes whose sleep-locks the process holds.  A step at one of the    *)
(* labels of LockField starts with ilock() or acquiresleep() and waits     *)
(* until that lock is free.  The contents of a directory are a function    *)
(* from names to inode numbers; those of a file are module Blocks.  The    *)
(* log makes each call atomic with respect to crashes (module Log), so a   *)
(* crash finds the disk as it was when no call was running.                *)
(***************************************************************************)
EXTENDS Naturals, Sequences, FiniteSets, FiniteSetsExt

CONSTANTS
    Proc,      \* processes
    NoProc,    \* "not locked"
    NINODES,   \* number of inodes on the disk
    NINODE,    \* number of entries of the inode cache
    Name,      \* names of files, without the dots
    Workload   \* what happens: the calls that processes make (and "crash"), with
               \* which paths, from the root or not, and the new paths of link()

ASSUME FsAssumption ==
    /\ IsFiniteSet(Proc) /\ NoProc \notin Proc
    /\ NINODES \in Nat \ {0} /\ NINODE \in Nat \ {0}
    /\ \A w \in Workload :
          /\ w.calls \subseteq {"open", "creat", "mkdir", "mknod", "link", "unlink", "chdir",
                               "uniq", "crash"}
          /\ w.paths \union w.links \subseteq Seq(Name \union {".", ".."})
          /\ w.roots \subseteq BOOLEAN

VARIABLES
    disk,     \* the dinodes, with the contents of directories
    icache,   \* the cached inodes
    frame,    \* of each process: where it is, its locals, cwd and open file
    work,     \* the workload
    panicked, \* the message of the panic that stopped the machine
    leaked,   \* history: the entry of a reference that nobody will drop
    late      \* history: a name was added to a directory without links

vars == <<disk, icache, frame, work, panicked, leaked, late>>
history == <<work, leaked, late>>

ROOTINO == 1
Inum == 1 .. NINODES
Entry == 1 .. NINODE
None == 0
DirName == Name \union {".", ".."}
NoNames == [n \in DirName |-> 0]

\* Which inode a step at a label starts by locking.
LockField ==
    [namex |-> "dp", create |-> "dp", create_found |-> "ip", create_init |-> "ip",
     open |-> "ip", chdir |-> "ip", uniq |-> "ip", link |-> "ip", link_dir |-> "dp",
     link_bad |-> "ip", unlink |-> "dp", unlink_ip |-> "ip", iput |-> "put"]
Label == DOMAIN LockField \union
    {"idle", "iput_check", "iput_free", "iput_done", "iput_ref", "ialloc", "created",
     "opened", "link_new", "link_exists", "link_ok", "unlink_bad", "unlink_drop",
     "chdir_done"}
Call == {"none", "open", "creat", "mkdir", "mknod", "link", "link2", "unlink", "chdir",
         "close", "uniq"}
Creates == {"creat", "mkdir", "mknod"}

\* mkfs leaves the root directory; the first process runs in it.
Root == [NoNames EXCEPT !["."] = ROOTINO, ![".."] = ROOTINO]
Init ==
    /\ disk = [i \in Inum |-> IF i = ROOTINO
                              THEN [type |-> "dir", nlink |-> 1, ents |-> Root]
                              ELSE [type |-> "free", nlink |-> 0, ents |-> NoNames]]
    /\ icache = [e \in Entry |->
                    [inum |-> IF e = 1 THEN ROOTINO ELSE 0,
                     ref |-> IF e = 1 THEN Cardinality(Proc) ELSE 0,
                     valid |-> FALSE, type |-> "free", nlink |-> 0, lock |-> NoProc]]
    /\ frame = [p \in Proc |->
                    [pc |-> "idle", ret |-> "idle", call |-> "none", path |-> <<>>,
                     new |-> <<>>, ip |-> None, dp |-> None, put |-> None, cwd |-> 1,
                     file |-> None]]
    /\ work \in Workload
    /\ panicked = ""
    /\ leaked = None
    /\ late = FALSE

-----------------------------------------------------------------------------
(* The inode cache *)

\* The entry of inode i in the cache ic.
Found(ic, i) == {e \in Entry : ic[e].ref > 0 /\ ic[e].inum = i}
Unused(ic) == {e \in Entry : ic[e].ref = 0}
Slot(ic, i) == IF Found(ic, i) # {} THEN Min(Found(ic, i)) ELSE Min(Unused(ic))

\* Mutant: a recycled entry keeps what it says of another inode.
Recycled_Valid(c, i) == [c EXCEPT !.inum = i, !.ref = 1]

\* An unused entry, recycled for inode i.
Recycled(c, i) == [c EXCEPT !.inum = i, !.ref = 1, !.valid = FALSE]

\* An entry with one more reference.
Shared(c) == [c EXCEPT !.ref = @ + 1]

\* iget(): the cache with one more reference to inode i, at Slot(ic, i).
iget(ic, i) ==
    [ic EXCEPT ![Slot(ic, i)] =
        IF Found(ic, i) # {} THEN Shared(@) ELSE Recycled(@, i)]

\* Another reference to entry e.
idup(e) == [icache EXCEPT ![e] = Shared(@)]

\* ilock(): entry e once process p has locked it, read from the disk when it
\* is not valid.
ilock(p, e) ==
    LET c == icache[e]
    IN IF c.valid THEN [c EXCEPT !.lock = p]
       ELSE [c EXCEPT !.lock = p, !.valid = TRUE, !.type = disk[c.inum].type,
                      !.nlink = disk[c.inum].nlink]

\* Mutant: a lock is kept.
iunlock_Not(c) == c

iunlock(c) == [c EXCEPT !.lock = NoProc]

\* iupdate(): the dinode of entry c, with what the entry says.
iupdate(c) == [disk[c.inum] EXCEPT !.type = c.type, !.nlink = c.nlink]

\* Steps that touch only what the process has locked.  They commute with the
\* steps of the others, and come first.
Local(f) ==
    \/ f.pc \in {"opened", "created", "link_ok", "link_exists", "unlink_bad", "unlink_drop",
                 "chdir_done"}
    \/ f.pc = "namex" /\ f.path = <<>>

At(p, l) ==
    /\ panicked = ""
    /\ frame[p].pc = l
    /\ \A q \in Proc : Local(frame[q]) => q = p

\* A step that starts by locking an inode waits for it.
Locks(p, l) == At(p, l) /\ icache[frame[p][LockField[l]]].lock = NoProc

\* The inode that a step at label l locks.
Locked(p, l) == ilock(p, frame[p][LockField[l]])

panic(msg) == panicked' = msg /\ UNCHANGED <<disk, icache, frame, history>>

\* The outcome of a step that leaves the disk alone: the cache ic, and the
\* frame f of p.
Goes(p, ic, f) ==
    /\ icache' = ic
    /\ frame' = [frame EXCEPT ![p] = f]
    /\ UNCHANGED <<disk, panicked>>

\* The same for a step that ends with iget() of inode i.
GoesGet(p, ic, i, f) ==
    IF Found(ic, i) \union Unused(ic) = {} THEN panic("iget: no inodes")
    ELSE Goes(p, iget(ic, i), f) /\ UNCHANGED history

\* The frame f as it calls iput() of the inode in v, to go on at l.
CallIput(f, v, l) == [f EXCEPT !.put = f[v], ![v] = None, !.pc = "iput", !.ret = l]

\* The frame of a process whose call has returned.
Returns(f) ==
    [f EXCEPT !.pc = "idle", !.ret = "idle", !.call = "none", !.path = <<>>, !.new = <<>>]

\* Whether iput() of the last reference frees the inode.
MayFree(c) == c.valid /\ c.nlink = 0

\* iput() under the sleep-lock: an inode without links may have to be freed.
iput(p) ==
    /\ Locks(p, "iput")
    /\ LET f == frame[p]
           c == icache[f.put]
       IN IF MayFree(c)
          THEN Goes(p, [icache EXCEPT ![f.put].lock = p], [f EXCEPT !.pc = "iput_check"])
          ELSE Goes(p, icache, [f EXCEPT !.pc = "iput_ref"])
    /\ UNCHANGED history

\* Mutant: the inode is freed although others refer to it.
LastRef_Any(c) == c.ref > 0

\* Whether the caller of iput() has the only reference.
LastRef(c) == c.ref = 1

iput_check(p) ==
    /\ At(p, "iput_check")
    /\ LET f == frame[p]
       IN IF LastRef(icache[f.put])
          THEN Goes(p, icache, [f EXCEPT !.pc = "iput_free"])
          ELSE Goes(p, [icache EXCEPT ![f.put].lock = NoProc], [f EXCEPT !.pc = "iput_ref"])
    /\ UNCHANGED history

\* itrunc(), type = 0 and iupdate().
iput_free(p) ==
    /\ At(p, "iput_free")
    /\ LET f == frame[p]
           c == [icache[f.put] EXCEPT !.type = "free"]
       IN /\ icache' = [icache EXCEPT ![f.put] = c]
          /\ disk' = [disk EXCEPT ![c.inum] = [iupdate(c) EXCEPT !.ents = NoNames]]
          /\ frame' = [frame EXCEPT ![p].pc = "iput_done"]
    /\ UNCHANGED <<panicked, history>>

\* The entry after its inode has been freed.
Freed(c) == [iunlock(c) EXCEPT !.valid = FALSE]

iput_done(p) ==
    /\ At(p, "iput_done")
    /\ Goes(p, [icache EXCEPT ![frame[p].put] = Freed(@)], [frame[p] EXCEPT !.pc = "iput_ref"])
    /\ UNCHANGED history

iput_ref(p) ==
    /\ At(p, "iput_ref")
    /\ LET f == [frame[p] EXCEPT !.put = None, !.pc = frame[p].ret]
       IN Goes(p, [icache EXCEPT ![frame[p].put].ref = @ - 1],
               IF f.ret = "idle" THEN Returns(f) ELSE f)
    /\ UNCHANGED history

-----------------------------------------------------------------------------
(* Path names *)

\* Calls that look for the directory of the last name.
Parent(f) == f.call \in Creates \union {"unlink", "link2"}

\* Where a call goes on after its path has been looked up, and after the
\* lookup has failed.
Then(f) ==
    IF f.call \in Creates THEN "create" ELSE IF f.call = "link2" THEN "link_dir" ELSE f.call
Else(f) == IF f.call = "link2" THEN "link_bad" ELSE "idle"

\* namex(), up to the loop: at the root for a path that begins with a slash,
\* else at the current directory.
namex_start(p, f, root) ==
    IF root
    THEN GoesGet(p, icache, ROOTINO, [f EXCEPT !.dp = Slot(icache, ROOTINO), !.pc = "namex"])
    ELSE Goes(p, idup(f.cwd), [f EXCEPT !.dp = f.cwd, !.pc = "namex"]) /\ UNCHANGED history

\* namex(): the path is used up.
namex_end(p) ==
    /\ At(p, "namex")
    /\ frame[p].path = <<>>
    /\ LET f == frame[p]
       IN Goes(p, icache, IF Parent(f) THEN CallIput(f, "dp", Else(f))
                          ELSE [f EXCEPT !.ip = f.dp, !.dp = None, !.pc = Then(f)])
    /\ UNCHANGED history

\* namex(): one turn of the loop, from ilock() to iunlock() or iunlockput().
namex(p) ==
    /\ Locks(p, "namex")
    /\ frame[p].path # <<>>
    /\ LET f == frame[p]
           c == Locked(p, "namex")
           ic == [icache EXCEPT ![f.dp] = iunlock(c)]
           i == disk[c.inum].ents[Head(f.path)]
           stop == Parent(f) /\ Len(f.path) = 1
       IN \/ c.type = "free" /\ panic("ilock: no type")
          \/ /\ c.type \in {"file", "dev"} \/ (c.type = "dir" /\ ~stop /\ i = 0)
             /\ Goes(p, ic, CallIput(f, "dp", Else(f))) /\ UNCHANGED history
          \/ /\ c.type = "dir" /\ stop
             /\ Goes(p, ic, [f EXCEPT !.pc = Then(f)]) /\ UNCHANGED history
          \/ /\ c.type = "dir" /\ ~stop /\ i # 0
             /\ GoesGet(p, ic, i, [CallIput(f, "dp", "namex") EXCEPT
                                       !.dp = Slot(ic, i), !.path = Tail(@)])

-----------------------------------------------------------------------------
(* create(), open() and mkdir() *)

\* create(): the directory is locked; the name may exist already.
create(p) ==
    /\ Locks(p, "create")
    /\ LET f == frame[p]
           c == Locked(p, "create")
           ic == [icache EXCEPT ![f.dp] = iunlock(c)]
           i == disk[c.inum].ents[Head(f.path)]
       IN \/ c.type = "free" /\ panic("ilock: no type")
          \/ /\ c.type # "free" /\ i # 0
             /\ GoesGet(p, ic, i, [CallIput(f, "dp", "create_found") EXCEPT !.ip = Slot(ic, i)])
          \/ /\ c.type # "free" /\ i = 0
             /\ Goes(p, [icache EXCEPT ![f.dp] = c], [f EXCEPT !.pc = "ialloc"])
             /\ UNCHANGED history

\* create() of a file that exists is open(); other calls fail.
create_found(p) ==
    /\ Locks(p, "create_found")
    /\ LET f == frame[p]
           c == Locked(p, "create_found")
       IN \/ c.type = "free" /\ panic("ilock: no type")
          \/ /\ c.type = "file" /\ f.call = "creat"
             /\ Goes(p, [icache EXCEPT ![f.ip] = c], [f EXCEPT !.pc = "opened"])
             /\ UNCHANGED history
          \/ /\ c.type # "free" /\ ~(c.type = "file" /\ f.call = "creat")
             /\ Goes(p, [icache EXCEPT ![f.ip] = iunlock(c)], CallIput(f, "ip", "idle"))
             /\ UNCHANGED history

TypeOf(f) == CASE f.call = "mkdir" -> "dir" [] f.call = "mknod" -> "dev" [] OTHER -> "file"

\* ialloc(): claims a free inode (the scan may have passed one that has been
\* freed since) and gets it.
ialloc(p) ==
    /\ At(p, "ialloc")
    /\ \/ (\A i \in Inum : disk[i].type # "free") /\ panic("ialloc: no inodes")
       \/ \E i \in Inum :
             /\ disk[i].type = "free"
             /\ IF Found(icache, i) \union Unused(icache) = {} THEN panic("iget: no inodes")
                ELSE /\ disk' = [disk EXCEPT ![i] = [type |-> TypeOf(frame[p]), nlink |-> 0,
                                                     ents |-> NoNames]]
                     /\ icache' = iget(icache, i)
                     /\ frame' = [frame EXCEPT ![p].ip = Slot(icache, i), ![p].pc = "create_init"]
                     /\ UNCHANGED <<panicked, history>>

\* Mutant: the parent is not counted as linked by "..".
NewParent_NoLink(d, dir) == d

\* The directory d after a child has been made in it.
NewParent(d, dir) == IF dir THEN [d EXCEPT !.nlink = @ + 1] ELSE d

\* create(): the new inode and its names, with both inodes locked.
create_init(p) ==
    /\ Locks(p, "create_init")
    /\ LET f == frame[p]
           new == [Locked(p, "create_init") EXCEPT !.nlink = 1]
           dir == NewParent(icache[f.dp], f.call = "mkdir")
           dots == IF f.call = "mkdir" THEN [NoNames EXCEPT !["."] = new.inum, ![".."] = dir.inum]
                   ELSE NoNames
       IN IF new.type = "free" THEN panic("ilock: no type")
          ELSE /\ disk' = [disk EXCEPT ![new.inum] = [iupdate(new) EXCEPT !.ents = dots],
                                       ![dir.inum] = [iupdate(dir) EXCEPT
                                                         !.ents[Head(f.path)] = new.inum]]
               /\ icache' = [icache EXCEPT ![f.ip] = new, ![f.dp] = iunlock(dir)]
               /\ frame' = [frame EXCEPT ![p] = CallIput(f, "dp", "created")]
               /\ late' = (late \/ icache[f.dp].nlink = 0)
               /\ UNCHANGED <<work, panicked, leaked>>

\* The caller of create() has the new inode locked.
created(p) ==
    /\ At(p, "created")
    /\ LET f == frame[p]
       IN IF f.call = "creat" THEN Goes(p, icache, [f EXCEPT !.pc = "opened"])
          ELSE Goes(p, [icache EXCEPT ![f.ip] = iunlock(@)], CallIput(f, "ip", "idle"))
    /\ UNCHANGED history

\* open() of a file that exists.
open(p) ==
    /\ Locks(p, "open")
    /\ LET f == frame[p]
           c == Locked(p, "open")
       IN IF c.type = "free" THEN panic("ilock: no type")
          ELSE /\ Goes(p, [icache EXCEPT ![f.ip] = c], [f EXCEPT !.pc = "opened"])
               /\ UNCHANGED history

\* open(): the file and its descriptor, unless there is none left or the
\* inode is a directory that is to be written.
opened(p) ==
    /\ At(p, "opened")
    /\ LET f == frame[p]
           ic == [icache EXCEPT ![f.ip] = iunlock(@)]
       IN \/ f.file = None /\ Goes(p, ic, Returns([f EXCEPT !.file = f.ip, !.ip = None]))
          \/ Goes(p, ic, CallIput(f, "ip", "idle"))
    /\ UNCHANGED history

-----------------------------------------------------------------------------
(* link() and unlink() *)

\* link(): counts the new link first.
link(p) ==
    /\ Locks(p, "link")
    /\ LET f == frame[p]
           c == Locked(p, "link")
           more == [iunlock(c) EXCEPT !.nlink = @ + 1]
       IN \/ c.type = "free" /\ panic("ilock: no type")
          \/ /\ c.type = "dir"
             /\ Goes(p, [icache EXCEPT ![f.ip] = iunlock(c)], CallIput(f, "ip", "idle"))
             /\ UNCHANGED history
          \/ /\ c.type \in {"file", "dev"}
             /\ disk' = [disk EXCEPT ![c.inum] = iupdate(more)]
             /\ icache' = [icache EXCEPT ![f.ip] = more]
             /\ frame' = [frame EXCEPT ![p].pc = "link_new"]
             /\ UNCHANGED <<panicked, history>>

\* nameiparent() of the new path.
link_new(p) ==
    /\ At(p, "link_new")
    /\ \E root \in work.roots :
          namex_start(p, [frame[p] EXCEPT !.call = "link2", !.path = frame[p].new, !.new = <<>>], root)

\* dirlink() of the new name; a name that exists is dropped while the
\* directory stays locked.
link_dir(p) ==
    /\ Locks(p, "link_dir")
    /\ LET f == frame[p]
           c == Locked(p, "link_dir")
           i == disk[c.inum].ents[Head(f.path)]
           ic == [icache EXCEPT ![f.dp] = c]
       IN \/ c.type = "free" /\ panic("ilock: no type")
          \/ /\ c.type # "free" /\ i # 0
             /\ GoesGet(p, ic, i, [f EXCEPT !.put = Slot(ic, i), !.pc = "iput", !.ret = "link_exists"])
          \/ /\ c.type # "free" /\ i = 0
             /\ disk' = [disk EXCEPT ![c.inum].ents[Head(f.path)] = icache[f.ip].inum]
             /\ icache' = [icache EXCEPT ![f.dp] = iunlock(c)]
             /\ frame' = [frame EXCEPT ![p] = CallIput(f, "dp", "link_ok")]
             /\ late' = (late \/ c.nlink = 0)
             /\ UNCHANGED <<work, panicked, leaked>>

link_exists(p) ==
    /\ At(p, "link_exists")
    /\ Goes(p, [icache EXCEPT ![frame[p].dp] = iunlock(@)], CallIput(frame[p], "dp", "link_bad"))
    /\ UNCHANGED history

link_ok(p) ==
    /\ At(p, "link_ok")
    /\ Goes(p, icache, CallIput(frame[p], "ip", "idle"))
    /\ UNCHANGED history

\* Mutant: every removal counts twice.
Unlinked_Twice(c) == [c EXCEPT !.nlink = @ - 2]

\* An inode with one link fewer.
Unlinked(c) == [c EXCEPT !.nlink = @ - 1]

\* bad: of link().
link_bad(p) ==
    /\ Locks(p, "link_bad")
    /\ LET f == frame[p]
           c == Unlinked(Locked(p, "link_bad"))
       IN IF c.type = "free" THEN panic("ilock: no type")
          ELSE /\ disk' = [disk EXCEPT ![c.inum] = iupdate(c)]
               /\ icache' = [icache EXCEPT ![f.ip] = iunlock(c)]
               /\ frame' = [frame EXCEPT ![p] = CallIput(f, "ip", "idle")]
               /\ UNCHANGED <<panicked, history>>

\* unlink(): finds the inode of the name, with the directory locked.
unlink(p) ==
    /\ Locks(p, "unlink")
    /\ LET f == frame[p]
           c == Locked(p, "unlink")
           i == disk[c.inum].ents[Head(f.path)]
           ic == [icache EXCEPT ![f.dp] = c]
           bad == Head(f.path) \in {".", ".."} \/ i = 0
       IN \/ c.type = "free" /\ panic("ilock: no type")
          \/ /\ c.type # "free" /\ bad
             /\ Goes(p, [icache EXCEPT ![f.dp] = iunlock(c)], CallIput(f, "dp", "idle"))
             /\ UNCHANGED history
          \/ /\ c.type # "free" /\ ~bad
             /\ GoesGet(p, ic, i, [f EXCEPT !.ip = Slot(ic, i), !.pc = "unlink_ip"])

\* Whether directory i has only the dots.
isdirempty(i) == \A n \in Name : disk[i].ents[n] = 0

\* unlink(): erases the name, with both inodes locked.
unlink_ip(p) ==
    /\ Locks(p, "unlink_ip")
    /\ LET f == frame[p]
           c == Locked(p, "unlink_ip")
           d == IF c.type = "dir" THEN Unlinked(icache[f.dp]) ELSE icache[f.dp]
           full == c.type = "dir" /\ ~isdirempty(c.inum)
       IN \/ c.type = "free" /\ panic("ilock: no type")
          \/ c.type # "free" /\ c.nlink < 1 /\ panic("unlink: nlink < 1")
          \/ /\ c.type # "free" /\ c.nlink >= 1 /\ full
             /\ Goes(p, [icache EXCEPT ![f.ip] = iunlock(c)], CallIput(f, "ip", "unlink_bad"))
             /\ UNCHANGED history
          \/ /\ c.type # "free" /\ c.nlink >= 1 /\ ~full
             /\ disk' = [disk EXCEPT ![d.inum] = [iupdate(d) EXCEPT !.ents[Head(f.path)] = 0]]
             /\ icache' = [icache EXCEPT ![f.ip] = c, ![f.dp] = iunlock(d)]
             /\ frame' = [frame EXCEPT ![p] = CallIput(f, "dp", "unlink_drop")]
             /\ UNCHANGED <<panicked, history>>

unlink_bad(p) ==
    /\ At(p, "unlink_bad")
    /\ Goes(p, [icache EXCEPT ![frame[p].dp] = iunlock(@)], CallIput(frame[p], "dp", "idle"))
    /\ UNCHANGED history

\* The inode has one link fewer.
unlink_drop(p) ==
    /\ At(p, "unlink_drop")
    /\ LET f == frame[p]
           c == Unlinked(icache[f.ip])
       IN /\ disk' = [disk EXCEPT ![c.inum] = iupdate(c)]
          /\ icache' = [icache EXCEPT ![f.ip] = iunlock(c)]
          /\ frame' = [frame EXCEPT ![p] = CallIput(f, "ip", "idle")]
    /\ UNCHANGED <<panicked, history>>

-----------------------------------------------------------------------------
(* chdir(), close(), and the start of a call *)

chdir(p) ==
    /\ Locks(p, "chdir")
    /\ LET f == frame[p]
           c == Locked(p, "chdir")
       IN IF c.type = "free" THEN panic("ilock: no type")
          ELSE /\ Goes(p, [icache EXCEPT ![f.ip] = iunlock(c)],
                       IF c.type = "dir" THEN CallIput(f, "cwd", "chdir_done")
                       ELSE CallIput(f, "ip", "idle"))
               /\ UNCHANGED history

chdir_done(p) ==
    /\ At(p, "chdir_done")
    /\ Goes(p, icache, Returns([frame[p] EXCEPT !.cwd = frame[p].ip, !.ip = None]))
    /\ UNCHANGED history

\* uniq_kernel() and head_kernel() lock the inode, read the file and unlock
\* it, and keep their reference.
uniq(p) ==
    /\ Locks(p, "uniq")
    /\ LET f == frame[p]
           c == Locked(p, "uniq")
       IN IF c.type = "free" THEN panic("ilock: no type")
          ELSE /\ Goes(p, [icache EXCEPT ![f.ip] = iunlock(c)], Returns([f EXCEPT !.ip = None]))
               /\ leaked' = f.ip
               /\ UNCHANGED <<work, late>>

\* fileclose() of the last reference to an open file.
close(p) ==
    /\ At(p, "idle")
    /\ frame[p].file # None
    /\ Goes(p, icache, CallIput([frame[p] EXCEPT !.call = "close"], "file", "idle"))
    /\ UNCHANGED history

\* A system call that names a file.  A reference is lost at most once between
\* two crashes.
syscall(p) ==
    /\ At(p, "idle")
    /\ \E c \in work.calls \ {"crash"}, path \in work.paths, root \in work.roots :
       \E new \in IF c = "link" THEN work.links ELSE {<<>>} :
          /\ c = "uniq" => /\ leaked = None
                           /\ \A q \in Proc : frame[q].call # "uniq"
          /\ namex_start(p, [frame[p] EXCEPT !.call = c, !.path = path, !.new = new], root)

\* No call is running.
Quiescent == \A p \in Proc : frame[p].pc = "idle"

\* A crash and a restart: the cache, the open files and the references are
\* gone, and no inode without links will ever be freed.
Crash ==
    /\ panicked = "" /\ Quiescent
    /\ "crash" \in work.calls
    /\ icache' = [e \in Entry |->
                    [inum |-> IF e = 1 THEN ROOTINO ELSE 0,
                     ref |-> IF e = 1 THEN Cardinality(Proc) ELSE 0,
                     valid |-> FALSE, type |-> "free", nlink |-> 0, lock |-> NoProc]]
    /\ frame' = [p \in Proc |-> [frame[p] EXCEPT !.cwd = 1, !.file = None]]
    /\ leaked' = None
    /\ UNCHANGED <<disk, work, panicked, late>>

\* panic() never returns.
Halted == panicked # "" /\ UNCHANGED vars

Step(p) ==
    \/ syscall(p) \/ close(p) \/ namex(p) \/ namex_end(p)
    \/ iput(p) \/ iput_check(p) \/ iput_free(p) \/ iput_done(p) \/ iput_ref(p)
    \/ create(p) \/ create_found(p) \/ ialloc(p) \/ create_init(p) \/ created(p)
    \/ open(p) \/ opened(p) \/ chdir(p) \/ chdir_done(p) \/ uniq(p)
    \/ link(p) \/ link_new(p) \/ link_dir(p) \/ link_exists(p) \/ link_ok(p) \/ link_bad(p)
    \/ unlink(p) \/ unlink_ip(p) \/ unlink_bad(p) \/ unlink_drop(p)

Next == (\E p \in Proc : Step(p)) \/ Crash \/ Halted

Spec == Init /\ [][Next]_vars

-----------------------------------------------------------------------------
(* Properties *)

Pointer == {"ip", "dp", "put", "cwd", "file"}

\* Types of the variables.
TypeOK ==
    /\ disk \in [Inum -> [type : {"free", "file", "dir", "dev"}, nlink : Nat,
                          ents : [DirName -> Inum \union {0}]]]
    /\ icache \in [Entry -> [inum : Inum \union {0}, ref : Nat, valid : BOOLEAN,
                             type : {"free", "file", "dir", "dev"}, nlink : Nat,
                             lock : Proc \union {NoProc}]]
    /\ \A p \in Proc :
          /\ frame[p].pc \in Label /\ frame[p].ret \in Label /\ frame[p].call \in Call
          /\ \A v \in Pointer : frame[p][v] \in Entry \union {None}
    /\ work \in Workload
    /\ panicked \in STRING
    /\ leaked \in Entry \union {None}
    /\ late \in BOOLEAN

\* iget() never makes a second entry for an inode that has one: the two could
\* be locked at the same time (fs.c, the comment on icache).
CachedOnce ==
    \A d, e \in Entry : icache[d].ref > 0 /\ icache[e].ref > 0 /\ d # e
                        => icache[d].inum # icache[e].inum

\* The pointers to entry e.
Refs(e) == {x \in Proc \X Pointer : frame[x[1]][x[2]] = e}

\* The reference count of an entry is the number of pointers to it: in the
\* locals of running calls, current directories and open files, and the one
\* that uniq_kernel() has lost.
RefsExact ==
    \A e \in Entry : icache[e].ref = Cardinality(Refs(e)) + (IF leaked = e THEN 1 ELSE 0)

\* What a valid entry says is what the disk says.
CacheCurrent ==
    \A e \in Entry : icache[e].ref > 0 /\ icache[e].valid /\ icache[e].lock = NoProc
        => /\ icache[e].type = disk[icache[e].inum].type
           /\ icache[e].nlink = disk[icache[e].inum].nlink

\* The file system does not panic because its inodes are inconsistent: it
\* runs out of inodes or of cache entries at worst.
NoInconsistency == panicked \in {"", "ialloc: no inodes", "iget: no inodes"}

\* A process of S that is not waiting for a lock that a member of S holds.
Unblocked(S) ==
    {p \in S : \/ frame[p].pc \notin DOMAIN LockField
               \/ frame[p].pc = "namex" /\ frame[p].path = <<>>
               \/ icache[frame[p][LockField[frame[p].pc]]].lock \notin S}

\* Processes never wait for each other in a circle: concurrent calls that
\* create, link and unlink the same names all return.
NoDeadlock == \A S \in SUBSET Proc \ {{}} : Unblocked(S) # {}

\* The locks of inodes are taken from a directory to what is in it: if
\* processes wait for each other in a circle, one of them is in iput(), which
\* takes the lock of an inode that its caller has just unlocked.
OnlyIputDeadlocks ==
    \A S \in SUBSET Proc \ {{}} : Unblocked(S) # {} \/ \E p \in S : frame[p].pc = "iput"

\* The directories that can be reached by a name, or are the root.
Linked == {i \in Inum : disk[i].type = "dir" /\ disk[i].nlink > 0}

\* Between calls, the link count of an inode is the number of names it has,
\* the ".." of its children included; unless a name has been added to a
\* directory that had been removed.  Failed calls that give back half of what
\* they did, and calls in parallel, lose none.
LinksExact ==
    Quiescent /\ ~late => \A i \in Inum : disk[i].type # "free" =>
        disk[i].nlink = Cardinality({x \in Linked \X Name : disk[x[1]].ents[x[2]] = i})
                        + Cardinality({d \in Linked : disk[d].ents[".."] = i})

\* Between calls, an inode that has a name is in use.
NamesInUse ==
    Quiescent => \A d \in Linked, n \in DirName :
        disk[d].ents[n] # 0 => disk[disk[d].ents[n]].type # "free"

\* An open file and a current directory are never freed.
HeldInUse ==
    \A p \in Proc, v \in {"cwd", "file"} :
       frame[p][v] # None => disk[icache[frame[p][v]].inum].type # "free"

\* The inode cache has every inode once, counts the pointers to it, and tells
\* nobody anything else than the disk says: iget() shares the entry, calls that
\* fail half-way drop what they hold, and ilock() reads the entry again after
\* it was recycled or its inode freed.
CacheSound == CachedOnce /\ RefsExact /\ CacheCurrent

\* iput() frees no inode that is still in use, by an open file, by a current
\* directory or by a name, and nothing panics over an inode that it freed.
NoneFreedInUse == HeldInUse /\ NamesInUse /\ NoInconsistency
=============================================================================
