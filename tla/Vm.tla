--------------------------------- MODULE Vm ---------------------------------
(***************************************************************************)
(* Physical pages (kalloc.c), page tables and user memory (vm.c), and the  *)
(* calls that change a process's memory: fork(), exec(), sbrk(), exit()    *)
(* and wait().                                                             *)
(*                                                                         *)
(* The functions of vm.c are operators on a record m: the free pages, the  *)
(* contents of pages, the address space m.d that is worked on, and whether *)
(* every allocation has succeeded so far.  An address space belongs to one *)
(* process, and kalloc() and kfree() run under a lock, so a call is one    *)
(* step; memory runs out at every point of a call because it is small.     *)
(* A page has one value as its contents.                                   *)
(***************************************************************************)
EXTENDS Integers, Sequences, SequencesExt, FiniteSets, FiniteSetsExt

CONSTANTS
    NPAGE,      \* number of physical pages
    NPROC,      \* number of processes
    PGSIZE,     \* bytes in a page
    NPTENTRIES, \* pages that a page table maps
    KERNBASE,   \* size of the user's part of an address space
    NKTAB,      \* page tables of the kernel's part
    WORD,       \* addresses are numbers modulo WORD
    Exec,       \* what is executed: the segments of a program in file order,
                \* and the lengths of the argument strings
    Delta,      \* arguments of sbrk()
    Written     \* the pages that user programs write

VmAssumption ==
    /\ {NPAGE, NPROC, PGSIZE, NPTENTRIES, KERNBASE, NKTAB, WORD} \subseteq Nat \ {0}
    /\ KERNBASE % (PGSIZE * NPTENTRIES) = 0 /\ KERNBASE < WORD

VARIABLES
    free,     \* how often each page is on the free list
    data,     \* the contents of each page
    proc,     \* the processes' state, kstack, address space and size
    shadow,   \* history: what each process should find in its memory
    panicked  \* whether the kernel has panicked

vars == <<free, data, proc, shadow, panicked>>

Page == 1 .. NPAGE
Proc == 1 .. NPROC
NoPage == 0
NUPAGE == KERNBASE \div PGSIZE
UPage == 0 .. NUPAGE - 1
NUTAB == NUPAGE \div NPTENTRIES
Tab == 0 .. NUTAB + NKTAB - 1
Content == {"junk", "zero", "text", "args", "user"}

PDX(v) == v \div NPTENTRIES
PGROUNDUP(a) == ((a + PGSIZE - 1) \div PGSIZE) * PGSIZE
NotPresent == [pa |-> NoPage, u |-> FALSE]
NoSpace == [dir |-> NoPage, tabs |-> [t \in Tab |-> NoPage], ptes |-> [v \in UPage |-> NotPresent]]

\* The pages from address a to the last one below b, in order.
PagesFrom(a, b) ==
    LET first == PGROUNDUP(a) \div PGSIZE
        last == PGROUNDUP(b) \div PGSIZE - 1
    IN [i \in 1 .. (IF last >= first THEN last - first + 1 ELSE 0) |-> first + i - 1]

-----------------------------------------------------------------------------
(* kalloc.c.  Pages are alike: the free list gives out the least one. *)

HasPage(m) == \E g \in Page : m.free[g] > 0
kalloc(m) == Min({g \in Page : m.free[g] > 0})
Taken(m, g, x) == [m EXCEPT !.free[g] = @ - 1, !.data[g] = x]
kfree(m, g) == [m EXCEPT !.free[g] = @ + 1, !.data[g] = "junk"]

-----------------------------------------------------------------------------
(* vm.c *)

\* walkpgdir() with alloc: the page table of user page or kernel table t.
walkpgdir(m, t) ==
    IF m.d.tabs[t] # NoPage THEN m
    ELSE IF HasPage(m) THEN [Taken(m, kalloc(m), "zero") EXCEPT !.d.tabs[t] = kalloc(m)]
    ELSE [m EXCEPT !.ok = FALSE]

\* mappages() of one user page v to g.
mappages(m, v, g, u) ==
    LET w == walkpgdir(m, PDX(v))
    IN IF ~w.ok THEN w
       ELSE IF w.d.ptes[v].pa # NoPage THEN [w EXCEPT !.panic = TRUE]
       ELSE [w EXCEPT !.d.ptes[v] = [pa |-> g, u |-> u]]

\* A page that deallocuvm() gives back.
Unmapped(m, v) == [kfree(m, m.d.ptes[v].pa) EXCEPT !.d.ptes[v] = NotPresent]

\* deallocuvm(): pages without a page table are skipped.
deallocuvm(m, oldsz, newsz) ==
    IF newsz >= oldsz THEN m
    ELSE FoldLeft(LAMBDA n, v : IF n.d.tabs[PDX(v)] = NoPage \/ n.d.ptes[v].pa = NoPage THEN n
                                ELSE Unmapped(n, v),
                  m, PagesFrom(newsz, oldsz))

\* freevm()
freevm(m) ==
    LET users == deallocuvm(m, KERNBASE, 0)
        tabs == FoldLeft(LAMBDA n, t : IF n.d.tabs[t] = NoPage THEN n ELSE kfree(n, n.d.tabs[t]),
                         users, [i \in 1 .. NUTAB + NKTAB |-> i - 1])
    IN [kfree(tabs, m.d.dir) EXCEPT !.d = NoSpace]

\* The address space, or nothing if it could not be completed.
OrFreed(m) == IF m.ok THEN m ELSE freevm(m)

\* setupkvm(): a page directory, and page tables for the kernel's part.
setupkvm(m) ==
    IF ~HasPage(m) THEN [m EXCEPT !.ok = FALSE]
    ELSE LET g == kalloc(m)
             e == [Taken(m, g, "zero") EXCEPT !.d = [NoSpace EXCEPT !.dir = g]]
             k == FoldLeft(LAMBDA n, t : IF n.ok THEN walkpgdir(n, t) ELSE n,
                           e, [i \in 1 .. NKTAB |-> NUTAB + i - 1])
         IN OrFreed(k)

\* Mutant: the page that could not be mapped is lost.
Unused_Lost(m, g) == m

\* A page that was allocated and could not be mapped.
Unused(m, g) == kfree(m, g)

\* A page of contents x, allocated and mapped at v.
NewPage(m, v, x, u) ==
    IF ~HasPage(m) THEN [m EXCEPT !.ok = FALSE]
    ELSE LET g == kalloc(m)
             w == mappages(Taken(m, g, x), v, g, u)
         IN IF w.ok THEN w ELSE Unused(w, g)

\* inituvm(): the first page of the first process.
inituvm(m) == NewPage(m, 0, "text", TRUE)

\* How allocuvm() goes back after a failure.
Undone(m, newsz, oldsz) == deallocuvm(m, newsz, oldsz)

\* allocuvm(): m.sz is the size it returns, 0 when it fails.
allocuvm(m, oldsz, newsz) ==
    IF newsz >= KERNBASE THEN [m EXCEPT !.ok = FALSE, !.sz = 0]
    ELSE IF newsz < oldsz THEN [m EXCEPT !.sz = oldsz]
    ELSE LET n == FoldLeft(LAMBDA x, v : IF x.ok THEN NewPage(x, v, "zero", TRUE) ELSE x,
                           m, PagesFrom(oldsz, newsz))
         IN IF n.ok THEN [n EXCEPT !.sz = newsz] ELSE [Undone(n, newsz, oldsz) EXCEPT !.sz = 0]

\* Mutant: the child gets the parent's page.
CopyPage_Shared(m, from, v) ==
    mappages(m, v, from.ptes[v].pa, from.ptes[v].u)

\* One page of copyuvm(), with the flags of the parent's.
CopyPage(m, from, v) == NewPage(m, v, m.data[from.ptes[v].pa], from.ptes[v].u)

\* The loop of copyuvm().
CopyNext(m, from, v) ==
    IF ~m.ok THEN m
    ELSE IF from.ptes[v].pa = NoPage THEN [m EXCEPT !.panic = TRUE]
    ELSE CopyPage(m, from, v)

\* copyuvm(): a copy of the address space from.
copyuvm(m, from, sz) ==
    LET k == setupkvm(m)
    IN IF k.ok THEN OrFreed(FoldLeft(LAMBDA n, v : CopyNext(n, from, v), k, PagesFrom(0, sz))) ELSE k

\* copyout() of len bytes at va: every page must be one of the user's.
copyout(m, va, len) ==
    IF va < 0 THEN [m EXCEPT !.ok = FALSE]
    ELSE FoldLeft(LAMBDA n, v : IF ~n.ok \/ ~n.d.ptes[v].u THEN [n EXCEPT !.ok = FALSE]
                                ELSE [n EXCEPT !.data[n.d.ptes[v].pa] = "args"],
                  m, [i \in 1 .. (va + len - 1) \div PGSIZE - va \div PGSIZE + 1
                        |-> va \div PGSIZE + i - 1])

-----------------------------------------------------------------------------
(* exec() *)

\* loaduvm(): the pages of segment s that are read from the file.  A page
\* that is read in part counts as text.
loaduvm(m, s) ==
    LET load == PagesFrom(s.vaddr, s.vaddr + s.filesz)
    IN IF \E i \in DOMAIN load : m.d.ptes[load[i]].pa = NoPage THEN [m EXCEPT !.panic = TRUE]
       ELSE IF s.short THEN [m EXCEPT !.ok = FALSE]
       ELSE FoldLeft(LAMBDA x, v : [x EXCEPT !.data[x.d.ptes[v].pa] = "text"], m, load)

\* One loadable segment.
Segment(m, s) ==
    IF ~m.ok \/ s.memsz < s.filesz \/ (s.vaddr + s.memsz) % WORD < s.vaddr
    THEN [m EXCEPT !.ok = FALSE]
    ELSE LET n == allocuvm(m, m.sz, (s.vaddr + s.memsz) % WORD)
         IN IF n.sz = 0 \/ s.vaddr % PGSIZE # 0 THEN [n EXCEPT !.ok = FALSE] ELSE loaduvm(n, s)

\* The stack: an inaccessible page, and one with the arguments.
Stack(m) ==
    LET n == allocuvm(m, PGROUNDUP(m.sz), PGROUNDUP(m.sz) + 2 * PGSIZE)
    IN IF n.sz = 0 THEN n ELSE [n EXCEPT !.d.ptes[n.sz \div PGSIZE - 2].u = FALSE]

\* The strings of the argument vector, then the vector itself.
Arguments(m, args) ==
    LET push(x, len) ==
            LET sp == ((x.sp - (len + 1)) \div 4) * 4
            IN IF x.m.ok THEN [m |-> copyout(x.m, sp, len + 1), sp |-> sp] ELSE x
        strings == FoldLeft(push, [m |-> m, sp |-> m.sz], args)
        vector == (3 + Len(args) + 1) * 4
    IN IF strings.m.ok THEN copyout(strings.m, strings.sp - vector, vector) ELSE strings.m

\* The image of the program prog, or the state after bad: has freed it.
WithStack(m) == IF m.ok THEN Stack(m) ELSE m
WithArguments(m, args) == IF m.ok THEN Arguments(m, args) ELSE m
LoadImage(k, prog, args) ==
    IF k.ok THEN OrFreed(WithArguments(WithStack(FoldLeft(Segment, k, prog)), args)) ELSE k
ExecImage(m, prog, args) == LoadImage(setupkvm([m EXCEPT !.sz = 0]), prog, args)

-----------------------------------------------------------------------------
(* The system calls *)

Mem(p) == [free |-> free, data |-> data, d |-> proc[p].space, sz |-> proc[p].sz,
           ok |-> TRUE, panic |-> FALSE]
\* What the memory of address space d holds according to contents x.
Image(d, x) == [v \in {u \in UPage : d.ptes[u].pa # NoPage} |-> x[d.ptes[v].pa]]

\* userinit()
Init ==
    /\ LET none == [free |-> [g \in Page |-> 1], data |-> [g \in Page |-> "junk"], d |-> NoSpace,
                    sz |-> 0, ok |-> TRUE, panic |-> FALSE]
           stack == kalloc(none)
           m == inituvm(setupkvm(Taken(none, stack, "junk")))
       IN /\ free = m.free
          /\ data = m.data
          /\ proc = [p \in Proc |-> IF p = 1 THEN [state |-> "live", kstack |-> stack,
                                                   space |-> m.d, sz |-> PGSIZE]
                                    ELSE [state |-> "unused", kstack |-> NoPage,
                                          space |-> NoSpace, sz |-> 0]]
          /\ shadow = [p \in Proc |-> IF p = 1 THEN [v \in {0} |-> "text"] ELSE <<>>]
    /\ panicked = FALSE

\* The child c gets the copy m of p's memory, unless it is not complete.
Forked(p, c, stack, m) ==
    LET r == IF m.ok THEN m ELSE kfree(m, stack)
    IN /\ free' = r.free
       /\ data' = r.data
       /\ panicked' = m.panic
       /\ IF ~m.ok THEN UNCHANGED <<proc, shadow>>
          ELSE /\ proc' = [proc EXCEPT ![c] = [state |-> "live", kstack |-> stack,
                                               space |-> m.d, sz |-> proc[p].sz]]
               /\ shadow' = [shadow EXCEPT ![c] = shadow[p]]

\* fork(): a kernel stack and a copy of the memory.
fork(p, c) ==
    /\ ~panicked /\ proc[p].state = "live" /\ proc[c].state = "unused"
    /\ HasPage(Mem(p))
    /\ LET stack == kalloc(Mem(p))
       IN Forked(p, c, stack, copyuvm(Taken(Mem(p), stack, "junk"), proc[p].space, proc[p].sz))

\* What a program finds in its memory: its text, zeroes, and the arguments
\* on the stack.
Expected(prog, sz) ==
    [v \in 0 .. sz \div PGSIZE - 1 |->
        IF v = sz \div PGSIZE - 1 THEN "args"
        ELSE IF \E i \in DOMAIN prog : /\ prog[i].filesz > 0
                                       /\ v >= prog[i].vaddr \div PGSIZE
                                       /\ v * PGSIZE < prog[i].vaddr + prog[i].filesz
             THEN "text" ELSE "zero"]

\* The image m of prog replaces the old one, or nothing changes.
Replace(p, m, prog) ==
    LET r == IF m.ok THEN freevm([m EXCEPT !.d = proc[p].space]) ELSE m
    IN /\ free' = r.free
       /\ data' = r.data
       /\ panicked' = m.panic
       /\ IF ~m.ok THEN UNCHANGED <<proc, shadow>>
          ELSE /\ proc' = [proc EXCEPT ![p].space = m.d, ![p].sz = m.sz]
               /\ shadow' = [shadow EXCEPT ![p] = Expected(prog, m.sz)]

\* exec()
exec(p, prog, args) ==
    /\ ~panicked /\ proc[p].state = "live"
    /\ Replace(p, ExecImage(Mem(p), prog, args), prog)

\* What deallocuvm() returns.
Shrunk(old, new) == IF new >= old THEN old ELSE new

\* growproc().  A process that has given back all of its memory is told that
\* the call has failed, keeps its size, and faults before it can do anything.
\* The first process, init, does not call it.
growproc(p, n) ==
    /\ ~panicked /\ p # 1 /\ proc[p].state = "live"
    /\ LET old == proc[p].sz
           new == (old + n) % WORD
           m == IF n > 0 THEN allocuvm(Mem(p), old, new) ELSE deallocuvm(Mem(p), old, new)
           sz == IF n > 0 THEN m.sz ELSE Shrunk(old, new)
       IN /\ free' = m.free
          /\ data' = m.data
          /\ proc' = [proc EXCEPT ![p].space = m.d, ![p].sz = IF sz = 0 THEN @ ELSE sz,
                                  ![p].state = IF n < 0 /\ sz = 0 THEN "faults" ELSE @]
          /\ shadow' = [shadow EXCEPT ![p] =
                [v \in 0 .. PGROUNDUP(IF n > 0 /\ sz = 0 THEN old ELSE sz) \div PGSIZE - 1 |->
                    IF v \in DOMAIN shadow[p] THEN shadow[p][v] ELSE "zero"]]
          /\ panicked' = m.panic

\* sbrk()
sbrk(p) == \E n \in Delta : growproc(p, n)

\* A user program writes to its memory, and finds no more than its pages.
Write(p, v) ==
    /\ ~panicked /\ proc[p].state = "live"
    /\ proc[p].space.ptes[v].u
    /\ data' = [data EXCEPT ![proc[p].space.ptes[v].pa] = "user"]
    /\ shadow' = [shadow EXCEPT ![p][v] = "user"]
    /\ UNCHANGED <<free, proc, panicked>>

\* exit(), of a process other than the first.
exit(p) ==
    /\ ~panicked /\ p # 1 /\ proc[p].state \in {"live", "faults"}
    /\ proc' = [proc EXCEPT ![p].state = "zombie"]
    /\ UNCHANGED <<free, data, shadow, panicked>>

\* wait() of the parent.
wait(c) ==
    /\ ~panicked /\ proc[c].state = "zombie"
    /\ LET m == freevm(kfree(Mem(c), proc[c].kstack))
       IN /\ free' = m.free
          /\ data' = m.data
          /\ panicked' = m.panic
          /\ proc' = [proc EXCEPT ![c] = [state |-> "unused", kstack |-> NoPage,
                                          space |-> m.d, sz |-> 0]]
          /\ shadow' = [shadow EXCEPT ![c] = <<>>]

Next ==
    \/ \E p, c \in Proc : fork(p, c)
    \/ \E p \in Proc, x \in Exec : exec(p, x.prog, x.args)
    \/ \E p \in Proc, v \in Written : Write(p, v)
    \/ \E p \in Proc : sbrk(p) \/ exit(p) \/ wait(p)

Spec == Init /\ [][Next]_vars

-----------------------------------------------------------------------------
(* Properties *)

\* Types of the variables.
TypeOK ==
    /\ free \in [Page -> Nat]
    /\ data \in [Page -> Content]
    /\ \A p \in Proc :
          /\ proc[p].state \in {"unused", "live", "faults", "zombie"}
          /\ proc[p].kstack \in Page \union {NoPage}
          /\ proc[p].space \in [dir : Page \union {NoPage}, tabs : [Tab -> Page \union {NoPage}],
                                ptes : [UPage -> [pa : Page \union {NoPage}, u : BOOLEAN]]]
          /\ proc[p].sz \in 0 .. KERNBASE
    /\ panicked \in BOOLEAN

\* Every physical page is on the free list once, or has one use: kernel stack,
\* page directory, page table or user page of one process.  No path of a call
\* that fails half-way loses a page or frees it twice.
PagesConserved ==
    \A g \in Page :
       free[g] + Cardinality({p \in Proc : proc[p].kstack = g})
               + Cardinality({p \in Proc : proc[p].space.dir = g})
               + Cardinality({<<p, t>> \in Proc \X Tab : proc[p].space.tabs[t] = g})
               + Cardinality({<<p, v>> \in Proc \X UPage : proc[p].space.ptes[v].pa = g}) = 1

\* A process finds in its memory what it has written, what exec() has loaded,
\* what its parent had at the time of fork(), and zeroes in the rest; other
\* processes and calls that fail do not change it.
PrivateMemory ==
    \A p \in Proc : proc[p].state \in {"live", "faults"} => Image(proc[p].space, data) = shadow[p]

\* A process has the pages below its size and no others; fork() relies on it.
SizeMapped ==
    \A p \in Proc : proc[p].state = "live" =>
       {v \in UPage : proc[p].space.ptes[v].pa # NoPage} = {v \in UPage : v * PGSIZE < proc[p].sz}

\* The kernel does not panic for a page that is mapped twice or not at all.
NoPanic == ~panicked

=============================================================================
