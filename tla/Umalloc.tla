------------------------------ MODULE Umalloc -------------------------------
(***************************************************************************)
(* malloc() and free() of the user library (umalloc.c): a circular list of *)
(* free blocks in the order of their addresses, which are counted in       *)
(* headers.  base, at address 0, lies below the heap; the program may move *)
(* its break between two calls of malloc(), so the heap has gaps.          *)
(***************************************************************************)
EXTENDS Integers, FiniteSets, FiniteSetsExt

CONSTANTS HeapStart, HeapEnd,  \* the addresses that sbrk() can give
          MinCore,             \* the least that morecore() asks for, 4096 in the code
          Sizes,               \* sizes that the program asks for, in headers
          MaxForeign           \* bound: headers that the program takes by sbrk()

VARIABLES m,        \* ptr and size of the headers, freep, the break
          live,     \* blocks that the program has: address |-> size
          foreign,  \* headers that the program has taken by sbrk()
          failed    \* what the last call of malloc() was refused, or 0

vars == <<m, live, foreign, failed>>

Addr == {0} \union HeapStart .. HeapEnd - 1
NoPtr == -1

Init ==
    /\ m = [ptr |-> [a \in Addr |-> NoPtr], size |-> [a \in Addr |-> 0],
            freep |-> NoPtr, brk |-> HeapStart]
    /\ live = {} /\ foreign = {} /\ failed = 0

\* A header that has become part of a block; what it held is not read again.
Gone(s, a) == [s EXCEPT !.ptr[a] = NoPtr, !.size[a] = 0]

\* free(): where the list is cut, from p on.
RECURSIVE Before(_, _, _)
Before(s, bp, p) ==
    LET q == s.ptr[p]
    IN IF bp > p /\ bp < q THEN p
       ELSE IF p >= q /\ (bp > p \/ bp < q) THEN p
       ELSE Before(s, bp, q)

\* bp is joined to the block after it, or points to it.
JoinUp(s, bp, p) ==
    LET q == s.ptr[p]
    IN IF bp + s.size[bp] = q
       THEN Gone([s EXCEPT !.size[bp] = @ + s.size[q], !.ptr[bp] = s.ptr[q]], q)
       ELSE [s EXCEPT !.ptr[bp] = q]

\* Mutant: blocks that touch are not joined.
JoinDown_Not(s, bp, p) == [s EXCEPT !.ptr[p] = bp]

\* p is joined to bp, or points to it.
JoinDown(s, bp, p) ==
    IF p + s.size[p] = bp
    THEN Gone([s EXCEPT !.size[p] = @ + s.size[bp], !.ptr[p] = s.ptr[bp]], bp)
    ELSE [s EXCEPT !.ptr[p] = bp]

free(s, bp) ==
    LET p == Before(s, bp, s.freep)
    IN [JoinDown(JoinUp(s, bp, p), bp, p) EXCEPT !.freep = p]

\* morecore(): freep is left as it is if sbrk() fails.
CoreUnits(nu) == IF nu < MinCore THEN MinCore ELSE nu
HasCore(s, nu) == s.brk + CoreUnits(nu) <= HeapEnd
morecore(s, nu) ==
    free([s EXCEPT !.brk = @ + CoreUnits(nu), !.size[s.brk] = CoreUnits(nu)], s.brk)

\* malloc() takes the block at p whole, or its end.
Cut(s, prevp, p, nunits) ==
    IF s.size[p] = nunits
    THEN [s EXCEPT !.ptr = [@ EXCEPT ![prevp] = s.ptr[p], ![p] = NoPtr], !.freep = prevp]
    ELSE LET q == p + s.size[p] - nunits
         IN [s EXCEPT !.size = [@ EXCEPT ![p] = s.size[p] - nunits, ![q] = nunits],
                      !.freep = prevp]

\* The search has come around.
Around(s, p) == p = s.freep

\* The loop of malloc().
RECURSIVE Search(_, _, _, _)
Search(s, prevp, p, nunits) ==
    IF s.size[p] >= nunits
    THEN [s |-> Cut(s, prevp, p, nunits), at |-> p + s.size[p] - nunits]
    ELSE IF ~Around(s, p) THEN Search(s, p, s.ptr[p], nunits)
    ELSE IF ~HasCore(s, nunits) THEN [s |-> s, at |-> NoPtr]
    ELSE LET t == morecore(s, nunits) IN Search(t, t.freep, t.ptr[t.freep], nunits)

malloc(nunits) ==
    LET s == IF m.freep # NoPtr THEN m
             ELSE [m EXCEPT !.ptr[0] = 0, !.size[0] = 0, !.freep = 0]
        t == Search(s, s.freep, s.ptr[s.freep], nunits)
    IN /\ m' = t.s
       /\ failed' = IF t.at = NoPtr THEN nunits ELSE 0
       /\ live' = IF t.at = NoPtr THEN live ELSE live \union {[at |-> t.at, n |-> nunits]}
       /\ UNCHANGED foreign

\* free() by the program, of a block that it has.
ufree(b) ==
    /\ m' = free(m, b.at)
    /\ live' = live \ {b}
    /\ failed' = 0
    /\ UNCHANGED foreign

\* The program moves its break.
sbrk ==
    /\ Cardinality(foreign) < MaxForeign /\ m.brk < HeapEnd
    /\ foreign' = foreign \union {m.brk}
    /\ m' = [m EXCEPT !.brk = @ + 1]
    /\ failed' = 0
    /\ UNCHANGED live

Next ==
    \/ \E n \in Sizes : malloc(n)
    \/ \E b \in live : ufree(b)
    \/ sbrk

Spec == Init /\ [][Next]_vars

-----------------------------------------------------------------------------
(* Properties *)

\* The free blocks, in the order of the list from base on.
RECURSIVE ListFrom(_, _)
ListFrom(p, seen) ==
    IF p = NoPtr \/ p \in {s.at : s \in seen} THEN seen
    ELSE ListFrom(m.ptr[p], seen \union {[at |-> p, n |-> m.size[p]]})
FreeList == ListFrom(IF m.freep = NoPtr THEN NoPtr ELSE 0, {})
Units(b) == b.at .. b.at + b.n - 1

\* Every header below the break is in one block: one that the program has,
\* one of the list, or one that the program took by sbrk(); no two overlap.
HeapExact ==
    LET blocks == live \union FreeList
    IN /\ UNION {Units(b) : b \in blocks} \union foreign = HeapStart .. m.brk - 1
       /\ \A b, c \in blocks : b # c => Units(b) \cap Units(c) = {}

\* Free blocks that touch have been joined, so memory comes together again.
Joined == \A b, c \in FreeList : b.at + b.n # c.at \/ b.n = 0

\* free() finds its place: the list is in order and closed, whatever block it
\* starts from, and the header of a block in use keeps its size.
ListOrdered ==
    /\ m.freep # NoPtr => m.freep \in {s.at : s \in FreeList}
    /\ \A s \in FreeList :
          LET q == m.ptr[s.at]
          IN \/ q = Min({t.at : t \in FreeList}) /\ s.at = Max({t.at : t \in FreeList})
             \/ q > s.at /\ q \in {t.at : t \in FreeList}
    /\ \A b \in live : m.size[b.at] = b.n

\* malloc() fails only if no free block is large enough and the heap cannot
\* grow by what morecore() asks for.
FailsOnlyWhenFull ==
    failed # 0 => /\ \A s \in FreeList : s.n < failed
                  /\ ~HasCore(m, failed)
=============================================================================
