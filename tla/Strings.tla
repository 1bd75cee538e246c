------------------------------ MODULE Strings -------------------------------
(***************************************************************************)
(* The string, number and path functions that the kernel and the programs  *)
(* rest on (string.c, ulib.c, printf.c, console.c, fs.c), and the checks   *)
(* of system call arguments (syscall.c), as functions over small widths.   *)
(***************************************************************************)
EXTENDS Integers, Sequences, SequencesExt

CONSTANTS UINT,     \* the number of values of a machine word
          DIRSIZ    \* the length of a name in a directory entry

SignedWord == - (UINT \div 2) .. UINT \div 2 - 1
Unsigned(x) == x % UINT
Signed(x) == LET u == x % UINT IN IF u < UINT \div 2 THEN u ELSE u - UINT

-----------------------------------------------------------------------------
(* printint(), atoi() *)

\* A numeral is a sequence of digits, with a minus sign before it.
Minus == - 1

\* The digits of x, the last one first.
RECURSIVE Digits(_, _)
Digits(x, base) == IF x \div base = 0 THEN <<x % base>> ELSE <<x % base>> \o Digits(x \div base, base)

\* The number whose digits are printed.
Magnitude(xx, neg) == IF neg THEN Unsigned(- xx) ELSE Unsigned(xx)

printint(xx, base, sgn) ==
    LET neg == sgn /\ xx < 0
    IN (IF neg THEN <<Minus>> ELSE <<>>) \o Reverse(Digits(Magnitude(xx, neg), base))

\* atoi() of a string of digits that ends at the first other character.
RECURSIVE atoiFrom(_, _)
atoiFrom(s, n) ==
    IF s = <<>> \/ Head(s) \notin 0 .. 9 THEN n ELSE atoiFrom(Tail(s), Signed(n * 10 + Head(s)))
atoi(s) == atoiFrom(s, 0)

\* The number that a printed numeral denotes.
Value(s, base) ==
    LET digits == SelectSeq(s, LAMBDA c : c # Minus)
        n == FoldLeft(LAMBDA a, d : a * base + d, 0, digits)
    IN IF Head(s) = Minus THEN - n ELSE n

-----------------------------------------------------------------------------
(* printf(), cprintf() *)

Conversions == {"d", "x", "p", "s"}

\* What is printed: a character as itself, or the n-th argument as c.
Itself(c) == [arg |-> 0, as |-> c]

Converted(c, n, known) ==
    IF c \in known THEN <<[arg |-> n, as |-> c]>> ELSE IF c = "%" THEN <<Itself("%")>> ELSE <<Itself("%"), Itself(c)>>

\* The state of printf() goes back to 0 after any conversion.
Reset(c) == TRUE

\* printf() of printf.c, which knows %c: one character at a time, in state 0
\* or %.
printf(fmt) ==
    LET step(s, c) ==
            IF ~s.pct THEN IF c = "%" THEN [s EXCEPT !.pct = TRUE] ELSE [s EXCEPT !.out = Append(@, Itself(c))]
            ELSE [pct |-> ~Reset(c),
                  n |-> IF c \in Conversions \union {"c"} THEN s.n + 1 ELSE s.n,
                  out |-> s.out \o Converted(c, s.n, Conversions \union {"c"})]
    IN FoldLeft(step, [pct |-> FALSE, n |-> 1, out |-> <<>>], fmt).out

\* cprintf() of console.c, which looks one character ahead.
RECURSIVE cprintfFrom(_, _)
cprintfFrom(fmt, n) ==
    IF fmt = <<>> \/ fmt = <<"%">> THEN <<>>
    ELSE IF fmt[1] # "%" THEN <<Itself(fmt[1])>> \o cprintfFrom(Tail(fmt), n)
    ELSE Converted(fmt[2], n, Conversions)
         \o cprintfFrom(SubSeq(fmt, 3, Len(fmt)), IF fmt[2] \in Conversions THEN n + 1 ELSE n)
cprintf(fmt) == cprintfFrom(fmt, 1)

-----------------------------------------------------------------------------
(* memmove(), strncpy(), strncmp() *)

\* A copy of one byte after the other, in the given order of offsets.
Copied(mem, dst, src, order) == FoldLeft(LAMBDA m, k : [m EXCEPT ![dst + k] = m[src + k]], mem, order)
Upwards(n) == [k \in 1 .. n |-> k - 1]
Downwards(n) == [k \in 1 .. n |-> n - k]

\* Mutant: an overlap by one byte is missed.
Overlaps_Less(dst, src, n) == src < dst /\ src + n - 1 > dst

\* The destination begins inside the source.
Overlaps(dst, src, n) == src < dst /\ src + n > dst

\* memmove() of string.c, and of ulib.c, which only copies upwards.
memmove(mem, dst, src, n) ==
    Copied(mem, dst, src, IF Overlaps(dst, src, n) THEN Downwards(n) ELSE Upwards(n))
memmove_user(mem, dst, src, n) == Copied(mem, dst, src, Upwards(n))

Nul == "0"
At(s, k) == IF k <= Len(s) THEN s[k] ELSE Nul

\* strncpy(): n characters, NULs after the end of t.
strncpy(t, n) == [k \in 1 .. n |-> At(t, k)]

\* strncmp() as its callers use it: whether it is 0.  A field of n characters
\* need not hold a NUL.
RECURSIVE strncmp(_, _, _)
strncmp(p, q, n) ==
    IF n > 0 /\ At(p, 1) # Nul /\ At(p, 1) = At(q, 1)
    THEN strncmp(SubSeq(p, 2, Len(p)), SubSeq(q, 2, Len(q)), n - 1)
    ELSE n = 0 \/ At(p, 1) = At(q, 1)

\* namecmp()
namecmp(s, t) == strncmp(s, t, DIRSIZ)

-----------------------------------------------------------------------------
(* skipelem() *)

Slash == "/"
RECURSIVE NoSlashes(_)
NoSlashes(path) == IF path # <<>> /\ Head(path) = Slash THEN NoSlashes(Tail(path)) ELSE path

RECURSIVE ElementEnd(_)
ElementEnd(path) == IF path = <<>> \/ Head(path) = Slash THEN 0 ELSE 1 + ElementEnd(Tail(path))

\* The path after an element has no leading slash.
After(path) == NoSlashes(path)

\* skipelem(): no element, or its name, cut to DIRSIZ, and the rest.
skipelem(path) ==
    LET p == NoSlashes(path)
        len == ElementEnd(p)
    IN IF p = <<>> THEN [found |-> FALSE, name |-> <<>>, rest |-> <<>>]
       ELSE [found |-> TRUE, name |-> SubSeq(p, 1, IF len < DIRSIZ THEN len ELSE DIRSIZ),
             rest |-> After(SubSeq(p, len + 1, Len(p)))]

\* The elements that namex() walks through, and whether it takes each for the
\* last one (*path == '\0').
RECURSIVE Walked(_)
Walked(path) ==
    LET e == skipelem(path)
    IN IF ~e.found THEN <<>> ELSE <<[name |-> e.name, last |-> e.rest = <<>>]>> \o Walked(e.rest)

\* What a path means: its parts between slashes.
Elements(path) ==
    LET starts == {k \in DOMAIN path : path[k] # Slash /\ (k = 1 \/ path[k - 1] = Slash)}
        part(k) == SubSeq(path, k, k + ElementEnd(SubSeq(path, k, Len(path))) - 1)
        order == SetToSortSeq(starts, <)
    IN [i \in DOMAIN order |->
          [name |-> SubSeq(part(order[i]), 1, IF Len(part(order[i])) < DIRSIZ THEN Len(part(order[i])) ELSE DIRSIZ),
           last |-> i = Len(order)]]

-----------------------------------------------------------------------------
(* The arguments of a system call; addresses wrap at UINT *)

fetchint(addr, sz) == ~(addr >= sz \/ Unsigned(addr + 4) > sz)

\* fetchstr(): the length of the string, or -1; mem is the process memory.
fetchstr(addr, sz, mem) ==
    LET nuls == {k \in addr .. sz - 1 : mem[k] = Nul}
    IN IF addr >= sz \/ nuls = {} THEN - 1 ELSE (CHOOSE k \in nuls : \A j \in nuls : k <= j) - addr

\* argptr(): size is a signed word, i an unsigned one.
argptr(i, size, sz) == ~(size < 0 \/ i >= sz \/ Unsigned(i + size) > sz)
=============================================================================
