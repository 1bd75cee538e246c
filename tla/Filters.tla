------------------------------ MODULE Filters -------------------------------
(***************************************************************************)
(* The filters uniq and head, as system calls (sysproc.c) and as programs  *)
(* (ulib.c, uniq_user.c, head_user.c), and wc and grep: what they print    *)
(* for a text, as functions of it.  A text is a sequence of characters;    *)
(* what is printed is a sequence of lines or of characters.                *)
(***************************************************************************)
EXTENDS Integers, Sequences, SequencesExt, FiniteSets

CONSTANTS BUF_SIZE,   \* the buffers that a file is read into
          PTR_SIZE    \* sizeof(char *)

NL == "\n"
NUL == "0"
BLANK == " "

\* What a read of n characters from offset o returns.
Chunk(text, o, n) == SubSeq(text, o + 1, IF o + n < Len(text) THEN o + n ELSE Len(text))

\* The string in a buffer, up to its NUL.
String(b) == LET ends == {k \in DOMAIN b : b[k] = NUL}
             IN SubSeq(b, 1, IF ends = {} THEN Len(b) ELSE (CHOOSE k \in ends : \A j \in ends : k <= j) - 1)

-----------------------------------------------------------------------------
(* readline() *)

\* readline() of the kernel: the buffer is read from offset o, over what the
\* last line has left in it, and cut at the first newline or where the file
\* ends.  Returns the buffer; the length is that of its string.
Terminated(b, n) == IF n < PTR_SIZE THEN [b EXCEPT ![n + 1] = NUL] ELSE b
readline(text, buf, o) ==
    LET c == Chunk(text, o, BUF_SIZE)
        n == Len(c)
        b == Terminated([k \in 1 .. BUF_SIZE |-> IF k <= n THEN c[k] ELSE buf[k]], n)
        cut == {k \in 1 .. Len(String(b)) : b[k] = NL \/ k > n}
    IN IF cut = {} THEN b ELSE [b EXCEPT ![CHOOSE k \in cut : \A j \in cut : k <= j] = NUL]

\* readline() of the library: character by character, at most BUF_SIZE - 1.
RECURSIVE readline_user(_, _, _)
readline_user(text, o, line) ==
    IF Len(line) >= BUF_SIZE - 1 THEN [line |-> line, o |-> o]
    ELSE IF o >= Len(text) THEN [line |-> line, o |-> o]
    ELSE IF text[o + 1] = NL THEN [line |-> line, o |-> o + 1]
    ELSE readline_user(text, o + 1, Append(line, text[o + 1]))

\* The lines that a loop `while((n = readline(...)) > 0)' sees.
RECURSIVE kernelLines(_, _, _)
kernelLines(text, buf, o) ==
    LET b == readline(text, buf, o)
        l == String(b)
    IN IF l = <<>> THEN <<>> ELSE <<l>> \o kernelLines(text, b, o + Len(l) + 1)

RECURSIVE userLines(_, _)
userLines(text, o) ==
    LET x == readline_user(text, o, <<>>)
    IN IF x.line = <<>> THEN <<>> ELSE <<x.line>> \o userLines(text, x.o)

-----------------------------------------------------------------------------
(* uniq *)

Lower(c) == IF c = "A" THEN "a" ELSE c
convertToLowercase(l) == [k \in DOMAIN l |-> Lower(l[k])]
Different(flag, a, b) ==
    IF flag = "-i" THEN convertToLowercase(a) # convertToLowercase(b) ELSE a # b

Counted(n, l) == [count |-> n, line |-> l]
Plain(l) == Counted(0, l)
Start == [prev |-> <<>>, count |-> 1, repeated |-> FALSE, out |-> <<>>]

\* -d: the next run begins.
Forgotten(s) == [s EXCEPT !.repeated = FALSE]

\* One turn of the loop of uniq_user() and of sys_uniq_kernel().
uniqLine(flag, s, l) ==
    IF Different(flag, l, s.prev)
    THEN LET t == IF s.prev = <<>> THEN s
                  ELSE IF flag = "-c" THEN [s EXCEPT !.out = Append(@, Counted(s.count, s.prev))]
                  ELSE IF flag = "-n" /\ s.count > 1 THEN [s EXCEPT !.out = Append(@, Plain(s.prev))]
                  ELSE IF flag = "-d" THEN Forgotten(s)
                  ELSE [s EXCEPT !.out = Append(@, Plain(s.prev))]
         IN [t EXCEPT !.prev = l, !.count = 1]
    ELSE LET t == IF flag = "-d" /\ ~s.repeated
                  THEN [s EXCEPT !.out = Append(@, Plain(s.prev)), !.repeated = TRUE] ELSE s
         IN [t EXCEPT !.count = @ + 1]

\* The last line, and a newline for an empty text.
uniqEnd(flag, s) ==
    IF s.prev = <<>> THEN Append(s.out, Plain(<<>>))
    ELSE IF flag = "-c" THEN Append(s.out, Counted(s.count, s.prev))
    ELSE IF flag \in {"-n", "-i"} THEN Append(s.out, Plain(s.prev))
    ELSE s.out

uniqLines(flag, lines) ==
    uniqEnd(flag, FoldLeft(LAMBDA s, l : uniqLine(flag, s, l), Start, lines))
Blank == [k \in 1 .. BUF_SIZE |-> NUL]
sys_uniq_kernel(text, flag) == uniqLines(flag, kernelLines(text, Blank, 0))
uniq_user(text, flag) == uniqLines(flag, userLines(text, 0))

-----------------------------------------------------------------------------
(* head *)

\* sys_head_kernel() of a file: at most n lines, and a newline.
sys_head_kernel(text, n) ==
    LET ls == kernelLines(text, Blank, 0)
    IN FlattenSeq([k \in 1 .. (IF n < Len(ls) THEN n ELSE Len(ls)) |-> Append(ls[k], NL)]) \o <<NL>>

\* sys_head_kernel() of the standard input: a line is printed when its newline
\* comes; the loop stops after the n-th.
headStdin(text, n) ==
    LET step(s, c) == IF s.lines > n THEN s
                      ELSE IF c = NL THEN [lines |-> s.lines + 1, line |-> <<>>, out |-> s.out \o s.line \o <<NL>>]
                      ELSE [s EXCEPT !.line = Append(@, c)]
    IN FoldLeft(step, [lines |-> 1, line |-> <<>>, out |-> <<>>], text).out

\* The loops of head() go on while fewer than n lines are out.
Enough(lines, n) == lines >= n

\* head() of head_user.c: the text comes in chunks of BUF_SIZE characters.
RECURSIVE headFrom(_, _, _, _)
headFrom(text, o, lines, n) ==
    LET c == Chunk(text, o, BUF_SIZE)
        step(s, ch) == IF Enough(s.lines, n) THEN s
                       ELSE [lines |-> IF ch = NL THEN s.lines + 1 ELSE s.lines, out |-> Append(s.out, ch)]
        s == FoldLeft(step, [lines |-> lines, out |-> <<>>], c)
    IN IF Enough(lines, n) \/ c = <<>> THEN <<>> ELSE s.out \o headFrom(text, o + Len(c), s.lines, n)
head(text, n) == headFrom(text, 0, 0, n) \o <<NL>>

-----------------------------------------------------------------------------
(* wc *)

\* What a chunk of wc() takes over from the one before.
Carried(s) == s

wcChar(s, ch) ==
    LET t == [s EXCEPT !.c = @ + 1, !.l = IF ch = NL THEN @ + 1 ELSE @]
    IN IF ch \in {NL, BLANK} THEN [t EXCEPT !.inword = FALSE]
       ELSE IF ~s.inword THEN [t EXCEPT !.w = @ + 1, !.inword = TRUE] ELSE t
RECURSIVE wcFrom(_, _, _)
wcFrom(text, o, s) ==
    LET c == Chunk(text, o, BUF_SIZE)
    IN IF c = <<>> THEN s ELSE wcFrom(text, o + Len(c), FoldLeft(wcChar, Carried(s), c))
wc(text) == wcFrom(text, 0, [l |-> 0, w |-> 0, c |-> 0, inword |-> FALSE])

-----------------------------------------------------------------------------
(* grep *)

\* matchhere() and matchstar(), after Kernighan and Pike.
RECURSIVE matchhere(_, _)
RECURSIVE matchstar(_, _, _)
matchhere(re, text) ==
    IF re = <<>> THEN TRUE
    ELSE IF Len(re) > 1 /\ re[2] = "*" THEN matchstar(re[1], SubSeq(re, 3, Len(re)), text)
    ELSE IF re = <<"$">> THEN text = <<>>
    ELSE text # <<>> /\ re[1] \in {".", text[1]} /\ matchhere(Tail(re), Tail(text))
matchstar(c, re, text) ==
    \/ matchhere(re, text)
    \/ text # <<>> /\ c \in {".", text[1]} /\ matchstar(c, re, Tail(text))

\* match(): the empty text is looked at too.
match(re, text) ==
    IF re # <<>> /\ re[1] = "^" THEN matchhere(Tail(re), text)
    ELSE \E k \in 1 .. Len(text) + 1 : matchhere(re, SubSeq(text, k, Len(text)))

\* The lines of a buffer that end in it, and what follows the last newline.
Newlines(b) == {k \in DOMAIN b : b[k] = NL}
LastNewline(b) == IF Newlines(b) = {} THEN 0 ELSE CHOOSE k \in Newlines(b) : \A j \in Newlines(b) : j <= k
RECURSIVE grepBuffer(_, _)
grepBuffer(re, b) ==
    IF Newlines(b) = {} THEN <<>>
    ELSE LET q == CHOOSE k \in Newlines(b) : \A j \in Newlines(b) : k <= j
             l == SubSeq(b, 1, q - 1)
         IN (IF match(re, l) THEN <<l>> ELSE <<>>) \o grepBuffer(re, SubSeq(b, q + 1, Len(b)))

\* Mutant: what follows the last newline is dropped.
Kept_Not(b) == <<>>

\* What grep() keeps in its buffer: the line that has begun, but nothing if no
\* line has ended.
Kept(b) == IF LastNewline(b) = 0 THEN <<>> ELSE SubSeq(b, LastNewline(b) + 1, Len(b))

RECURSIVE grepFrom(_, _, _, _)
grepFrom(re, text, o, kept) ==
    LET c == Chunk(text, o, BUF_SIZE - Len(kept) - 1)
        b == kept \o c
    IN IF c = <<>> THEN <<>> ELSE grepBuffer(re, b) \o grepFrom(re, text, o + Len(c), Kept(b))
grep(re, text) == grepFrom(re, text, 0, <<>>)

-----------------------------------------------------------------------------
(* What they should print *)

\* The lines of a text; the last one may have no newline.
RECURSIVE Lines(_)
Lines(text) ==
    IF text = <<>> THEN <<>>
    ELSE LET q == CHOOSE k \in 1 .. Len(text) : (text[k] = NL \/ k = Len(text))
                                                /\ \A j \in 1 .. k - 1 : text[j] # NL
         IN <<IF text[q] = NL THEN SubSeq(text, 1, q - 1) ELSE SubSeq(text, 1, q)>>
            \o Lines(SubSeq(text, q + 1, Len(text)))
Ended(text) == IF text = <<>> \/ Last(text) = NL THEN Lines(text) ELSE Front(Lines(text))

\* The lines before the first empty one: where readline() lets its callers stop.
Read(text) ==
    LET ls == Lines(text)
        empty == {k \in DOMAIN ls : ls[k] = <<>>}
    IN SubSeq(ls, 1, IF empty = {} THEN Len(ls) ELSE (CHOOSE k \in empty : \A j \in empty : k <= j) - 1)

\* Runs of lines that are the same, each as [count, line].
Runs(flag, ls) ==
    LET first == {k \in DOMAIN ls : k = 1 \/ Different(flag, ls[k], ls[k - 1])}
        length(k) == Cardinality({j \in k .. Len(ls) : first \cap (k + 1) .. j = {}})
    IN [i \in 1 .. Cardinality(first) |->
          LET k == CHOOSE k \in first : Cardinality({j \in first : j <= k}) = i
          IN Counted(length(k), ls[k])]
UniqReference(text, flag) ==
    LET runs == Runs(flag, Read(text))
    IN IF Read(text) = <<>> THEN <<Plain(<<>>)>>
       ELSE IF flag = "-c" THEN runs
       ELSE [k \in DOMAIN SelectSeq(runs, LAMBDA x : flag # "-d" \/ x.count > 1) |->
               Plain(SelectSeq(runs, LAMBDA x : flag # "-d" \/ x.count > 1)[k].line)]

\* A regular expression as the set of the texts that it matches at their
\* beginning, up to the given length.
RECURSIVE Matched(_, _)
Matched(re, text) ==   \* the lengths of the beginnings that re matches
    IF re = <<>> THEN {0}
    ELSE IF re = <<"$">> THEN IF text = <<>> THEN {0} ELSE {}
    ELSE LET star == Len(re) > 1 /\ re[2] = "*"
             fits(k) == \A j \in 1 .. k : re[1] \in {".", text[j]}
             rest == SubSeq(re, IF star THEN 3 ELSE 2, Len(re))
             firsts == {k \in (IF star THEN 0 .. Len(text) ELSE {1}) : k <= Len(text) /\ fits(k)}
         IN UNION {{k + n : n \in Matched(rest, SubSeq(text, k + 1, Len(text)))} : k \in firsts}
Matches(re, text) ==
    IF re # <<>> /\ re[1] = "^" THEN Matched(Tail(re), text) # {}
    ELSE \E k \in 0 .. Len(text) : Matched(re, SubSeq(text, k + 1, Len(text))) # {}

Words(text) == Cardinality({k \in DOMAIN text : /\ text[k] \notin {NL, BLANK}
                                                /\ k = 1 \/ text[k - 1] \in {NL, BLANK}})
=============================================================================
