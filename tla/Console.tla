------------------------------ MODULE Console -------------------------------
(***************************************************************************)
(* The input of the console: the interrupt handler consoleintr() that      *)
(* edits a line in a ring, and the processes that read lines in            *)
(* consoleread() (console.c).                                              *)
(*                                                                         *)
(* Both run under cons.lock, which a reader gives up only in sleep(), so a *)
(* character typed, and a reader's run from one sleep to the next, are     *)
(* steps.  kill() takes no cons.lock: the reader's look at `killed' and    *)
(* its sleep are two steps.  The indices are unsigned and wrap around.     *)
(***************************************************************************)
EXTENDS Integers, Sequences, SequencesExt

CONSTANTS Proc,        \* readers
          INPUT_BUF,   \* size of the ring
          UintRange,   \* the range of the indices, 2^32 in the code
          Count,       \* lengths of the calls of read()
          Killable     \* readers that may be killed

VARIABLES buf, r, w, e,   \* input
          reader,         \* each reader: what it does, n, what it has got, target
          killed,
          line, queue     \* history: the line being typed, the lines typed and not yet read

vars == <<buf, r, w, e, reader, killed, line, queue>>

\* Characters: a letter, newline, ^D.
Char == {"a", "nl", "eof"}
Idle == [pc |-> "idle", n |-> 0, got |-> <<>>, target |-> 0]

Init ==
    /\ buf = [i \in 0 .. INPUT_BUF - 1 |-> "a"]
    /\ r = 0 /\ w = 0 /\ e = 0
    /\ reader = [p \in Proc |-> Idle]
    /\ killed = [p \in Proc |-> FALSE]
    /\ line = <<>> /\ queue = <<>>

\* Unsigned subtraction and addition.
Minus(x, y) == (x - y + UintRange) % UintRange
Plus(x, y) == (x + y) % UintRange
At(i) == buf[i % INPUT_BUF]

\* Mutant: readers are not woken by the line that fills the ring.
wakeup_Newline(c) == [p \in Proc |-> IF reader[p].pc = "asleep" /\ c # "a"
                                     THEN [reader[p] EXCEPT !.pc = "awake"] ELSE reader[p]]

\* wakeup(&input.r), after character c.
wakeup(c) == [p \in Proc |-> IF reader[p].pc = "asleep"
                             THEN [reader[p] EXCEPT !.pc = "awake"] ELSE reader[p]]

\* There is room for a character.
Room == Minus(e, r) < INPUT_BUF

\* consoleintr(), a character c.
type(c) ==
    /\ c \in Char
    /\ IF ~Room THEN UNCHANGED <<buf, r, w, e, reader, line, queue>>
       ELSE LET full == Plus(e, 1) = Plus(r, INPUT_BUF)
                ends == c \in {"nl", "eof"} \/ full
            IN /\ buf' = [buf EXCEPT ![e % INPUT_BUF] = c]
               /\ e' = Plus(e, 1)
               /\ w' = IF ends THEN Plus(e, 1) ELSE w
               /\ reader' = IF ends THEN wakeup(c) ELSE reader
               /\ line' = IF ends THEN <<>> ELSE Append(line, c)
               /\ queue' = IF ends THEN queue \o Append(line, c) ELSE queue
               /\ UNCHANGED r
    /\ UNCHANGED killed

\* There is something to erase.
CanErase == e # w

\* ^H and DEL
erase ==
    /\ CanErase
    /\ e' = Minus(e, 1)
    /\ line' = SubSeq(line, 1, Len(line) - 1)
    /\ UNCHANGED <<buf, r, w, reader, killed, queue>>

\* ^U: back to the last newline, or to w.
RECURSIVE KillTo(_)
KillTo(i) == IF i = w \/ At(Minus(i, 1)) = "nl" THEN i ELSE KillTo(Minus(i, 1))
killline ==
    /\ e' = KillTo(e)
    /\ line' = <<>>
    /\ UNCHANGED <<buf, r, w, reader, killed, queue>>

\* consoleread() begins.
read(p, n) ==
    /\ reader[p].pc = "idle" /\ ~killed[p]
    /\ reader' = [reader EXCEPT ![p] = [pc |-> "awake", n |-> n, got |-> <<>>, target |-> n]]
    /\ UNCHANGED <<buf, r, w, e, killed, line, queue>>

\* Mutant: ^D is always consumed.
PutBack_Never(f, i) == Plus(i, 1)

\* Where input.r is left by ^D: it stays for the next read if this one has
\* characters to return.
PutBack(f, i) == IF f.n < f.target THEN i ELSE Plus(i, 1)

\* The character ends the read.
EndsLine(c) == c = "nl"

\* The loop of consoleread() from index i, up to a sleep or its end.
RECURSIVE Take(_, _)
Take(f, i) ==
    IF f.n = 0 THEN [f |-> [f EXCEPT !.pc = "done"], r |-> i]
    ELSE IF i = w THEN [f |-> [f EXCEPT !.pc = "empty"], r |-> i]
    ELSE IF At(i) = "eof" THEN [f |-> [f EXCEPT !.pc = "done"], r |-> PutBack(f, i)]
    ELSE LET g == [f EXCEPT !.n = @ - 1, !.got = Append(@, At(i))]
         IN IF EndsLine(At(i)) THEN [f |-> [g EXCEPT !.pc = "done"], r |-> Plus(i, 1)]
            ELSE Take(g, Plus(i, 1))

consoleread(p) ==
    LET t == Take(reader[p], r)
    IN /\ reader[p].pc = "awake"
       /\ r' = t.r
       /\ queue' = SubSeq(queue, 1 + Minus(t.r, r), Len(queue))
       /\ reader' = [reader EXCEPT ![p] =
                       IF t.f.pc = "empty" /\ killed[p] THEN [t.f EXCEPT !.pc = "failed"] ELSE t.f]
       /\ UNCHANGED <<buf, w, e, killed, line>>

\* sleep(): the lock is still held since the ring was found empty.
sleep(p) ==
    /\ reader[p].pc = "empty"
    /\ reader' = [reader EXCEPT ![p].pc = "asleep"]
    /\ UNCHANGED <<buf, r, w, e, killed, line, queue>>

\* read() returns to its caller.
return(p) ==
    /\ reader[p].pc \in {"done", "failed"}
    /\ reader' = [reader EXCEPT ![p] = Idle]
    /\ UNCHANGED <<buf, r, w, e, killed, line, queue>>

\* kill() of a reader; it takes ptable.lock only.
kill(p) ==
    /\ p \in Killable /\ ~killed[p]
    /\ killed' = [killed EXCEPT ![p] = TRUE]
    /\ reader' = [reader EXCEPT ![p].pc = IF @ = "asleep" THEN "awake" ELSE @]
    /\ UNCHANGED <<buf, r, w, e, line, queue>>

Locked == \E p \in Proc : reader[p].pc = "empty"

Next ==
    \/ ~Locked /\ \/ \E c \in Char : type(c)
                  \/ erase \/ killline
                  \/ \E p \in Proc : consoleread(p)
    \/ \E p \in Proc : \/ \E n \in Count : read(p, n)
                       \/ sleep(p) \/ return(p) \/ kill(p)

Spec == Init /\ [][Next]_vars

-----------------------------------------------------------------------------
(* Properties *)

Ring(i, n) == [k \in 1 .. n |-> At(Plus(i, k - 1))]

\* The ring holds the lines typed and not yet read, then the line being
\* edited, whatever the indices have wrapped around to: editing never
\* reaches into a line that readers may have, and no character is lost,
\* repeated or overwritten.
RingExact ==
    /\ Ring(r, Minus(w, r)) = queue
    /\ Ring(w, Minus(e, w)) = line

\* A reader asleep has nothing to read: every line that ends, by newline, ^D
\* or because the ring is full, wakes the readers.
ReaderWoken == \A p \in Proc : reader[p].pc = "asleep" => r = w

\* What a read returns is of one line: a newline comes last, ^D never; and a
\* read that returns fewer characters than asked for has met the end of a
\* line, or a ^D, which it leaves to be met again unless it returns nothing.
ReadsOneLine ==
    \A p \in Proc : LET f == reader[p] IN
       /\ \A k \in DOMAIN f.got : f.got[k] # "eof" /\ (f.got[k] = "nl" => k = Len(f.got))
       /\ f.pc = "done" => Len(f.got) = f.target - f.n

\* ^D leaves the ring only with a read that returns nothing: none is lost
\* behind the characters of a line.
EofReturnsEmptyStep ==
       \A p \in Proc : reader[p].pc = "awake" /\ reader'[p].pc = "done"
          /\ (\E k \in 1 .. Len(queue) - Len(queue') : queue[k] = "eof") => reader'[p].got = <<>>
EofReturnsEmpty == [][EofReturnsEmptyStep]_vars
=============================================================================
