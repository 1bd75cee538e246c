----------------------------- MODULE MCPrograms -----------------------------
(***************************************************************************)
(* What a program rests on, on small instances: its memory, its terminal,  *)
(* its heap, the shell and the libraries.  A behaviour is that of one of   *)
(* these machines: m says which, and they share the variables v1, v2, ..., *)
(* which are "off" if unused.                                              *)
(***************************************************************************)
EXTENDS Integers, Sequences

VARIABLES m, v1, v2, v3, v4, v5, v6, v7, v8

vars == <<m, v1, v2, v3, v4, v5, v6, v7, v8>>

Seg(vaddr, filesz, memsz) == [vaddr |-> vaddr, filesz |-> filesz, memsz |-> memsz, short |-> FALSE]

\* A program without arguments, with one, with one that does not fit on the
\* stack and with too many; one with two segments; one whose file is too
\* short; one that is not aligned; and one whose end wraps around.
MCExec ==
    {[prog |-> <<Seg(0, 20, 20)>>, args |-> a] : a \in {<<>>, <<5>>, <<40>>, <<4, 4, 4>>}}
    \union
    {[prog |-> p, args |-> <<>>] :
        p \in {<<Seg(0, 10, 10), Seg(32, 0, 10)>>,
               <<[Seg(0, 20, 20) EXCEPT !.short = TRUE]>>,
               <<Seg(0, 10, 10), Seg(24, 4, 30)>>,
               <<Seg(32, 0, 250)>>}}

\* Command lines: pipelines, lists, redirections and background commands, and
\* some of each in another.
Prog(p) == [type |-> "EXEC", prog |-> p]
Piped(l, r) == [type |-> "PIPE", left |-> l, right |-> r]
Then(l, r) == [type |-> "LIST", left |-> l, right |-> r]
Behind(c) == [type |-> "BACK", cmd |-> c]
To(c, fd) == [type |-> "REDIR", cmd |-> c, fd |-> fd]
MCCommands ==
    LET S == Prog("source")
        F == Prog("filter")
    IN {Piped(S, Piped(F, F)), Piped(Piped(S, F), F), Then(Behind(Piped(S, F)), Piped(S, F)),
        Piped(Then(S, Behind(S)), To(F, 1)), To(Piped(F, To(F, 0)), 0), Behind(Then(F, Prog("")))}

\* Two processes share a memory that is too small for both.
Vm == INSTANCE Vm WITH
    NPAGE <- 17, NPROC <- 2, PGSIZE <- 32, NPTENTRIES <- 2, KERNBASE <- 192, NKTAB <- 1, WORD <- 256,
    Exec <- MCExec, Delta <- {20, -20, -32, -128, 100}, Written <- {3},
    free <- v1, data <- v2, proc <- v3, shadow <- v4, panicked <- v5

\* Two readers, one of which may be killed, and a ring of three characters.
Console == INSTANCE Console WITH
    Proc <- {1, 2}, INPUT_BUF <- 3, UintRange <- 6, Count <- {1, 3}, Killable <- {1},
    buf <- v1, r <- v2, w <- v3, e <- v4, reader <- v5, killed <- v6, line <- v7,
    queue <- v8

\* A screen of three short rows, and five of ten keys down at a time.
Keyboard == INSTANCE Keyboard WITH
    COLS <- 2, ROWS <- 3, MaxDown <- 5,
    shift <- v1, down <- v2, bytes <- v3, key <- v4, char <- v5, pos <- v6

\* A heap of twelve headers.
Umalloc == INSTANCE Umalloc WITH
    HeapStart <- 2, HeapEnd <- 14, MinCore <- 4, Sizes <- {2, 3, 5}, MaxForeign <- 1,
    m <- v1, live <- v2, foreign <- v3, failed <- v4

\* Six processes, which is too few for one of the lines.
Runcmd == INSTANCE Runcmd WITH
    NPROC <- 6, NOFILE <- 6, Commands <- MCCommands,
    proc <- v1, failed <- v2

\* Inputs a little longer than the buffers.
Text == INSTANCE Text WITH
    BUF_SIZE <- 5, PTR_SIZE <- 2, MAXARGS <- 3, UINT <- 32, DIRSIZ <- 2,
    TextLen <- 7, WcLen <- 7, LineLen <- 5, ReLen <- 4, FmtLen <- 4, PathLen <- 6,
    alg <- v1, in <- v2, out <- v3

ASSUME Vm!VmAssumption

Off == "off"
Init == \/ m = "vm" /\ Vm!Init
           /\ v6 = Off /\ v7 = Off /\ v8 = Off
        \/ m = "console" /\ Console!Init
        \/ m = "keyboard" /\ Keyboard!Init
           /\ v7 = Off /\ v8 = Off
        \/ m = "umalloc" /\ Umalloc!Init
           /\ v5 = Off /\ v6 = Off /\ v7 = Off /\ v8 = Off
        \/ m = "runcmd" /\ Runcmd!Init
           /\ v3 = Off /\ v4 = Off /\ v5 = Off /\ v6 = Off /\ v7 = Off /\ v8 = Off
        \/ m = "text" /\ Text!Init
           /\ v4 = Off /\ v5 = Off /\ v6 = Off /\ v7 = Off /\ v8 = Off

\* A function has returned; or a command line has ended, with the shell at its
\* prompt or gone.
Stopped == /\ \/ m = "text" /\ Text!Returned(v1)
              \/ m = "runcmd" /\ Runcmd!AtRest
           /\ UNCHANGED vars

Next == \/ m = "vm" /\ Vm!Next /\ UNCHANGED <<m, v6, v7, v8>>
        \/ m = "console" /\ Console!Next /\ UNCHANGED <<m>>
        \/ m = "keyboard" /\ Keyboard!Next /\ UNCHANGED <<m, v7, v8>>
        \/ m = "umalloc" /\ Umalloc!Next /\ UNCHANGED <<m, v5, v6, v7, v8>>
        \/ m = "runcmd" /\ Runcmd!Next /\ UNCHANGED <<m, v3, v4, v5, v6, v7, v8>>
        \/ m = "text" /\ Text!Next /\ UNCHANGED <<m, v4, v5, v6, v7, v8>>
        \/ Stopped

Spec == Init /\ [][Next]_vars

-----------------------------------------------------------------------------
(* The properties of the machines *)

\* Every physical page is on the free list once, or has one use: kernel stack,
\* page directory, page table or user page of one process.  No path of a call
\* that fails half-way loses a page or frees it twice.  A process has exactly
\* the pages below its size, which fork() relies on, and the kernel does not
\* panic for a page that is mapped twice or not at all.
PagesConserved ==
    m = "vm" => Vm!TypeOK /\ Vm!PagesConserved /\ Vm!SizeMapped /\ Vm!NoPanic

\* A process finds in its memory what it has written, what exec() has loaded,
\* what its parent had at the time of fork(), and zeroes in the rest; other
\* processes and calls that fail do not change it.
PrivateMemory == m = "vm" => Vm!PrivateMemory

\* The ring holds the lines typed and not yet read, then the line being
\* edited, whatever the indices have wrapped around to: editing never
\* reaches into a line that readers may have.  A reader asleep has nothing
\* to read: every line that ends, by newline, ^D or because the ring is full,
\* wakes the readers.  What a read returns is of one line, and is shorter than
\* asked for only at the end of a line or at a ^D.
LinesExact ==
    m = "console" => Console!RingExact /\ Console!ReaderWoken /\ Console!ReadsOneLine

\* ^D leaves the ring only with a read that returns nothing: none is lost
\* behind the characters of a line.
EofReturnsEmpty == [][m = "console" => Console!EofReturnsEmptyStep]_vars

\* No modifier is stuck, in whatever order keys were pressed and released,
\* the ones with two bytes included, and one that is held alone counts; a
\* letter is a capital if just one of shift and caps lock is on.  From
\* wherever it was at first, the cursor stays on the screen, and cgaputc()
\* leaves it no further than the start of the last row: what it clears after
\* scrolling has no negative length.
KeysExact ==
    m = "keyboard" => /\ Keyboard!NoModifierStuck
                      /\ Keyboard!LetterCase
                      /\ Keyboard!CursorOnScreen

\* Every header below the break is in one block: one that the program has,
\* one of the list, or one that the program took by sbrk().  free() keeps the
\* list in order and closed, and joins free blocks that touch; so malloc()
\* fails only if no free block is large enough and the heap cannot grow by
\* what morecore() asks for.
HeapExact ==
    m = "umalloc" => /\ Umalloc!HeapExact /\ Umalloc!ListOrdered
                     /\ Umalloc!Joined /\ Umalloc!FailsOnlyWhenFull

\* A program is started with the input and the output that the line gives
\* it, and with no other descriptor of the pipes of the line, which would
\* keep a reader waiting.  So no command line hangs the shell, and it prompts
\* when all that runs in the foreground has ended, unless a call failed on
\* the way.
CommandsRun ==
    m = "runcmd" => Runcmd!Plumbed /\ Runcmd!ForegroundEnded /\ Runcmd!ShellGoesOn

\* The filters print what they are for, in whatever chunks the text is read:
\* both uniq the runs of equal lines with their options, the three head the
\* first lines, wc the words, also those that a chunk cuts in two, and grep
\* the lines that match, where match() finds a regular expression exactly in
\* the texts that have a part that it denotes.
FiltersExact ==
    m = "text" => /\ Text!UniqExact /\ Text!HeadExact /\ Text!WordsCounted
                  /\ Text!GrepExact /\ Text!MatchExact

\* What parsecmd() accepts, it has read completely: every word of the line
\* is in the command, once, and nulterminate() ends each word where the
\* parser saw its end, and cuts no other.  A command that is written down with
\* as few parentheses as the grammar needs is parsed to itself, and one that
\* execcmd has no room for is refused.
ParserExact == m = "text" => Text!LineUnderstood /\ Text!ParseInvertsShow

\* The helpers are right at the edges of their inputs: printint() prints the
\* least word, too, and atoi() reads it back; printf() and cprintf() agree;
\* memmove() copies what the source held, however the two overlap; a name
\* finds the entry with which it agrees in DIRSIZ characters; skipelem() walks
\* through a path whatever slashes it has; and an argument that argptr(),
\* fetchint() or fetchstr() accept lies inside the process, although the sums
\* that they compare wrap around.
LibraryExact ==
    m = "text" => /\ Text!IntExact /\ Text!FormatsAgree /\ Text!MoveExact
                  /\ Text!NamesCompared /\ Text!PathWalked /\ Text!ArgsInside
=============================================================================
