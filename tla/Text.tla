-------------------------------- MODULE Text --------------------------------
(***************************************************************************)
(* The pure functions of the shell, the filters and the libraries, applied *)
(* to every input up to a bound and compared with what they should return. *)
(* A behaviour picks a function and its input, and then calls it.          *)
(***************************************************************************)
EXTENDS Filters, Sh, Strings, FiniteSetsExt

CONSTANTS TextLen, WcLen, LineLen, ReLen, FmtLen, PathLen   \* the longest inputs

VARIABLES alg, in, out

vars == <<alg, in, out>>

\* The sequences over S that are no longer than n.
Upto(S, n) == UNION {[1 .. k -> S] : k \in 0 .. n}

\* Texts whose lines fit into the buffers of the filters.
Fits(text) == \A k \in DOMAIN Lines(text) : Len(Lines(text)[k]) <= BUF_SIZE - 2
Texts == {t \in Upto({"a", "A", NL}, TextLen) : Fits(t)}
Flags == {"-n", "-c", "-d", "-i"}
Regexps == Upto({"a", ".", "*", "$", "^"}, ReLen)
Subjects == Upto({"a", "b"}, 3)
LineChars == {"a", " "} \union Symbols

\* Commands to print and parse again: one constructor over the simple ones,
\* and one more over those.
Simple == {Exec(<<>>), Exec(<<"a">>), Exec(<<"a", "b">>), Exec(<<"a", "b", "c">>)}
Over(C, D) == {Redir(c, "f", "r", 0) : c \in C} \union {Redir(c, "f", "w", 1) : c \in C}
              \union {Back(c) : c \in C}
              \union {PipeCmd(c, d) : c \in C, d \in D} \union {List(c, d) : c \in C, d \in D}
Small == Simple \union Over({Exec(<<"a">>)}, Simple)
Commands == Small \union Over(Small, Small)

Memory == [k \in 0 .. 6 |-> k]
Sizes == 0 .. UINT \div 2   \* a process ends below KERNBASE

Input(a) ==
    CASE a = "uniq" -> [text : Texts, flag : Flags]
      [] a = "head" -> [text : Texts, n : 1 .. 3]
      [] a = "wc" -> [text : Upto({"a", BLANK, NL}, WcLen)]
      [] a = "grep" -> [text : Texts, re : {<<"a">>, <<"^", "a", "$">>, <<"^", "$">>}]
      [] a = "match" -> [re : Regexps, text : Subjects]
      [] a = "parse" -> [line : Upto(LineChars, LineLen)]
      [] a = "print" -> [cmd : Commands]
      [] a = "int" -> [xx : SignedWord, base : {10, 16}]
      [] a = "format" -> [fmt : Upto({"z", "%", "d", "c"}, FmtLen)]
      [] a = "move" -> {m \in [dst : 0 .. 6, src : 0 .. 6, n : 0 .. 6] : m.dst + m.n <= 7 /\ m.src + m.n <= 7}
      [] a = "name" -> [s : Upto({"a", "b"}, DIRSIZ + 1), t : Upto({"a", "b"}, DIRSIZ + 1)]
      [] a = "path" -> [path : Upto({"a", Slash}, PathLen)]
      [] a = "args" -> [i : 0 .. UINT - 1, size : SignedWord, sz : Sizes]
      [] a = "str" -> [addr : 0 .. 4, sz : 0 .. 4, mem : [0 .. 4 -> {"a", Nul}]]

Calls == {"uniq", "head", "wc", "grep", "match", "parse", "print", "int", "format", "move", "name",
          "path", "args", "str"}
Init == /\ alg \in Calls
        /\ in \in Input(alg)
        /\ out = <<>>

\* A call of the function a, which returns the value.
Call(a, value) == alg = a /\ out = <<>> /\ out' = <<value>> /\ UNCHANGED <<alg, in>>

Uniq == alg = "uniq" /\ Call("uniq", [kernel |-> sys_uniq_kernel(in.text, in.flag),
                                      user |-> uniq_user(in.text, in.flag)])
HeadLines == alg = "head" /\ Call("head", [kernel |-> sys_head_kernel(in.text, in.n),
                                           stdin |-> headStdin(in.text, in.n), user |-> head(in.text, in.n)])
Count == alg = "wc" /\ Call("wc", wc(in.text))
Grep == alg = "grep" /\ Call("grep", grep(in.re, in.text))
Match == alg = "match" /\ Call("match", [found |-> match(in.re, in.text)])
Parse == alg = "parse" /\ Call("parse", parsecmd(in.line))
Reparse == alg = "print" /\ Call("print", [line |-> Show(in.cmd), parsed |-> parsecmd(Show(in.cmd))])
PrintInt == alg = "int" /\ Call("int", [signed |-> printint(in.xx, in.base, TRUE),
                                        unsigned |-> printint(in.xx, in.base, FALSE)])
Format == alg = "format" /\ Call("format", [user |-> printf(in.fmt), kernel |-> cprintf(in.fmt)])
Move == alg = "move" /\ Call("move", [kernel |-> memmove(Memory, in.dst, in.src, in.n),
                                      user |-> memmove_user(Memory, in.dst, in.src, in.n)])
Compare == alg = "name" /\ Call("name", [same |-> namecmp(in.s, strncpy(in.t, DIRSIZ))])
Walk == alg = "path" /\ Call("path", Walked(in.path))
Check == alg = "args" /\ Call("args", [ptr |-> argptr(in.i, in.size, in.sz), int |-> fetchint(in.i, in.sz)])
FetchStr == alg = "str" /\ Call("str", fetchstr(in.addr, in.sz, in.mem))

Next == \/ Uniq \/ HeadLines \/ Count \/ Grep \/ Match \/ Parse \/ Reparse
        \/ PrintInt \/ Format \/ Move \/ Compare \/ Walk \/ Check \/ FetchStr

Spec == Init /\ [][Next]_vars

-----------------------------------------------------------------------------
(* What the functions return *)

Returned(a) == alg = a /\ out # <<>>
Result == out[1]

(* uniq_user() and sys_uniq_kernel() print the same lines, although one     *)
(* reads a character at a time and the other reads a buffer over the rest   *)
(* of the line before: for each run of equal lines, up to the first empty   *)
(* line, the line (with -i, a run ignores case), the length of the run with *)
(* -c, and with -d only the lines that are repeated.                        *)
UniqExact == Returned("uniq") => /\ Result.kernel = UniqReference(in.text, in.flag)
                                 /\ Result.user = UniqReference(in.text, in.flag)

FirstLines(ls, n) == FlattenSeq([k \in 1 .. (IF n < Len(ls) THEN n ELSE Len(ls)) |-> Append(ls[k], NL)])

(* The three forms of head print the same lines of a text that has only     *)
(* non-empty lines, each ended by a newline: the first n, whatever chunks   *)
(* the text was read in.                                                    *)
HeadExact ==
    Returned("head") /\ Ended(in.text) = Read(in.text) /\ Ended(in.text) = Lines(in.text)
        => /\ Result.stdin = FirstLines(Lines(in.text), in.n)
           /\ Result.kernel = Append(FirstLines(Lines(in.text), in.n), NL)
           /\ Result.user = Append(FirstLines(Lines(in.text), in.n), NL)

(* wc() counts a word once, also when a chunk ends inside it.               *)
WordsCounted == Returned("wc") => /\ Result.w = Words(in.text)
                                  /\ Result.l = Cardinality(Newlines(in.text))
                                  /\ Result.c = Len(in.text)

(* grep() prints exactly the ended lines that match, also those that a      *)
(* chunk cut in two.                                                        *)
GrepExact == Returned("grep") => Result = SelectSeq(Ended(in.text), LAMBDA l : Matches(in.re, l))

(* match() finds a regular expression exactly in the texts that have a part *)
(* that it denotes; matchstar() stops at the first success, and misses none.*)
MatchExact == Returned("match") => Result.found = Matches(in.re, in.text)

(* What parsecmd() accepts, it has read completely: every word of the line  *)
(* is in the command, once, and nulterminate() ends each word where the     *)
(* parser saw its end, and cuts no other.                                   *)
LineUnderstood ==
    Returned("parse") /\ Result.ok =>
        /\ WordsOf(Result.cmd) = WordsIn(in.line)
        /\ nulterminate(Result.cmd) = {w[2] : w \in WordsIn(in.line)}
        /\ \A n \in nulterminate(Result.cmd), w \in WordsIn(in.line) : ~(w[1] <= n /\ n < w[2])

RECURSIVE MostArgs(_)
MostArgs(cmd) ==
    CASE cmd.type = "EXEC" -> Len(cmd.argv)
      [] cmd.type \in {"REDIR", "BACK"} -> MostArgs(cmd.cmd)
      [] OTHER -> Max({MostArgs(cmd.left), MostArgs(cmd.right)})

(* A command that is written down with as few parentheses as the grammar    *)
(* needs is parsed to itself: | binds more than &, & more than ;, and | and *)
(* ; group to the right.  A command that execcmd has no room for is refused.*)
ParseInvertsShow ==
    Returned("print") => /\ Result.parsed.ok = (MostArgs(in.cmd) < MAXARGS)
                         /\ Result.parsed.ok => TextOf(Result.line, Result.parsed.cmd) = in.cmd

(* printint() prints every word as the number it is, the least one too,     *)
(* whose magnitude is no signed word; atoi() reads back what it printed.    *)
IntExact ==
    Returned("int") => /\ Value(Result.signed, in.base) = in.xx
                       /\ Value(Result.unsigned, in.base) = Unsigned(in.xx)
                       /\ in.base = 10 /\ in.xx >= 0 => atoi(Result.signed) = in.xx

(* printf() of the programs and cprintf() of the kernel print a format in   *)
(* the same way, argument by argument, if it has no %c, which only printf() *)
(* knows.                                                                   *)
FormatsAgree ==
    Returned("format") /\ (\A k \in 1 .. Len(in.fmt) - 1 : ~(in.fmt[k] = "%" /\ in.fmt[k + 1] = "c"))
        => Result.user = Result.kernel

(* memmove() of the kernel copies what the source held before, however the  *)
(* two overlap; that of the library does so when it moves downwards, as     *)
(* grep() does, or when they do not overlap.                                *)
MoveExact ==
    LET moved == [k \in DOMAIN Memory |-> IF k \in in.dst .. in.dst + in.n - 1
                                          THEN Memory[in.src + k - in.dst] ELSE Memory[k]]
    IN Returned("move") => /\ Result.kernel = moved
                           /\ in.dst <= in.src \/ in.dst >= in.src + in.n => Result.user = moved

(* A name finds the directory entry that was written for another one        *)
(* exactly when the two agree in their first DIRSIZ characters.             *)
NamesCompared == Returned("name") => Result.same = (strncpy(in.s, DIRSIZ) = strncpy(in.t, DIRSIZ))

(* skipelem() walks through the elements of a path, and the rest is empty   *)
(* at the last one and only there, whatever slashes there are: namex() with *)
(* nameiparent stops at the parent.                                         *)
PathWalked == Returned("path") => Result = Elements(in.path)

(* An argument that argptr(), fetchint() or fetchstr() accept lies inside   *)
(* the process, although the sums that they compare wrap around.            *)
ArgsInside ==
    /\ Returned("args") => /\ Result.ptr = (in.size >= 0 /\ in.i < in.sz /\ in.i + in.size <= in.sz)
                           /\ Result.int = (in.i + 4 <= in.sz)
    /\ Returned("str") /\ Result >= 0 => /\ in.addr + Result < in.sz
                                         /\ in.mem[in.addr + Result] = Nul
=============================================================================
