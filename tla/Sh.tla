--------------------------------- MODULE Sh ---------------------------------
(***************************************************************************)
(* The parser of the shell (sh.c).  A line is a sequence of characters; a  *)
(* word is the interval [q, eq) of positions, counted from 0, that the     *)
(* parser keeps of it.  A parser returns the command and the position      *)
(* after it, or an error.                                                  *)
(***************************************************************************)
EXTENDS Integers, Sequences, SequencesExt

CONSTANT MAXARGS

Whitespace == {" "}
Symbols == {"<", "|", ">", "&", ";", "(", ")"}
NULchar == "0"

\* *s, with the NUL that ends the line.
Char(str, s) == IF s < Len(str) THEN str[s + 1] ELSE NULchar

RECURSIVE SkipWhite(_, _)
SkipWhite(str, s) == IF Char(str, s) \in Whitespace THEN SkipWhite(str, s + 1) ELSE s

RECURSIVE WordEnd(_, _)
WordEnd(str, s) ==
    IF Char(str, s) \in Whitespace \union Symbols \union {NULchar} THEN s ELSE WordEnd(str, s + 1)

\* The token at position q, and where it ends.
TokenAt(str, q) ==
    IF Char(str, q) = ">" /\ Char(str, q + 1) = ">" THEN "+"
    ELSE IF Char(str, q) \in Symbols \union {NULchar} THEN Char(str, q) ELSE "a"
TokenEnd(str, q, tok) ==
    CASE tok = NULchar -> q
      [] tok = "+" -> q + 2
      [] tok = "a" -> WordEnd(str, q)
      [] OTHER -> q + 1

\* gettoken(): the token, the interval it comes from, and the next position.
gettoken(str, ps) ==
    LET q == SkipWhite(str, ps)
        tok == TokenAt(str, q)
        eq == TokenEnd(str, q, tok)
    IN [tok |-> tok, w |-> <<q, eq>>, s |-> SkipWhite(str, eq)]

\* peek() at position s, which is one of toks.
peek(str, s, toks) == Char(str, SkipWhite(str, s)) \in toks

Exec(argv) == [type |-> "EXEC", argv |-> argv]
Redir(cmd, file, mode, fd) == [type |-> "REDIR", cmd |-> cmd, file |-> file, mode |-> mode, fd |-> fd]
PipeCmd(l, r) == [type |-> "PIPE", left |-> l, right |-> r]
List(l, r) == [type |-> "LIST", left |-> l, right |-> r]
Back(cmd) == [type |-> "BACK", cmd |-> cmd]

Panic(s) == [ok |-> FALSE, cmd |-> Exec(<<>>), s |-> s, redirs |-> <<>>]
Parsed(cmd, s) == [ok |-> TRUE, cmd |-> cmd, s |-> s, redirs |-> <<>>]
Wrap(cmd, redirs) == FoldLeft(LAMBDA c, r : Redir(c, r.file, r.mode, r.fd), cmd, redirs)

\* parseredirs(): the redirections at s, in the order in which they enclose
\* the command.  t is the sign, f the file.
RECURSIVE parseredirs(_, _, _)
RedirTo(t, f) ==
    [file |-> f.w, mode |-> IF t.tok = "<" THEN "r" ELSE "w", fd |-> IF t.tok = "<" THEN 0 ELSE 1]
FileRead(str, t, f, redirs) ==
    IF f.tok # "a" THEN Panic(f.s) ELSE parseredirs(str, f.s, Append(redirs, RedirTo(t, f)))
SignRead(str, t, redirs) == FileRead(str, t, gettoken(str, t.s), redirs)
parseredirs(str, s, redirs) ==
    IF peek(str, s, {"<", ">"}) THEN SignRead(str, gettoken(str, s), redirs)
    ELSE [Parsed(Exec(<<>>), s) EXCEPT !.redirs = redirs]

\* argc counts the argument just stored.
TooMany(argc) == argc >= MAXARGS

\* The loop of parseexec(): t is the argument, r the redirections after it.
RECURSIVE parseargs(_, _, _, _)
ArgRead(str, t, r, argv) ==
    IF r.ok THEN parseargs(str, r.s, Append(argv, t.w), r.redirs) ELSE Panic(t.s)
TokenRead(str, t, argv, redirs) ==
    IF t.tok = NULchar THEN Parsed(Wrap(Exec(argv), redirs), t.s)
    ELSE IF t.tok # "a" \/ TooMany(Len(argv) + 1) THEN Panic(t.s)
    ELSE ArgRead(str, t, parseredirs(str, t.s, redirs), argv)
parseargs(str, s, argv, redirs) ==
    IF peek(str, s, {"|", ")", "&", ";"}) THEN Parsed(Wrap(Exec(argv), redirs), s)
    ELSE TokenRead(str, gettoken(str, s), argv, redirs)

RECURSIVE parseline(_, _)
RECURSIVE parsepipe(_, _)
RECURSIVE parseback(_, _, _)

\* parseblock(): the line l in parentheses, and the redirections r after it.
BlockEnds(l, r) == IF r.ok THEN Parsed(Wrap(l.cmd, r.redirs), r.s) ELSE Panic(l.s)
LineInBlock(str, l) ==
    IF ~l.ok \/ ~peek(str, l.s, {")"}) THEN Panic(l.s)
    ELSE BlockEnds(l, parseredirs(str, gettoken(str, l.s).s, <<>>))
parseblock(str, s) == LineInBlock(str, parseline(str, gettoken(str, s).s))

RedirsFirst(str, r) == IF r.ok THEN parseargs(str, r.s, <<>>, r.redirs) ELSE r
parseexec(str, s) ==
    IF peek(str, s, {"("}) THEN parseblock(str, s)
    ELSE RedirsFirst(str, parseredirs(str, s, <<>>))

\* parsepipe(): the command l, and what is right of the bar.
Piped(l, r) == IF r.ok THEN Parsed(PipeCmd(l.cmd, r.cmd), r.s) ELSE r
LeftOfPipe(str, l) ==
    IF ~l.ok \/ ~peek(str, l.s, {"|"}) THEN l ELSE Piped(l, parsepipe(str, gettoken(str, l.s).s))
parsepipe(str, s) == LeftOfPipe(str, parseexec(str, s))

\* The loop of parseline() over `&'.
parseback(str, s, cmd) ==
    IF peek(str, s, {"&"}) THEN parseback(str, gettoken(str, s).s, Back(cmd)) ELSE Parsed(cmd, s)

\* listcmd()
Listed(l, r) == List(l, r)

\* parseline(): the pipeline p, then b with its `&', then the rest r of the list.
RestOfList(b, r) == IF r.ok THEN Parsed(Listed(b.cmd, r.cmd), r.s) ELSE r
FirstOfList(str, b) ==
    IF peek(str, b.s, {";"}) THEN RestOfList(b, parseline(str, gettoken(str, b.s).s)) ELSE b
PipeInLine(str, p) == IF p.ok THEN FirstOfList(str, parseback(str, p.s, p.cmd)) ELSE p
parseline(str, s) == PipeInLine(str, parsepipe(str, s))

\* parsecmd(): nothing may be left over.
parsecmd(str) ==
    LET l == parseline(str, 0)
    IN IF l.ok /\ SkipWhite(str, l.s) # Len(str) THEN Panic(l.s) ELSE l

\* Mutant: the last argument is left as it is.
Ends_NotLast(argv) == {argv[k][2] : k \in 1 .. Len(argv) - 1}

\* The ends of the arguments of a command.
Ends(argv) == {argv[k][2] : k \in DOMAIN argv}

\* nulterminate(): the positions that it overwrites with NUL.
RECURSIVE nulterminate(_)
nulterminate(cmd) ==
    CASE cmd.type = "EXEC" -> Ends(cmd.argv)
      [] cmd.type = "REDIR" -> nulterminate(cmd.cmd) \union {cmd.file[2]}
      [] cmd.type = "BACK" -> nulterminate(cmd.cmd)
      [] OTHER -> nulterminate(cmd.left) \union nulterminate(cmd.right)

-----------------------------------------------------------------------------
(* What the parser should find *)

\* The grammar: a command is printed with as few parentheses as it needs.  A
\* word w is printed as itself.
RECURSIVE Show(_)
Atom(cmd) == IF cmd.type \in {"EXEC", "REDIR"} THEN Show(cmd) ELSE <<"(">> \o Show(cmd) \o <<")">>
RECURSIVE Bare(_)
Bare(cmd) == cmd.type = "EXEC" \/ (cmd.type = "REDIR" /\ Bare(cmd.cmd))
Show(cmd) ==
    CASE cmd.type = "EXEC" -> FlattenSeq([k \in DOMAIN cmd.argv |-> <<cmd.argv[k], " ">>])
      [] cmd.type = "REDIR" ->
            (IF Bare(cmd.cmd) THEN Show(cmd.cmd) ELSE <<"(">> \o Show(cmd.cmd) \o <<")">>)
            \o <<IF cmd.mode = "r" THEN "<" ELSE ">", cmd.file, " ">>
      [] cmd.type = "PIPE" -> Atom(cmd.left) \o <<"|">>
                              \o (IF cmd.right.type = "PIPE" THEN Show(cmd.right) ELSE Atom(cmd.right))
      [] cmd.type = "BACK" ->
            (IF cmd.cmd.type = "LIST" THEN <<"(">> \o Show(cmd.cmd) \o <<")">> ELSE Show(cmd.cmd)) \o <<"&">>
      [] cmd.type = "LIST" ->
            (IF cmd.left.type = "LIST" THEN <<"(">> \o Show(cmd.left) \o <<")">> ELSE Show(cmd.left))
            \o <<";">> \o Show(cmd.right)

\* A command with its words read from the line, to compare with a printed one.
RECURSIVE TextOf(_, _)
Word(str, w) == SubSeq(str, w[1] + 1, w[2])
TextOf(str, cmd) ==
    CASE cmd.type = "EXEC" -> Exec([k \in DOMAIN cmd.argv |-> Word(str, cmd.argv[k])[1]])
      [] cmd.type = "REDIR" -> Redir(TextOf(str, cmd.cmd), Word(str, cmd.file)[1], cmd.mode, cmd.fd)
      [] cmd.type = "BACK" -> Back(TextOf(str, cmd.cmd))
      [] cmd.type = "PIPE" -> PipeCmd(TextOf(str, cmd.left), TextOf(str, cmd.right))
      [] OTHER -> List(TextOf(str, cmd.left), TextOf(str, cmd.right))

\* The words of a command.
RECURSIVE WordsOf(_)
WordsOf(cmd) ==
    CASE cmd.type = "EXEC" -> Range(cmd.argv)
      [] cmd.type = "REDIR" -> WordsOf(cmd.cmd) \union {cmd.file}
      [] cmd.type = "BACK" -> WordsOf(cmd.cmd)
      [] OTHER -> WordsOf(cmd.left) \union WordsOf(cmd.right)

\* The words of a line, as intervals.
WordsIn(str) ==
    {w \in (0 .. Len(str)) \X (0 .. Len(str)) :
        /\ w[1] < w[2]
        /\ \A k \in w[1] .. w[2] - 1 : Char(str, k) \notin Whitespace \union Symbols
        /\ w[1] = 0 \/ Char(str, w[1] - 1) \in Whitespace \union Symbols
        /\ w[2] = WordEnd(str, w[1])}
=============================================================================
