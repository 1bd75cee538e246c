------------------------------- MODULE Runcmd -------------------------------
(***************************************************************************)
(* runcmd() of the shell (sh.c): the processes that a command line becomes,*)
(* what they do to their descriptors, and whom they wait for.  A process   *)
(* is the list of the system calls that it still makes.  A program is      *)
(* either a "source", which ends by itself, or a "filter", which ends when *)
(* its standard input does.  The system calls are those of the kernel, as  *)
(* far as the shell sees them.                                             *)
(***************************************************************************)
EXTENDS Integers, Sequences, FiniteSets

CONSTANTS NPROC,      \* processes 1 .. NPROC; the shell is 1
          NOFILE,     \* descriptors 0 .. NOFILE - 1
          Commands    \* the parsed lines that are run

VARIABLES proc,       \* what each process is
          failed      \* a system call has failed

vars == <<proc, failed>>

Proc == 1 .. NPROC
Shell == 1
Fd == 0 .. NOFILE - 1

\* What a descriptor refers to: id is the process that made the pipe.
End(kind, id) == [kind |-> kind, id |-> id]
None == End("none", 0)
Tty == End("tty", 0)
File == End("file", 0)

\* A step of a process: a system call with a descriptor or a command.
Do(op) == [op |-> op, fd |-> 0, cmd |-> [type |-> "none"]]
Close(fd) == [Do("close") EXCEPT !.fd = fd]
Open(fd) == [Do("open") EXCEPT !.fd = fd]
Fork(side, c) == [Do("fork") EXCEPT !.op = side, !.cmd = c]
Run(c) == [Do("run") EXCEPT !.cmd = c]

\* Mutant: the parent of a pipeline keeps the pipe.
ParentCloses_Not == <<>>

\* The parent closes both ends, p[0] and p[1]; the numbers are those that
\* pipe() returned.
ParentCloses == <<Do("closep0"), Do("closep1")>>

\* The parent of a pipeline waits for both.
Waits == <<Do("wait"), Do("wait")>>

\* runcmd(): what the process does for a command.
runcmd(c) ==
    CASE c.type = "EXEC" -> IF c.prog = "" THEN <<Do("exit")>> ELSE <<[Do("exec") EXCEPT !.cmd = c], Do("exit")>>
      [] c.type = "REDIR" -> <<Close(c.fd), Open(c.fd), Run(c.cmd)>>
      [] c.type = "LIST" -> <<Fork("fork", c.left), Do("wait"), Run(c.right)>>
      [] c.type = "PIPE" -> <<Do("pipe"), Fork("forkleft", c.left), Fork("forkright", c.right)>>
                            \o ParentCloses \o Waits \o <<Do("exit")>>
      [] c.type = "BACK" -> <<Fork("forkback", c.cmd), Do("exit")>>

\* What the children of a pipeline do before runcmd().
LeftPlumbing == <<Close(1), Do("dupp1"), Do("closep0"), Do("closep1")>>
RightPlumbing == <<Close(0), Do("dupp0"), Do("closep0"), Do("closep1")>>

\* The child of each kind of fork.
ChildDoes(op, c) ==
    CASE op = "forkleft" -> LeftPlumbing \o <<Run(c)>>
      [] op = "forkright" -> RightPlumbing \o <<Run(c)>>
      [] OTHER -> <<Run(c)>>

-----------------------------------------------------------------------------
\* fg: no `&' encloses the process.  in, out: what the line says its standard
\* input and output are.  p: the descriptors that pipe() returned.
Unused == [state |-> "unused", parent |-> 0, fds |-> [f \in Fd |-> None], todo |-> <<>>, p |-> <<0, 0>>,
           fg |-> FALSE, in |-> None, out |-> None]

\* main(): descriptors 0 to 2 are the console; a command is forked and waited
\* for, and the shell prompts again.
Init == /\ \E c \in Commands :
             proc = [x \in Proc |->
                        IF x = Shell
                        THEN [Unused EXCEPT !.state = "run", !.in = Tty, !.out = Tty,
                                            !.fds = [f \in Fd |-> IF f <= 2 THEN Tty ELSE None],
                                            !.todo = <<Fork("fork", c), Do("wait"), Do("prompt")>>]
                        ELSE Unused]
        /\ failed = FALSE

Next_(x) == Head(proc[x].todo)
Does(x, op) == proc[x].state = "run" /\ proc[x].todo # <<>> /\ Next_(x).op = op
Rest(x) == Tail(proc[x].todo)
Free(x) == {f \in Fd : proc[x].fds[f] = None}
Lowest(S) == CHOOSE f \in S : \A g \in S : f <= g
With(x, fd, end) == [proc[x] EXCEPT !.fds[fd] = end, !.todo = Rest(x)]
Panics(x) == proc' = [proc EXCEPT ![x].todo = <<Do("exit")>>] /\ failed' = TRUE

Goes(x) == /\ Does(x, "run")
           /\ LET c == Next_(x).cmd
                  redirected == c.type = "REDIR"
              IN proc' = [proc EXCEPT ![x] = [@ EXCEPT
                            !.todo = runcmd(c),
                            !.in = IF redirected /\ c.fd = 0 THEN File ELSE @,
                            !.out = IF redirected /\ c.fd = 1 THEN File ELSE @]]
           /\ UNCHANGED failed

\* The number that a step on a descriptor is about.
Number(x) == CASE Next_(x).op \in {"closep0", "dupp0"} -> proc[x].p[1]
               [] Next_(x).op \in {"closep1", "dupp1"} -> proc[x].p[2]
               [] OTHER -> Next_(x).fd

Closes(x) == /\ \E op \in {"close", "closep0", "closep1"} : Does(x, op)
             /\ proc' = [proc EXCEPT ![x] = With(x, Number(x), None)]
             /\ UNCHANGED failed

Dups(x) == /\ \E op \in {"dupp0", "dupp1"} : Does(x, op)
           /\ proc' = [proc EXCEPT ![x] = With(x, Lowest(Free(x)), @.fds[Number(x)])]
           /\ UNCHANGED failed

\* open() takes the lowest descriptor, or fails and the process exits.
Opens(x) == /\ Does(x, "open")
            /\ \/ proc' = [proc EXCEPT ![x] = With(x, Lowest(Free(x)), File)] /\ UNCHANGED failed
               \/ Panics(x)

Pipes(x) == /\ Does(x, "pipe")
            /\ LET a == Lowest(Free(x))
                   b == Lowest(Free(x) \ {a})
               IN IF Cardinality(Free(x)) < 2 THEN Panics(x)
                  ELSE /\ proc' = [proc EXCEPT ![x] = [@ EXCEPT !.fds[a] = End("r", x), !.fds[b] = End("w", x),
                                                                !.p = <<a, b>>, !.todo = Rest(x)]]
                       /\ UNCHANGED failed

\* fork1(): the child has a copy of the descriptors and of p.
Forks(x) ==
    /\ \E op \in {"fork", "forkleft", "forkright", "forkback"} : Does(x, op)
    /\ LET free == {y \in Proc : proc[y].state = "unused"}
           y == Lowest(free)
           op == Next_(x).op
       IN IF free = {} THEN Panics(x)
          ELSE /\ proc' = [proc EXCEPT
                    ![x].todo = Rest(x),
                    ![y] = [proc[x] EXCEPT !.parent = x, !.todo = ChildDoes(op, Next_(x).cmd),
                                           !.fg = op # "forkback" /\ (x = Shell \/ @),
                                           !.in = IF op = "forkright" THEN End("r", x) ELSE @,
                                           !.out = IF op = "forkleft" THEN End("w", x) ELSE @]]
               /\ UNCHANGED failed

\* wait(): a child that has ended, or no child at all.
Children(x) == {y \in Proc : proc[y].parent = x /\ proc[y].state \in {"run", "zombie"}}
Reaps(x) == /\ Does(x, "wait")
            /\ IF Children(x) = {} THEN proc' = [proc EXCEPT ![x].todo = Rest(x)]
               ELSE \E y \in Children(x) :
                      /\ proc[y].state = "zombie"
                      /\ proc' = [proc EXCEPT ![y].state = "gone", ![x].todo = Rest(x)]
            /\ UNCHANGED failed

\* A program ends: a filter when no process has the write end of its input.
\* exec() may also fail, and then the process exits.
Ended(x) == LET in == proc[x].fds[0]
            IN in.kind # "r" \/ \A y \in Proc, f \in Fd : proc[y].fds[f] # End("w", in.id)
Executes(x) == /\ Does(x, "exec")
               /\ Next_(x).cmd.prog = "filter" => Ended(x)
               /\ proc' = [proc EXCEPT ![x].todo = Rest(x)]
               /\ UNCHANGED failed
ExecFails(x) == Does(x, "exec") /\ Next_(x).cmd.prog = "filter" /\ Panics(x)

\* exit(): the descriptors are closed and init becomes the parent of the
\* children.
Exits(x) == /\ Does(x, "exit")
            /\ proc' = [y \in Proc |->
                  IF y = x THEN [proc[x] EXCEPT !.state = "zombie", !.fds = Unused.fds, !.todo = <<>>]
                  ELSE IF proc[y].parent = x THEN [proc[y] EXCEPT !.parent = 0] ELSE proc[y]]
            /\ UNCHANGED failed

Step(x) == Goes(x) \/ Closes(x) \/ Dups(x) \/ Opens(x) \/ Pipes(x) \/ Forks(x) \/ Reaps(x)
           \/ Executes(x) \/ ExecFails(x) \/ Exits(x)
Next == \E x \in Proc : Step(x)

Spec == Init /\ [][Next]_vars
-----------------------------------------------------------------------------
Prompting == Does(Shell, "prompt")

(* A program is started with the input and the output that the line gives   *)
(* it, and with no other descriptor of the pipes of the line: what runcmd() *)
(* leaves open would keep a reader waiting.                                 *)
Plumbed ==
    \A x \in Proc : Does(x, "exec") =>
        /\ proc[x].fds[0] = proc[x].in
        /\ proc[x].fds[1] = proc[x].out
        /\ \A f \in Fd \ {0, 1} : proc[x].fds[f] = IF f = 2 THEN Tty ELSE None

(* The shell prompts when all that runs in the foreground has ended, unless *)
(* a call failed on the way.                                                *)
ForegroundEnded ==
    Prompting /\ ~failed => \A x \in Proc \ {Shell} : proc[x].fg => proc[x].state # "run"

\* A process has a step to make: it does not wait for a child or for input.
CanStep(x) == /\ proc[x].state = "run" /\ proc[x].todo # <<>> /\ ~Does(x, "prompt")
              /\ Does(x, "wait") => \/ Children(x) = {}
                                   \/ \E y \in Children(x) : proc[y].state = "zombie"
              /\ Does(x, "exec") /\ Next_(x).cmd.prog = "filter" => Ended(x)
Stuck == \A x \in Proc : ~CanStep(x)
AtRest == (Prompting \/ proc[Shell].state = "zombie") /\ Stuck

(* No command line hangs the shell: while it does not prompt and has not    *)
(* exited for want of a process, some process can go on, a reader at the    *)
(* end of its pipe included.                                                *)
ShellGoesOn == Stuck => Prompting \/ proc[Shell].state = "zombie"
=============================================================================
