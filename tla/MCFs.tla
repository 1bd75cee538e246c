-------------------------------- MODULE MCFs --------------------------------
(* Two processes work on a disk of three inodes. *)
EXTENDS Fs, TLC

MCWorkload ==
    {[calls |-> {"creat", "open", "unlink", "crash"}, paths |-> {<<"a">>}, links |-> {},
      roots |-> {TRUE}],
     [calls |-> {"mknod", "link", "unlink"}, paths |-> {<<"a">>, <<"b">>}, links |-> {<<"b">>},
      roots |-> {TRUE}],
     [calls |-> {"mkdir", "chdir", "unlink"}, paths |-> {<<"a">>}, links |-> {},
      roots |-> {FALSE}],
     [calls |-> {"mkdir", "uniq", "unlink"}, paths |-> {<<"a">>, <<"a", "b">>},
      links |-> {}, roots |-> {TRUE}]}

\* Two processes create and remove the same file, as concreate() of
\* usertests.c does.
MCConcreate == {[calls |-> {"creat", "unlink"}, paths |-> {<<"a">>}, links |-> {}, roots |-> {TRUE}]}

Symmetry == Permutations(Proc)

=============================================================================
