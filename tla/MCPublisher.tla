----------------------------- MODULE MCPublisher -----------------------------
(* Instances of Publisher for TLC.                                         *)
EXTENDS Publisher

\* Two files in a directory below a directory.
MCFiles == {<<"d", "e", "a">>, <<"d", "b">>}

Unique(from, to) == [from |-> from, to |-> to, slash |-> FALSE, delete |-> TRUE,
                     unique |-> TRUE]
Plain(from, to)  == [from |-> from, to |-> to, slash |-> TRUE, delete |-> FALSE,
                     unique |-> FALSE]

\* No item; the directory; one of the files after the directory, to the target
\* that this gave it; the other file to that target.
MCBodies == {<<>>,
             <<Unique(<<"d">>, <<"t">>)>>,
             <<Plain(<<"d", "e">>, <<"t", "e">>), Unique(<<"d", "b">>, <<"t", "e", "a">>)>>}
=============================================================================
