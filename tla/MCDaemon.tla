------------------------------- MODULE MCDaemon -------------------------------
(* Instances of Daemon for TLC.                                            *)
EXTENDS Daemon

\* Two files in a directory.
MCFiles == {<<"d", "a">>, <<"d", "b">>}

\* The directory; its files are removed.
MCBodies == {<<[from |-> <<"d">>, to |-> <<"t">>, slash |-> FALSE, delete |-> TRUE,
                unique |-> TRUE]>>}
=============================================================================
