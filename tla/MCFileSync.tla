------------------------------ MODULE MCFileSync ------------------------------
(* Instances of FileSync for TLC.                                          *)
EXTENDS FileSync

\* Contents of different sizes.
MCContents == {1, 2}
MCSizeOf   == [c \in MCContents |-> c]

Payload(f, k, d, o) == [file |-> f, key |-> k, delete |-> d, overwrite |-> o]

\* A source that is removed, and its upload by a task that neither looks at the
\* target nor removes it.
SomeJobs == {Payload("f", "k", TRUE, FALSE), Payload("f", "k", FALSE, TRUE)}

\* The payload the daemon gets when only delete_after_sync is set.
DeleteJobs == {Payload("f", "k", TRUE, FALSE)}
=============================================================================
