------------------------------ MODULE MCSftpUpload ------------------------------
(* Instances of SftpUpload for TLC.                                        *)
EXTENDS SftpUpload, TLC

\* An empty content, and two of two blocks.
MCContents == {<<>>, <<"a", "b">>, <<"c", "d">>}
MCBlocks   == {"a", "b", "c", "d"}

\* All keys are hashed to one lock.
OneLock == [k \in Keys |-> "s"]
=============================================================================
