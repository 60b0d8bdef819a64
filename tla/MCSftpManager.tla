----------------------------- MODULE MCSftpManager -----------------------------
(* Instances of SftpManager for TLC.                                       *)
EXTENDS SftpManager, TLC
=============================================================================
