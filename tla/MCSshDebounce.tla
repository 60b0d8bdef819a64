---------------------------- MODULE MCSshDebounce ----------------------------
(* Instances of SshDebounce for TLC.                                       *)
EXTENDS SshDebounce, TLC
=============================================================================
