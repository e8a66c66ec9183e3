---------------------------- MODULE MCRemoteWrite ----------------------------
(* Small instances of RemoteWrite: one collector, one hub.                 *)
EXTENDS RemoteWrite
=============================================================================
