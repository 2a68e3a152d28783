-------------------------- MODULE MCThreadManager ---------------------------
(* Two workers; as many thread identifiers as the interesting cases need.   *)
EXTENDS ThreadManager
=============================================================================
