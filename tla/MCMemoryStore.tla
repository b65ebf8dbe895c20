---------------------------- MODULE MCMemoryStore ----------------------------
(* Instances of MemoryStore: two configured clients, and one whose key was  *)
(* taken out of the configuration.                                          *)
EXTENDS MemoryStore

MCTargets == <<"acme", "globex">>
=============================================================================
