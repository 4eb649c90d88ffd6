------------------------------ MODULE MCSwarm -------------------------------
(* Small instances of Swarm for TLC.                                       *)
EXTENDS Swarm
=============================================================================
