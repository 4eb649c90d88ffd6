---------------------------- MODULE MCDiscovery -----------------------------
(* A small instance of Discovery for TLC.  The unit of time is 5 s, so the *)
(* intervals of the code, 30, 5, 90 and 30 s, are 6, 1, 18 and 6.          *)
EXTENDS Discovery
=============================================================================
