------------------------------ MODULE MCLogFeed ------------------------------
(* A small instance of LogFeed for TLC.                                    *)
EXTENDS LogFeed
=============================================================================
