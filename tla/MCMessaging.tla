----------------------------- MODULE MCMessaging ------------------------------
(* Small instances of Messaging for TLC.                                   *)
EXTENDS Messaging

\* A small packet, and one byte more than a frame may have.
BoundarySizes == {1, MaxFrame + 1}
=============================================================================
