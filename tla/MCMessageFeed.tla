--------------------------- MODULE MCMessageFeed ----------------------------
(* Small instances of MessageFeed for TLC. *)
EXTENDS MessageFeed
=============================================================================
