------------------------------ MODULE Download ------------------------------
(***************************************************************************)
(* What the download of one announced file promises to its user, whatever  *)
(* the threads, the queue and the sources do.  Chunks are stored one by    *)
(* one and never dropped; the download is complete only when all of them   *)
(* are stored; success is announced only after completion.  Module Swarm   *)
(* (src/transfer/torrent.py) implements this specification.                *)
(***************************************************************************)
CONSTANT Chunks

VARIABLES
    stored,      \* chunks whose verified bytes are in memory
    complete,    \* the download has been declared complete
    announced    \* the user has been told that the file is saved

vars == <<stored, complete, announced>>

Init ==
    /\ stored = {}
    /\ complete = FALSE
    /\ announced = FALSE

Store(c) ==
    /\ stored' = stored \union {c}
    /\ UNCHANGED <<complete, announced>>

Complete ==
    /\ stored = Chunks
    /\ complete' = TRUE
    /\ UNCHANGED <<stored, announced>>

Announce ==
    /\ complete
    /\ announced' = TRUE
    /\ UNCHANGED <<stored, complete>>

Next ==
    \/ \E c \in Chunks : Store(c)
    \/ Complete
    \/ Announce

Spec == Init /\ [][Next]_vars
=============================================================================
