----------------------------- MODULE MCTransfer -----------------------------
(* Small instances of Transfer for TLC.                                    *)
EXTENDS Transfer

CONSTANT s

\* At first only node s has the files.
OnlyS(f) == {s}

\* All the files have the same name, in different directories of the seeders.
OneName(f) == "name"
=============================================================================
