------------------------------ MODULE MCSeeding -------------------------------
(* A small instance of Seeding for TLC.                                    *)
EXTENDS Seeding, TLC

\* Bytes other than the line break are interchangeable.
Symmetry == Permutations(Bytes \ {NewLine})
=============================================================================
