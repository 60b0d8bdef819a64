--------------------------- MODULE MCExistenceCache ---------------------------
(* Instances of ExistenceCache for TLC.                                    *)
EXTENDS ExistenceCache, TLC

\* Checks of one kind are interchangeable, and so are paths and sizes, in the
\* runs that check no liveness property.
Symmetry == Permutations(Checks) \cup Permutations(Uploads)
              \cup Permutations(Sizes)
=============================================================================
