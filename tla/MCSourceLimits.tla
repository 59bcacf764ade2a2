--------------------------- MODULE MCSourceLimits ---------------------------
(* SourceLimits for TLC; its sources are interchangeable.                    *)
EXTENDS SourceLimits

Pseudonyms == Permutations(Sources)
=============================================================================
