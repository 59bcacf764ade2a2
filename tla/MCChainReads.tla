---------------------------- MODULE MCChainReads ----------------------------
(* An instance of ChainReads for TLC: two checks at once of one writer.        *)
EXTENDS ChainReads, TLC

CONSTANTS c1, c2, ip

\* A proof attested by the newest block at first and by the one above it.
Stamped == {{<<1, 0>>, <<2, 0>>}}

Interchangeable == Permutations(Checks)
=============================================================================
