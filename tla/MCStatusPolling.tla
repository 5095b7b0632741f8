--------------------------- MODULE MCStatusPolling ---------------------------
(* TLC instances of StatusPolling. *)
EXTENDS StatusPolling, TLC

CONSTANTS t1, t2, s1, s2, s3, k1

MCSymmetry == Permutations({t1, t2}) \cup Permutations({s1, s2, s3})
=============================================================================
