------------------------------ MODULE MCNotify ------------------------------
(* The instance of Notify for TLC: processes, runs and spellings are alike. *)
EXTENDS Notify, TLC
CONSTANTS s1, s2, s3, r1, r2, relative, absolute

Exchangeable ==
    Permutations({s1, s2, s3}) \cup Permutations({r1, r2}) \cup Permutations({relative, absolute})
=============================================================================
