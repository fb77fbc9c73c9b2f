---------------------------- MODULE MCRunClaims -----------------------------
(***************************************************************************)
(* RunClaims on small instances.  The deadlines keep the order of the real *)
(* ones: trigger (90 s) and run (20 min) fit below the stale age (25 min). *)
(***************************************************************************)
EXTENDS RunClaims, TLC

CONSTANTS r1, r2, r3, q1, p1, p2

(* requests and pushes are interchangeable in Init, Next and the properties *)
Symmetry == Permutations({r1, r2, r3}) \cup Permutations({p1, p2})

=============================================================================
