---------------------------- MODULE MCPublishing ----------------------------
(***************************************************************************)
(* Publishing with the published inputs version v0, a version v1 and one   *)
(* model version of each of two varlocs.                                   *)
(***************************************************************************)
EXTENDS Publishing, TLC

CONSTANTS v0, v1, m1, m2, a, b, i1, i2, k2, j1, j2, c1, c2, tif, sync

TwoVarlocs == [m \in ModelVersions |-> IF m = m1 THEN a ELSE b]
OneLayer == <<"varlocs">>

(* i1 publishes v1 and i2 does so again; the jobs publish a model each, k2 *)
(* both                                                                    *)
WhatIsPublished ==
  [p \in Publishers |->
     CASE p = j1 -> <<m1>> [] p = j2 -> <<m2>> [] p = k2 -> <<m1, m2>> [] OTHER -> <<v1>>]

AllForA == [c \in Posts |-> a]

(* i1 and i2 publish the same, and the jobs are alike with their models    *)
(* and varlocs                                                             *)
SwapJobs == (j1 :> j2) @@ (j2 :> j1) @@ (m1 :> m2) @@ (m2 :> m1) @@ (a :> b) @@ (b :> a)
Symmetry == Permutations({i1, i2}) \cup {SwapJobs}

=============================================================================
