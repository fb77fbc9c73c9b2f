----------------------------- MODULE MCTraining -----------------------------
(* Training with few epochs and losses                                     *)
EXTENDS Training

\* Four decimals tell 0 from 2, not 0 from 1.
SomeLosses == {0, 1, 2, 4}

=============================================================================
