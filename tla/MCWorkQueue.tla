---------------------------- MODULE MCWorkQueue -----------------------------
(* WorkQueue with two workers and at most one mark *)
EXTENDS WorkQueue

CONSTANTS w1, w2, m1

=============================================================================
