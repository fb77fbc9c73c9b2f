---------------------------- MODULE MCExperiment ----------------------------
(* Two models, and two sets of layers: a whole varloc, and a part of it or  *)
(* those that the path flags name.                                          *)
EXTENDS Experiment, TLC

Train ==
    [method |-> "train", name |-> "ca", layers |-> "whole", ckpt |-> FALSE, stats |-> FALSE,
     pt |-> FALSE, cloud |-> FALSE]

Run == [Train EXCEPT !.method = "run", !.layers = "part"]

SomeCommands ==
    {Train,
     [Train EXCEPT !.layers = "part"],
     [Train EXCEPT !.ckpt = TRUE],
     [Train EXCEPT !.cloud = TRUE],
     [Train EXCEPT !.name = "or", !.layers = "part"],
     [Train EXCEPT !.method = "evaluate"],
     Run,
     [Run EXCEPT !.ckpt = TRUE],
     [Run EXCEPT !.stats = TRUE],
     [Run EXCEPT !.cloud = TRUE],
     [Run EXCEPT !.pt = TRUE],
     [Train EXCEPT !.method = "bundle"],
     [Train EXCEPT !.method = "bundle", !.ckpt = TRUE],
     [Train EXCEPT !.method = "bundle", !.stats = TRUE]}

\* The processes are alike.
Symmetry == Permutations(Procs)

=============================================================================
