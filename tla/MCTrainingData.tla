--------------------------- MODULE MCTrainingData ---------------------------
(* Training data of four ignitions, whose results come in two batches      *)
EXTENDS TrainingData

=============================================================================
