------------------------------ MODULE Training ------------------------------
(***************************************************************************)
(* Training of one experiment directory (train.py) and its checkpoints     *)
(* (utils.py).  A run starts from the checkpoint of the highest epoch,     *)
(* trains epoch after epoch, saves optimizer and model under one name,     *)
(* evicts the worst of four and appends to the log; after the last epoch   *)
(* it saves once more, with an empty heap.  It may be killed between any   *)
(* two of these steps, and only what is on disk survives.                  *)
(*                                                                         *)
(* A file name holds epoch and loss, the loss rounded to four decimals:    *)
(* here two neighbouring losses share a name.  The step is left out, it    *)
(* grows with the epoch.  _atomic_save writes a .tmp file that no reader   *)
(* matches and renames it: one step.                                       *)
(*                                                                         *)
(* A run resumes from the latest checkpoint.  Left out: a -cp given to     *)
(* train (train.py ckpt_path); with an older one, epochs are trained again *)
(* and two files of one epoch may exist.                                   *)
(***************************************************************************)
EXTENDS Integers, Sequences, FiniteSets

CONSTANTS NumEpochs,  \* num_epochs of the config
          Losses,     \* the losses an epoch may end with; NaN may be one
          MaxKills    \* bound: kills in one behaviour

NaN == -1

ASSUME TrainingAssumption ==
    /\ NumEpochs \in Nat \ {0}
    /\ Losses \subseteq Nat \cup {NaN}
    /\ MaxKills \in Nat

VARIABLES pc,      \* what the run does next; "idle" when there is no run
          epoch,   \* the epoch being trained or saved
          loss,    \* the average loss of the epoch trained last
          heap,    \* train_top3, the binary heap of the module heapq
          models,  \* the files in checkpoints/
          optims,  \* the files in checkpoints/optim/
          log,     \* epochs with their rows in train_log.csv
          kills,   \* kills so far
          best     \* history: lowest loss in a name ever saved, NaN if none

vars == <<pc, epoch, loss, heap, models, optims, log, kills, best>>
disk == <<models, optims, log>>

Epochs == 0 .. NumEpochs - 1
None == "none"

-----------------------------------------------------------------------------
\* Names and the heap

\* The four decimals of the name.
Rounded(l) == IF l = NaN THEN NaN ELSE l \div 2

\* A file has a name, and the run that wrote it (history).
File(l, e) == [loss |-> Rounded(l), epoch |-> e, run |-> kills]

SameName(f, g) == f.loss = g.loss /\ f.epoch = g.epoch

\* os.replace and unlink.
Put(files, f) == {g \in files : ~SameName(f, g)} \cup {f}
Unlink(files, f) == {g \in files : ~SameName(f, g)}

\* Mutant: the heap holds the losses and not their negatives.
LessByLoss(a, b) ==
    a.loss < b.loss \/ (a.loss = b.loss /\ a.epoch < b.epoch)

\* heapq orders the tuples (-loss, epoch, ..): a comparison with NaN is false.
Less(a, b) ==
    /\ a.loss # NaN
    /\ b.loss # NaN
    /\ a.loss > b.loss \/ (a.loss = b.loss /\ a.epoch < b.epoch)

Swap(h, i, j) == [h EXCEPT ![i] = h[j], ![j] = h[i]]

\* heapq._siftdown: an entry rises while it is less than its parent, in a heap
\* of four at most twice.
Rises(h, i) == i > 1 /\ Less(h[i], h[i \div 2])

Rise(h, i) ==
    LET once == Swap(h, i, i \div 2)
    IN  IF ~Rises(h, i) THEN h
        ELSE IF Rises(once, i \div 2) THEN Swap(once, i \div 2, i \div 4)
        ELSE once

Push(h, x) == Rise(Append(h, x), Len(h) + 1)

\* heappop of four: the smaller child takes the root's place, the last entry
\* the child's, from where it may rise again.
PopWorst(h) ==
    LET child == IF Less(h[2], h[3]) THEN 2 ELSE 3
    IN  Rise([SubSeq(h, 1, 3) EXCEPT ![1] = h[child], ![child] = h[4]], child)

Worst == File(heap[1].loss, heap[1].epoch)

-----------------------------------------------------------------------------
\* What the readers of the directory find

FindLatest(files) ==
    IF files = {} THEN None
    ELSE CHOOSE f \in files : \A g \in files : g.epoch <= f.epoch

FindBest(files) ==
    LET scored == {f \in files : f.loss # NaN}
    IN  IF scored = {} THEN FindLatest(files)
        ELSE CHOOSE f \in scored : \A g \in scored :
                 \/ f.loss < g.loss
                 \/ f.loss = g.loss /\ f.epoch <= g.epoch

\* Mutant: the epoch of the checkpoint is trained again.
ResumeSameEpoch(files) ==
    IF files = {} THEN 0 ELSE FindLatest(files).epoch

ResumeEpoch(files) ==
    IF files = {} THEN 0 ELSE FindLatest(files).epoch + 1

-----------------------------------------------------------------------------
\* One run

Init ==
    /\ pc = "idle"
    /\ epoch = 0
    /\ loss = 0
    /\ heap = <<>>
    /\ models = {} /\ optims = {} /\ log = {}
    /\ kills = 0
    /\ best = NaN

\* train() finds its start; there is nothing to do behind the last epoch.
Start ==
    /\ pc = "idle"
    /\ ResumeEpoch(models) < NumEpochs
    /\ pc' = "epoch"
    /\ epoch' = ResumeEpoch(models)
    /\ loss' = IF models = {} THEN 0 ELSE FindLatest(models).loss
    /\ heap' = <<>>
    /\ UNCHANGED <<disk, kills, best>>

\* The batches of one epoch.  Weights that became NaN stay NaN.
TrainEpoch ==
    /\ pc = "epoch"
    /\ loss' \in IF loss = NaN THEN {NaN} ELSE Losses
    /\ pc' = "optim"
    /\ UNCHANGED <<epoch, heap, disk, kills, best>>

SaveOptim ==
    /\ pc \in {"optim", "final_optim"}
    /\ optims' = Put(optims, File(loss, epoch))
    /\ pc' = IF pc = "optim" THEN "model" ELSE "final_model"
    /\ UNCHANGED <<epoch, loss, heap, models, log, kills, best>>

Lower(l, b) == IF l # NaN /\ (b = NaN \/ l < b) THEN l ELSE b

SaveModel ==
    /\ pc = "model"
    /\ models' = Put(models, File(loss, epoch))
    /\ heap' = Push(heap, [loss |-> loss, epoch |-> epoch])
    /\ pc' = IF Len(heap') > 3 THEN "evict" ELSE "log"
    /\ best' = Lower(Rounded(loss), best)
    /\ UNCHANGED <<epoch, loss, optims, log, kills>>

\* Mutant: the optimizer's file is removed first.
EvictOptimFirst ==
    /\ pc = "evict"
    /\ optims' = Unlink(optims, Worst)
    /\ pc' = "evict_optim"
    /\ UNCHANGED <<epoch, loss, heap, models, log, kills, best>>

\* The heap is popped, then the model file is removed, then its optimizer's.
EvictModel ==
    /\ pc = "evict"
    /\ models' = Unlink(models, Worst)
    /\ pc' = "evict_optim"
    /\ UNCHANGED <<epoch, loss, heap, optims, log, kills, best>>

EvictOptim ==
    /\ pc = "evict_optim"
    /\ optims' = Unlink(optims, Worst)
    /\ heap' = PopWorst(heap)
    /\ pc' = "log"
    /\ UNCHANGED <<epoch, loss, models, log, kills, best>>

\* Mutant: range(start_epoch, num_epochs + 1).
AppendLogOneMore ==
    /\ pc = "log"
    /\ log' = log \cup {epoch}
    /\ IF epoch < NumEpochs
       THEN pc' = "epoch" /\ epoch' = epoch + 1
       ELSE pc' = "final_optim" /\ UNCHANGED epoch
    /\ UNCHANGED <<loss, heap, models, optims, kills, best>>

\* The rows are appended to train_log.csv; the next epoch, or the last save.
AppendLog ==
    /\ pc = "log"
    /\ log' = log \cup {epoch}
    /\ IF epoch + 1 < NumEpochs
       THEN pc' = "epoch" /\ epoch' = epoch + 1
       ELSE pc' = "final_optim" /\ UNCHANGED epoch
    /\ UNCHANGED <<loss, heap, models, optims, kills, best>>

\* Mutant: there is no save after the loop.
NoFinalModel ==
    /\ pc = "final_model"
    /\ heap' = <<>>
    /\ pc' = "idle"
    /\ UNCHANGED <<epoch, loss, models, optims, log, kills, best>>

\* The save after the loop passes an empty heap: nothing is evicted.
FinalModel ==
    /\ pc = "final_model"
    /\ models' = Put(models, File(loss, epoch))
    /\ heap' = <<>>
    /\ pc' = "idle"
    /\ UNCHANGED <<epoch, loss, optims, log, kills, best>>

Kill ==
    /\ pc # "idle"
    /\ kills < MaxKills
    /\ kills' = kills + 1
    /\ pc' = "idle"
    /\ heap' = <<>>
    /\ UNCHANGED <<epoch, loss, disk, best>>

Next ==
    \/ Start \/ TrainEpoch \/ SaveOptim \/ SaveModel \/ EvictModel
    \/ EvictOptim \/ AppendLog \/ FinalModel \/ Kill

Spec == Init /\ [][Next]_vars

-----------------------------------------------------------------------------
\* Properties

TypeOK ==
    /\ pc \in {"idle", "epoch", "optim", "model", "evict", "evict_optim",
               "log", "final_optim", "final_model"}
    /\ epoch \in Epochs
    /\ loss \in Nat \cup {NaN}
    /\ heap \in Seq([loss : Nat \cup {NaN}, epoch : Epochs])
    /\ models \subseteq [loss : Nat \cup {NaN}, epoch : Epochs, run : Nat]
    /\ optims \subseteq [loss : Nat \cup {NaN}, epoch : Epochs, run : Nat]
    /\ log \subseteq Epochs
    /\ kills \in 0 .. MaxKills
    /\ best \in Nat \cup {NaN}

(***************************************************************************)
(* Whatever a kill interrupts, what a later run starts from is definite:   *)
(* no two checkpoints have the same epoch, and each has its optimizer      *)
(* state beside it, written by the same run.                               *)
(***************************************************************************)
ResumePaired ==
    /\ models \subseteq optims
    /\ \A f, g \in models : f.epoch = g.epoch => f = g

(***************************************************************************)
(* update_trained.sh takes a varloc for trained when it has a checkpoint   *)
(* of the last epoch: a run that ends by itself leaves one, even if that   *)
(* epoch was the worst of four and was evicted.                            *)
(***************************************************************************)
EndsTrained ==
    [][pc # "idle" /\ pc' = "idle" /\ kills' = kills
        => \E f \in models' : f.epoch = NumEpochs - 1]_vars

(***************************************************************************)
(* The heap is train_top3: the lowest loss that was ever saved can be      *)
(* evicted by no later epoch of any run, and find_best_checkpoint, which   *)
(* evaluate, run and bundle use, finds it.                                 *)
(***************************************************************************)
BestSurvives ==
    best # NaN => models # {} /\ FindBest(models).loss = best

=============================================================================
