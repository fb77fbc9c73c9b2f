-------------------------- MODULE Experiment_proofs --------------------------
(***************************************************************************)
(* Proofs about Experiment: the statistics that networks are used with,    *)
(* for any commands, processes and kills.  All of it rests on one fact:    *)
(* where no two computations of a directory's statistics overlapped, they  *)
(* stay once they are written (StatsStay), because who computes them found *)
(* none.                                                                   *)
(***************************************************************************)
EXTENDS Experiment, TLAPS

\* Variables are functions with the right domains, whatever their values.
Shape ==
    /\ pc = [p \in Procs |-> pc[p]] /\ cmd = [p \in Procs |-> cmd[p]]
    /\ used = [p \in Procs |-> used[p]] /\ model = [p \in Procs |-> model[p]]
    /\ dirs = [n \in Names |-> [exists |-> dirs[n].exists, stats |-> dirs[n].stats,
                                models |-> dirs[n].models]]
    /\ bundles = [n \in Names |-> [exists |-> bundles[n].exists, files |-> bundles[n].files]]
    /\ given \in 0 .. MaxCommands /\ saves \in Nat

StatsTyped == \A n \in Names : dirs[n].stats \in {None, Empty} \cup Computed

Fits(n, s) == s = dirs[n].stats /\ s \in Computed

\* Of which directory a checkpoint is, and that it fits it.
ModelFits(n, m) ==
    TrainedHere(m, n) => m.stats = {dirs[n].stats} /\ dirs[n].stats \in Computed

ModelOK(m) == m.dirs # {} /\ \A n \in Names : ModelFits(n, m)

Writers == {"truncate", "write"}
Putters == {"mkdir", "model.pt"}

\* One command at a time computes the statistics of a directory.
Exclusive ==
    \A p, q \in Procs :
        /\ pc[p] \in Writers /\ pc[q] \in Writers
        /\ Here(p) = Here(q) /\ Here(p) \notin raced
        => p = q

\* The statistics of a dataset that is normalized fit the directory.
UsedFits(p) ==
    /\ used[p] \in Computed \cup {Configured}
    /\ used[p] # Configured /\ used[p].written /\ Here(p) \notin raced =>
         Fits(Here(p), used[p])

\* Where a process is tells what it holds.
ProcOK(p) ==
    /\ pc[p] # "idle" => cmd[p] \in Commands
    /\ pc[p] \in Writers =>
         /\ used[p] \in Computed
         /\ Here(p) \notin raced => dirs[Here(p)].stats \in {None, Empty}
    /\ pc[p] \in {"epoch", "infer"} => UsedFits(p)
    /\ pc[p] = "epoch" => used[p] \in Computed
    /\ pc[p] \in Writers \cup {"construct", "epoch", "infer"} =>
         model[p] = None \/ ModelOK(model[p])
    /\ pc[p] \in Putters \cup {"remove"} => ModelOK(model[p])

ProcsOK == \A p \in Procs : ProcOK(p)

ModelsFit == \A m \in Checkpoints : ModelOK(m)

\* Checkpoints are numbered, so that each set of them has a latest.
HasLatest(models) == \E m \in models : \A o \in models : o.no <= m.no
Numbered ==
    \A n \in Names :
        /\ \A m \in dirs[n].models : m.no \in Nat /\ m.no <= saves
        /\ \A models \in SUBSET dirs[n].models : models # {} => HasLatest(models)

\* A bundle directory has a model of its own, or is about to get one.
OwnIn(n) == \E f \in bundles[n].files : f.name = "model.pt" /\ TrainedHere(f.content, n)
OwnComes(n) ==
    \E p \in Procs : pc[p] \in Putters /\ Here(p) = n /\ TrainedHere(model[p], n)

FileFits(n, f) ==
    /\ f.name = "model.pt" => ModelOK(f.content)
    /\ f.name = "stats.yaml" /\ (OwnIn(n) \/ OwnComes(n)) =>
         f.content = Configured \/ Fits(n, f.content)

FilesFit == \A n \in Names : \A f \in bundles[n].files : FileFits(n, f)

ResultFits(r) ==
    TrainedHere(r.model, r.dir) /\ r.stats # Configured /\ r.stats.written =>
        r.model.stats = {r.stats}

ResultsFit == \A r \in results : ResultFits(r)

\* The inductive invariant.
IInv ==
    Shape /\ StatsTyped /\ Exclusive /\ ProcsOK /\ ModelsFit /\ Numbered /\ FilesFit
      /\ ResultsFit

-----------------------------------------------------------------------------
\* What a step of p leaves alone

Others(p) ==
    \A q \in Procs \ {p} :
        pc'[q] = pc[q] /\ cmd'[q] = cmd[q] /\ used'[q] = used[q] /\ model'[q] = model[q]

\* Statistics that are there are not written again.
StatsStay ==
    /\ raced \subseteq raced'
    /\ \A n \in Names \ raced' : dirs[n].stats \in Computed => dirs'[n].stats = dirs[n].stats

\* Nobody writes the statistics that another computes.
ComputedAlone(p) ==
    \A q \in Procs \ {p} :
        pc[q] \in Writers /\ Here(q) \notin raced' =>
            dirs'[Here(q)].stats = dirs[Here(q)].stats

LEMMA NameIn ==
    ASSUME IInv, NEW p \in Procs, pc[p] # "idle"
    PROVE  cmd[p] \in Commands /\ Here(p) \in Names
  BY ExperimentAssumption DEF IInv, ProcsOK, ProcOK, Here

LEMMA TrainedStays ==
    ASSUME StatsStay, NEW n, NEW m
    PROVE  TrainedHere(m, n)' => TrainedHere(m, n)
  BY DEF StatsStay, TrainedHere

LEMMA ModelStays ==
    ASSUME StatsStay, NEW m, ModelOK(m)
    PROVE  ModelOK(m)'
<1> SUFFICES ASSUME NEW n \in Names, TrainedHere(m, n)'
             PROVE  m.stats = {dirs'[n].stats} /\ dirs'[n].stats \in Computed
  BY DEF ModelOK, ModelFits
<1>1. TrainedHere(m, n) /\ n \notin raced'
  BY TrainedStays DEF TrainedHere
<1> QED
  BY <1>1 DEF ModelOK, ModelFits, StatsStay

LEMMA OthersStay ==
    ASSUME IInv, NEW p \in Procs, Others(p), StatsStay, ComputedAlone(p)
    PROVE  \A q \in Procs \ {p} : ProcOK(q)'
<1> SUFFICES ASSUME NEW q \in Procs \ {p}
             PROVE  ProcOK(q)'
  OBVIOUS
<1>1. pc'[q] = pc[q] /\ cmd'[q] = cmd[q] /\ used'[q] = used[q] /\ model'[q] = model[q]
  BY DEF Others
<1>2. ProcOK(q) /\ (Here(q))' = Here(q)
  BY <1>1 DEF IInv, ProcsOK, Here
<1>3. pc[q] \in Writers /\ Here(q) \notin raced' => dirs'[Here(q)].stats \in {None, Empty}
  BY <1>2 DEF ComputedAlone, StatsStay, ProcOK
<1>4. pc[q] \in {"epoch", "infer"} => UsedFits(q)'
  <2> SUFFICES ASSUME pc[q] \in {"epoch", "infer"}
               PROVE  UsedFits(q)'
    OBVIOUS
  <2>1. Here(q) \in Names
    BY NameIn
  <2>2. UsedFits(q)
    BY <1>2 DEF ProcOK
  <2> QED
    BY <1>1, <1>2, <2>1, <2>2 DEF UsedFits, StatsStay, Fits
<1>5. ModelOK(model[q]) => ModelOK(model[q])'
  <2>1. PICK m : m = model[q]
    OBVIOUS
  <2>2. ModelOK(m) => ModelOK(m)'
    BY ModelStays
  <2> QED
    BY <1>1, <2>1, <2>2 DEF ModelOK, ModelFits, TrainedHere
<1> QED
  BY <1>1, <1>2, <1>3, <1>4, <1>5 DEF ProcOK, Writers, Putters

LEMMA ExclusiveStays ==
    ASSUME IInv, NEW p \in Procs, Others(p), StatsStay, cmd'[p] = cmd[p],
           pc'[p] \in Writers => pc[p] \in Writers
    PROVE  Exclusive'
<1> SUFFICES ASSUME NEW q \in Procs, NEW r \in Procs, pc'[q] \in Writers,
                    pc'[r] \in Writers, Here(q)' = Here(r)', Here(q)' \notin raced'
             PROVE  q = r
  BY DEF Exclusive
<1>1. pc[q] \in Writers /\ pc[r] \in Writers
  BY DEF Others
<1>2. Here(q)' = Here(q) /\ Here(r)' = Here(r)
  BY DEF Others, Here
<1> QED
  BY <1>1, <1>2 DEF IInv, Exclusive, StatsStay

LEMMA ModelsStay ==
    ASSUME IInv, StatsStay, saves' = saves,
           \A n \in Names : dirs'[n].models = dirs[n].models
    PROVE  ModelsFit' /\ Numbered'
<1>1. Checkpoints' = Checkpoints
  BY DEF Checkpoints
<1>2. \A m \in Checkpoints : ModelOK(m)'
  BY ModelStays DEF IInv, ModelsFit
<1>3. ModelsFit'
  BY <1>1, <1>2 DEF ModelsFit
<1>4. Numbered'
  BY DEF IInv, Numbered, HasLatest
<1> QED
  BY <1>3, <1>4

\* What a bundle with a model of its own tells of the directory.
LEMMA OwnComputed ==
    ASSUME IInv, NEW n \in Names, OwnIn(n) \/ OwnComes(n)
    PROVE  n \notin raced /\ dirs[n].stats \in Computed
<1>1. ASSUME OwnIn(n)
      PROVE  \E m : ModelOK(m) /\ TrainedHere(m, n)
  <2>1. PICK f \in bundles[n].files : f.name = "model.pt" /\ TrainedHere(f.content, n)
    BY <1>1 DEF OwnIn
  <2>2. ModelOK(f.content)
    BY <2>1 DEF IInv, FilesFit, FileFits
  <2> QED
    BY <2>1, <2>2
<1>2. ASSUME OwnComes(n)
      PROVE  \E m : ModelOK(m) /\ TrainedHere(m, n)
  <2>1. PICK p \in Procs : pc[p] \in Putters /\ Here(p) = n /\ TrainedHere(model[p], n)
    BY <1>2 DEF OwnComes
  <2>2. ModelOK(model[p])
    BY <2>1 DEF IInv, ProcsOK, ProcOK
  <2> QED
    BY <2>1, <2>2
<1>3. PICK m : ModelOK(m) /\ TrainedHere(m, n)
  BY <1>1, <1>2
<1> QED
  BY <1>3 DEF ModelOK, ModelFits, TrainedHere

\* A file fits after a step if it fitted and no model is new to its bundle.
LEMMA FileStays ==
    ASSUME IInv, StatsStay, NEW n \in Names, NEW f, FileFits(n, f),
           (OwnIn(n) \/ OwnComes(n))' => OwnIn(n) \/ OwnComes(n)
    PROVE  FileFits(n, f)'
<1>1. f.name = "model.pt" => ModelOK(f.content)'
  <2>1. ModelOK(f.content) => ModelOK(f.content)'
    BY ModelStays
  <2> QED
    BY <2>1 DEF FileFits
<1>2. f.name = "stats.yaml" /\ (OwnIn(n) \/ OwnComes(n))' =>
        f.content = Configured \/ Fits(n, f.content)'
  <2> SUFFICES ASSUME f.name = "stats.yaml", (OwnIn(n) \/ OwnComes(n))',
                      f.content # Configured
               PROVE  Fits(n, f.content)'
    OBVIOUS
  <2>1. Fits(n, f.content)
    BY DEF FileFits
  <2>2. n \notin raced'
    BY DEF OwnIn, OwnComes, TrainedHere
  <2> QED
    BY <2>1, <2>2 DEF Fits, StatsStay
<1> QED
  BY <1>1, <1>2 DEF FileFits

\* No model is new to a bundle in a step that puts none and lets none come.
LEMMA OwnStays ==
    ASSUME IInv, NEW p \in Procs, Others(p), StatsStay, NEW n \in Names,
           \A f \in bundles'[n].files : f.name = "model.pt" => f \in bundles[n].files,
           pc'[p] \in Putters =>
               pc[p] \in Putters /\ cmd'[p] = cmd[p] /\ model'[p] = model[p]
    PROVE  (OwnIn(n) \/ OwnComes(n))' => OwnIn(n) \/ OwnComes(n)
<1>1. ASSUME OwnIn(n)'
      PROVE  OwnIn(n)
  <2>1. PICK f \in bundles'[n].files : f.name = "model.pt" /\ TrainedHere(f.content, n)'
    BY <1>1 DEF OwnIn
  <2>2. TrainedHere(f.content, n)
    BY <2>1, TrainedStays
  <2> QED
    BY <2>1, <2>2 DEF OwnIn
<1>2. ASSUME OwnComes(n)'
      PROVE  OwnComes(n)
  <2>1. PICK q \in Procs : pc'[q] \in Putters /\ Here(q)' = n /\ TrainedHere(model[q], n)'
    BY <1>2 DEF OwnComes
  <2>2. pc[q] \in Putters /\ cmd'[q] = cmd[q] /\ model'[q] = model[q]
    BY <2>1 DEF Others
  <2>3. Here(q) = n
    BY <2>1, <2>2 DEF Here
  <2>4. TrainedHere(model[q], n)
    BY <2>1, <2>2 DEF TrainedHere, StatsStay
  <2> QED
    BY <2>2, <2>3, <2>4 DEF OwnComes
<1> QED
  BY <1>1, <1>2

LEMMA FilesStay ==
    ASSUME IInv, NEW p \in Procs, Others(p), StatsStay,
           \A n \in Names : bundles'[n].files \subseteq bundles[n].files,
           pc'[p] \in Putters =>
               pc[p] \in Putters /\ cmd'[p] = cmd[p] /\ model'[p] = model[p]
    PROVE  FilesFit'
<1> SUFFICES ASSUME NEW n \in Names, NEW f \in bundles'[n].files
             PROVE  FileFits(n, f)'
  BY DEF FilesFit
<1>1. FileFits(n, f)
  BY DEF IInv, FilesFit
<1>2. (OwnIn(n) \/ OwnComes(n))' => OwnIn(n) \/ OwnComes(n)
  BY OwnStays
<1> QED
  BY <1>1, <1>2, FileStays

LEMMA ResultsStay ==
    ASSUME IInv, StatsStay, UNCHANGED results
    PROVE  ResultsFit'
<1> SUFFICES ASSUME NEW r \in results
             PROVE  ResultFits(r)'
  BY DEF ResultsFit
<1>1. ResultFits(r)
  BY DEF IInv, ResultsFit
<1>2. TrainedHere(r.model, r.dir)' => TrainedHere(r.model, r.dir)
  BY TrainedStays
<1> QED
  BY <1>1, <1>2 DEF ResultFits

\* Steps that leave directories alone.
LEMMA DirsSame ==
    ASSUME IInv, NEW p \in Procs, dirs' = dirs, saves' = saves, raced \subseteq raced'
    PROVE  StatsStay /\ ComputedAlone(p) /\ StatsTyped' /\ ModelsFit' /\ Numbered'
<1>1. StatsStay /\ ComputedAlone(p)
  BY DEF StatsStay, ComputedAlone
<1>2. StatsTyped'
  BY DEF IInv, StatsTyped
<1> QED
  BY <1>1, <1>2, ModelsStay

\* A step of p preserves the invariant if it does so where p is concerned.
LEMMA ProcStep ==
    ASSUME IInv, NEW p \in Procs, Shape', Others(p), StatsStay, ComputedAlone(p),
           StatsTyped', Exclusive', ProcOK(p)', ModelsFit', Numbered', FilesFit',
           ResultsFit'
    PROVE  IInv'
  BY OthersStay DEF IInv, ProcsOK

-----------------------------------------------------------------------------
\* The initial state

LEMMA InitOK == Init => IInv
<1> SUFFICES ASSUME Init
             PROVE  IInv
  OBVIOUS
<1>1. Shape /\ StatsTyped
  BY ExperimentAssumption DEF Init, Shape, StatsTyped
<1>2. Exclusive /\ ProcsOK
  BY DEF Init, Exclusive, ProcsOK, ProcOK, Writers, Putters
<1>3. ModelsFit /\ Numbered
  BY DEF Init, Checkpoints, ModelsFit, Numbered
<1>4. FilesFit /\ ResultsFit
  BY DEF Init, FilesFit, ResultsFit
<1> QED
  BY <1>1, <1>2, <1>3, <1>4 DEF IInv

-----------------------------------------------------------------------------
\* Steps

LEMMA LatestIn ==
    ASSUME NEW models, models = {} \/ HasLatest(models)
    PROVE  Latest(models) \subseteq models
  BY DEF Latest, HasLatest

\* What a command starts from.
LEMMA StartOK ==
    ASSUME IInv, NEW c \in Commands, NEW m \in Start(c)
    PROVE  /\ m = None \/ ModelOK(m)
           /\ c.method = "bundle" => ModelOK(m)
<1>1. /\ c.name \in Names
      /\ c.method \in {"train", "evaluate", "run", "bundle"} /\ c.ckpt \in BOOLEAN
      /\ c.pt \in BOOLEAN
  BY ExperimentAssumption
<1>2. \A o \in Checkpoints : ModelOK(o)
  BY DEF IInv, ModelsFit
<1>3. dirs[c.name].models \subseteq Checkpoints
  BY <1>1 DEF Checkpoints
<1>4. Latest(dirs[c.name].models) \subseteq dirs[c.name].models
  BY <1>1, LatestIn DEF IInv, Numbered
<1>5. CASE c.method = "run" \/ (c.method = "evaluate" /\ c.pt)
  BY <1>5 DEF Start
<1>6. CASE ~(c.method = "run" \/ (c.method = "evaluate" /\ c.pt)) /\ c.ckpt
  <2>1. Start(c) = Checkpoints
    BY <1>6 DEF Start
  <2> QED
    BY <1>2, <2>1
<1>7. CASE c.method = "train" /\ ~c.ckpt
  <2>1. Start(c) \subseteq {None} \cup dirs[c.name].models
    BY <1>4, <1>7 DEF Start
  <2> QED
    BY <1>2, <1>3, <1>7, <2>1
<1>8. CASE /\ ~(c.method = "run" \/ (c.method = "evaluate" /\ c.pt))
           /\ ~c.ckpt /\ c.method # "train"
  <2>1. Start(c) = dirs[c.name].models
    BY <1>8 DEF Start
  <2> QED
    BY <1>2, <1>3, <2>1
<1> QED
  BY <1>5, <1>6, <1>7, <1>8

LEMMA BeginOK ==
    ASSUME IInv, NEW p \in Procs, NEW c \in Commands, Begin(p, c)
    PROVE  IInv'
<1>1. c.name \in Names /\ cmd'[p] = c /\ (Here(p))' = c.name /\ raced' = raced
  BY ExperimentAssumption DEF Begin, IInv, Shape, Here
<1>2. Shape'
  <2>1. given' \in 0 .. MaxCommands
    BY ExperimentAssumption DEF Begin, IInv, Shape
  <2>2. dirs' = [n \in Names |-> [exists |-> dirs'[n].exists, stats |-> dirs'[n].stats,
                                  models |-> dirs'[n].models]]
    <3>1. \/ dirs' = [dirs EXCEPT ![c.name].exists = TRUE]
          \/ dirs' = dirs
      BY DEF Begin
    <3>2. dirs = [n \in Names |-> [exists |-> dirs[n].exists, stats |-> dirs[n].stats,
                                   models |-> dirs[n].models]]
      BY DEF IInv, Shape
    <3> QED
      BY <1>1, <3>1, <3>2
  <2>3. /\ cmd' = [q \in Procs |-> cmd'[q]] /\ used' = [q \in Procs |-> used'[q]]
        /\ pc' = [q \in Procs |-> pc'[q]] /\ model' = [q \in Procs |-> model'[q]]
    BY DEF Begin, IInv, Shape, Goto
  <2> QED
    BY <2>1, <2>2, <2>3 DEF Begin, IInv, Shape
<1>3. Others(p)
  BY DEF Others, Begin, IInv, Shape, Goto
<1>4. \A n \in Names : dirs'[n].stats = dirs[n].stats /\ dirs'[n].models = dirs[n].models
  BY <1>1 DEF Begin, IInv, Shape
<1>5. StatsStay /\ StatsTyped'
  BY <1>1, <1>4 DEF StatsStay, StatsTyped, IInv
<1>6. ComputedAlone(p)
  <2> SUFFICES ASSUME NEW q \in Procs, pc[q] \in Writers
               PROVE  dirs'[Here(q)].stats = dirs[Here(q)].stats
    BY DEF ComputedAlone
  <2>1. Here(q) \in Names
    BY NameIn DEF Writers
  <2> QED
    BY <1>4, <2>1
<1>7. /\ pc'[p] \in {"idle", "remove", "construct"}
      /\ pc'[p] = "construct" => model'[p] = None \/ ModelOK(model'[p])
      /\ pc'[p] = "remove" => ModelOK(model'[p])
  <2>1. CASE UNCHANGED <<pc, model>>
    BY <2>1 DEF Begin
  <2>2. ASSUME NEW m \in Start(c), model' = [model EXCEPT ![p] = m],
               Goto(p, IF c.method = "bundle" THEN "remove" ELSE "construct")
        PROVE  <1>7!:
    <3>1. model'[p] = m /\ pc'[p] = IF c.method = "bundle" THEN "remove" ELSE "construct"
      BY <2>2 DEF Goto, IInv, Shape
    <3> QED
      BY <3>1, StartOK
  <2> QED
    BY <2>1, <2>2 DEF Begin
<1>8. ModelOK(model'[p]) => ModelOK(model[p])'
  <2>1. PICK m : m = model'[p]
    OBVIOUS
  <2>2. ModelOK(m) => ModelOK(m)'
    BY <1>5, ModelStays
  <2> QED
    BY <2>1, <2>2 DEF ModelOK, ModelFits, TrainedHere
<1>9. ProcOK(p)'
  BY <1>1, <1>7, <1>8 DEF ProcOK, Writers, Putters
<1>10. Exclusive'
  <2>1. ASSUME NEW q \in Procs, pc'[q] \in Writers
        PROVE  pc[q] \in Writers /\ q # p /\ Here(q)' = Here(q)
    BY <1>3, <1>7, <2>1 DEF Others, Writers, Here
  <2> QED
    BY <1>1, <2>1 DEF IInv, Exclusive
<1>11. ModelsFit' /\ Numbered'
  BY <1>4, <1>5, ModelsStay DEF Begin
<1>12. FilesFit' /\ ResultsFit'
  <2>1. pc'[p] \notin Putters
    BY <1>7 DEF Putters
  <2> QED
    BY <1>3, <1>5, <2>1, FilesStay, ResultsStay DEF Begin
<1> QED
  BY <1>2, <1>3, <1>5, <1>6, <1>9, <1>10, <1>11, <1>12, ProcStep

LEMMA ConstructOK ==
    ASSUME IInv, NEW p \in Procs, ConstructDataset(p)
    PROVE  IInv'
<1>1. /\ pc[p] = "construct" /\ dirs' = dirs /\ saves' = saves
      /\ cmd' = cmd /\ (Here(p))' = Here(p) /\ model' = model
      /\ raced \subseteq raced'
  BY DEF ConstructDataset, Here
<1>2. /\ cmd[p] \in Commands /\ cmd'[p] \in Commands /\ Here(p) \in Names
      /\ cmd[p].cloud \in BOOLEAN /\ cmd[p].stats \in BOOLEAN
  BY <1>1, NameIn, ExperimentAssumption
<1>3. Shape'
  BY DEF IInv, Shape, ConstructDataset, Goto
<1>4. Others(p)
  BY DEF Others, ConstructDataset, IInv, Shape, Goto
<1>5. dirs[Here(p)].stats \in {None, Empty} \cup Computed
  BY <1>2 DEF IInv, StatsTyped
<1>6. AfterDataset(p) \in {"idle", "epoch", "infer"}
  BY DEF AfterDataset
<1>7. StatsStay
  BY <1>1, DirsSame
<1>8. (model[p] = None \/ ModelOK(model[p]))'
  <2>1. PICK m : m = model[p]
    OBVIOUS
  <2>2. ModelOK(m) => ModelOK(m)'
    BY <1>7, ModelStays
  <2>3. m = None \/ ModelOK(m)
    BY <1>1, <2>1 DEF IInv, ProcsOK, ProcOK
  <2> QED
    BY <1>1, <2>1, <2>2, <2>3 DEF ModelOK, ModelFits, TrainedHere
<1>9. CASE FindsStats(p)
  <2>1. used'[p] = StatsAt(p) /\ pc'[p] = AfterDataset(p) /\ raced' = raced
    BY <1>9 DEF ConstructDataset, Goto, IInv, Shape
  <2>2. ASSUME StatsAt(p) = dirs[Here(p)].stats
        PROVE  ProcOK(p)'
    <3>1. used'[p] \in Computed /\ used'[p] = dirs'[Here(p)].stats
      BY <1>1, <1>5, <1>9, <2>1, <2>2 DEF FindsStats
    <3>2. pc'[p] \in {"epoch", "infer"} => UsedFits(p)'
      BY <1>1, <3>1 DEF UsedFits, Fits
    <3> QED
      BY <1>1, <1>2, <1>6, <1>8, <2>1, <3>1, <3>2 DEF ProcOK, Writers, Putters
  <2>3. ASSUME cmd[p].stats, cmd[p].method # "train"
        PROVE  ProcOK(p)'
    <3>1. used'[p] = Configured
      BY <2>1, <2>3 DEF StatsAt
    <3>2. pc'[p] \in {"idle", "infer"}
      BY <1>6, <2>1, <2>3 DEF AfterDataset
    <3>3. UsedFits(p)'
      BY <3>1 DEF UsedFits
    <3> QED
      BY <1>1, <1>2, <1>8, <3>2, <3>3 DEF ProcOK, Writers, Putters
  <2>4. ProcOK(p)'
    BY <1>2, <2>2, <2>3 DEF StatsAt
  <2>5. pc'[p] \notin Writers \cup Putters
    BY <1>6, <2>1 DEF Writers, Putters
  <2>6. Exclusive'
    BY <1>1, <1>4, <1>7, <2>5, ExclusiveStays
  <2>7. FilesFit' /\ ResultsFit'
    BY <1>4, <1>7, <2>5, FilesStay, ResultsStay DEF ConstructDataset
  <2> QED
    BY <1>1, <1>3, <1>4, <2>4, <2>6, <2>7, DirsSame, ProcStep
<1>10. CASE ~FindsStats(p)
  <2>1. /\ used'[p] = [layers |-> cmd[p].layers, written |-> ~cmd[p].cloud]
        /\ used'[p].written = ~cmd[p].cloud
        /\ pc'[p] \in {AfterDataset(p), "truncate", "idle"}
        /\ pc'[p] = "truncate" => ~cmd[p].cloud
        /\ pc'[p] \in {"epoch", "infer"} => cmd[p].cloud
    BY <1>2, <1>6, <1>10 DEF ConstructDataset, Goto, OwnStats, IInv, Shape
  <2>2. used'[p] \in Computed
    BY <1>2, <2>1, ExperimentAssumption DEF Computed
  <2>3. dirs[Here(p)].stats \in {None, Empty}
    BY <1>10, FilesAssumption DEF FindsStats, StatsAt
  <2>4. pc'[p] \in {"epoch", "infer"} => ~used'[p].written
    BY <1>2, <2>1
  <2>5. ProcOK(p)'
    BY <1>1, <1>2, <1>6, <1>8, <2>1, <2>2, <2>3, <2>4 DEF ProcOK, UsedFits, Writers, Putters
  <2>6. pc'[p] \notin Putters
    BY <1>6, <2>1 DEF Putters
  <2>7. Exclusive'
    <3> SUFFICES ASSUME NEW q \in Procs, NEW r \in Procs, pc'[q] \in Writers,
                        pc'[r] \in Writers, Here(q)' = Here(r)', Here(q)' \notin raced',
                        q # r
                 PROVE  FALSE
      BY DEF Exclusive
    <3>1. Here(q)' = Here(q) /\ Here(r)' = Here(r)
      BY <1>1 DEF Here
    <3>2. CASE q # p /\ r # p
      BY <1>1, <1>4, <3>1, <3>2 DEF Others, IInv, Exclusive
    <3>3. ASSUME NEW o \in Procs, o # p, pc'[o] \in Writers, pc'[p] \in Writers,
                 Here(o) = Here(p)
          PROVE  Here(p) \in raced'
      <4>1. o \in Writing(Here(p))
        BY <1>4, <3>3 DEF Others, Writing, Writers
      <4>2. ~cmd[p].cloud
        BY <1>6, <2>1, <3>3 DEF Writers
      <4> QED
        BY <1>10, <4>1, <4>2 DEF ConstructDataset
    <3> QED
      BY <3>1, <3>2, <3>3
  <2>8. FilesFit' /\ ResultsFit'
    BY <1>4, <1>7, <2>6, FilesStay, ResultsStay DEF ConstructDataset
  <2> QED
    BY <1>1, <1>3, <1>4, <2>5, <2>7, <2>8, DirsSame, ProcStep
<1> QED
  BY <1>9, <1>10

LEMMA WriteStatsOK ==
    ASSUME IInv, NEW p \in Procs, WriteStats(p)
    PROVE  IInv'
<1>1. /\ pc[p] \in Writers /\ saves' = saves /\ raced' = raced /\ cmd' = cmd
      /\ (Here(p))' = Here(p) /\ model' = model /\ used' = used
  BY DEF WriteStats, Here, Writers
<1>2. /\ cmd[p] \in Commands /\ Here(p) \in Names /\ used[p] \in Computed
      /\ Here(p) \notin raced => dirs[Here(p)].stats \in {None, Empty}
      /\ model[p] = None \/ ModelOK(model[p])
  BY <1>1, NameIn DEF IInv, ProcsOK, ProcOK, Writers
<1>3. \E s \in {Empty, used[p]} : dirs' = [dirs EXCEPT ![Here(p)].stats = s]
  BY DEF WriteStats
<1>4. Shape'
  <2>1. dirs' = [n \in Names |-> [exists |-> dirs'[n].exists, stats |-> dirs'[n].stats,
                                  models |-> dirs'[n].models]]
    <3>1. dirs = [n \in Names |-> [exists |-> dirs[n].exists, stats |-> dirs[n].stats,
                                   models |-> dirs[n].models]]
      BY DEF IInv, Shape
    <3> QED
      BY <1>2, <1>3, <3>1
  <2> QED
    BY <2>1 DEF IInv, Shape, WriteStats, Goto
<1>5. Others(p)
  BY DEF Others, WriteStats, IInv, Shape, Goto
<1>6. /\ \A n \in Names : dirs'[n].models = dirs[n].models
      /\ \A n \in Names \ {Here(p)} : dirs'[n].stats = dirs[n].stats
      /\ dirs'[Here(p)].stats \in {Empty, used[p]}
  BY <1>2, <1>3 DEF IInv, Shape
<1>7. StatsStay
  <2>1. dirs[Here(p)].stats \in Computed => Here(p) \in raced
    BY <1>2, StatisticsAssumption
  <2> QED
    BY <1>1, <1>6, <2>1 DEF StatsStay
<1>8. StatsTyped'
  BY <1>2, <1>6 DEF IInv, StatsTyped
<1>9. ComputedAlone(p)
  <2> SUFFICES ASSUME NEW q \in Procs \ {p}, pc[q] \in Writers, Here(q) \notin raced
               PROVE  dirs'[Here(q)].stats = dirs[Here(q)].stats
    BY <1>1 DEF ComputedAlone
  <2>1. Here(q) \in Names
    BY NameIn DEF Writers
  <2>2. Here(q) # Here(p)
    BY <1>1 DEF IInv, Exclusive
  <2> QED
    BY <1>6, <2>1, <2>2
<1>10. Exclusive'
  BY <1>1, <1>5, <1>7, ExclusiveStays
<1>11. model[p] = None \/ (ModelOK(model[p]))'
  <2>1. PICK m : m = model[p]
    OBVIOUS
  <2>2. ModelOK(m) => ModelOK(m)'
    BY <1>7, ModelStays
  <2> QED
    BY <1>1, <1>2, <2>1, <2>2 DEF ModelOK, ModelFits, TrainedHere
<1>12. ProcOK(p)' /\ pc'[p] \notin Putters
  <2>1. ASSUME pc[p] = "truncate"
        PROVE  ProcOK(p)' /\ pc'[p] \notin Putters
    <3>1. pc'[p] = "write" /\ dirs'[Here(p)].stats = Empty
      BY <1>2, <2>1 DEF WriteStats, Goto, IInv, Shape
    <3> QED
      BY <1>1, <1>2, <1>11, <3>1 DEF ProcOK, Writers, Putters
  <2>2. ASSUME pc[p] = "write"
        PROVE  ProcOK(p)' /\ pc'[p] \notin Putters
    <3>1. pc'[p] = AfterDataset(p) /\ dirs'[Here(p)].stats = used[p]
      BY <1>2, <2>2 DEF WriteStats, Goto, IInv, Shape
    <3>2. pc'[p] \in {"idle", "epoch", "infer"}
      BY <3>1 DEF AfterDataset
    <3>3. UsedFits(p)'
      BY <1>1, <1>2, <3>1 DEF UsedFits, Fits
    <3> QED
      BY <1>1, <1>2, <1>11, <3>2, <3>3 DEF ProcOK, Writers, Putters
  <2> QED
    BY <1>1, <2>1, <2>2 DEF Writers
<1>13. ModelsFit' /\ Numbered'
  BY <1>1, <1>6, <1>7, ModelsStay
<1>14. FilesFit' /\ ResultsFit'
  BY <1>5, <1>7, <1>12, FilesStay, ResultsStay DEF WriteStats
<1> QED
  BY <1>4, <1>5, <1>7, <1>8, <1>9, <1>10, <1>12, <1>13, <1>14, ProcStep

\* What a training saves, with no base or one that fits, fits.
LEMMA TrainedFits ==
    ASSUME IInv, NEW p \in Procs, pc[p] = "epoch"
    PROVE  ModelOK(Trained(p)) /\ Trained(p).no = saves + 1
<1>1. /\ UsedFits(p) /\ used[p] \in Computed /\ used[p] # Configured
      /\ model[p] = None \/ ModelOK(model[p])
  BY StatisticsAssumption DEF IInv, ProcsOK, ProcOK
<1>2. /\ Trained(p).no = saves + 1 /\ Here(p) \in Trained(p).dirs
      /\ used[p] \in Trained(p).stats
  BY DEF Trained
<1>3. ASSUME NEW n \in Names, TrainedHere(Trained(p), n)
      PROVE  Trained(p).stats = {dirs[n].stats} /\ dirs[n].stats \in Computed
  <2>1. n \notin raced /\ n = Here(p) /\ used[p].written
    BY <1>2, <1>3 DEF TrainedHere
  <2>2. used[p] = dirs[n].stats
    BY <1>1, <2>1 DEF UsedFits, Fits
  <2>3. CASE model[p] = None
    <3>1. Trained(p).stats = {used[p]}
      BY <2>3 DEF Trained
    <3> QED
      BY <1>1, <2>2, <3>1
  <2>4. CASE model[p] # None
    <3>1. /\ Trained(p).stats = {used[p]} \cup model[p].stats
          /\ Trained(p).dirs = {Here(p)} \cup model[p].dirs
      BY <2>4 DEF Trained
    <3>2. model[p].dirs # {}
      BY <1>1, <2>4 DEF ModelOK
    <3>3. TrainedHere(model[p], n)
      BY <1>3, <3>1, <3>2 DEF TrainedHere
    <3>4. model[p].stats = {dirs[n].stats}
      BY <1>1, <2>4, <3>3 DEF ModelOK, ModelFits
    <3> QED
      BY <1>1, <2>2, <3>1, <3>4
  <2> QED
    BY <2>3, <2>4
<1> QED
  BY <1>2, <1>3 DEF ModelOK, ModelFits

LEMMA SaveCheckpointOK ==
    ASSUME IInv, NEW p \in Procs, SaveCheckpoint(p)
    PROVE  IInv'
<1>1. /\ pc[p] = "epoch" /\ saves' = saves + 1 /\ pc' = pc /\ raced' = raced
      /\ cmd' = cmd /\ (Here(p))' = Here(p) /\ used' = used
  BY DEF SaveCheckpoint, Here
<1>2. /\ cmd[p] \in Commands /\ Here(p) \in Names
      /\ UsedFits(p) /\ used[p] \in Computed
  BY <1>1, NameIn DEF IInv, ProcsOK, ProcOK
<1>3. \E models \in SUBSET (dirs[Here(p)].models \cup {Trained(p)}) :
         dirs' = [dirs EXCEPT ![Here(p)].models = models]
  BY DEF SaveCheckpoint
<1>4. Shape'
  <2>1. dirs' = [n \in Names |-> [exists |-> dirs'[n].exists, stats |-> dirs'[n].stats,
                                  models |-> dirs'[n].models]]
    <3>1. dirs = [n \in Names |-> [exists |-> dirs[n].exists, stats |-> dirs[n].stats,
                                   models |-> dirs[n].models]]
      BY DEF IInv, Shape
    <3> QED
      BY <1>2, <1>3, <3>1
  <2>2. saves' \in Nat
    BY <1>1 DEF IInv, Shape
  <2> QED
    BY <2>1, <2>2 DEF IInv, Shape, SaveCheckpoint
<1>5. Others(p)
  BY DEF Others, SaveCheckpoint, IInv, Shape
<1>6. /\ \A n \in Names : dirs'[n].stats = dirs[n].stats
      /\ \A n \in Names \ {Here(p)} : dirs'[n].models = dirs[n].models
      /\ dirs'[Here(p)].models \subseteq dirs[Here(p)].models \cup {Trained(p)}
  BY <1>2, <1>3 DEF IInv, Shape
<1>7. StatsStay /\ StatsTyped'
  BY <1>1, <1>6 DEF StatsStay, StatsTyped, IInv
<1>8. ComputedAlone(p)
  <2> SUFFICES ASSUME NEW q \in Procs, pc[q] \in Writers
               PROVE  dirs'[Here(q)].stats = dirs[Here(q)].stats
    BY DEF ComputedAlone
  <2>1. Here(q) \in Names
    BY NameIn DEF Writers
  <2> QED
    BY <1>6, <2>1
<1>9. Exclusive'
  BY <1>1, <1>5, <1>7, ExclusiveStays
<1>10. ASSUME NEW m, ModelOK(m)
       PROVE  ModelOK(m)'
  BY <1>7, <1>10, ModelStays
<1>11. ProcOK(p)'
  <2>1. PICK m : m = Trained(p)
    OBVIOUS
  <2>2. ModelOK(m)'
    BY <1>1, <1>10, <2>1, TrainedFits
  <2>3. model'[p] = m
    BY <2>1 DEF SaveCheckpoint, IInv, Shape
  <2>4. (ModelOK(model[p]))'
    BY <2>2, <2>3 DEF ModelOK, ModelFits, TrainedHere
  <2>5. UsedFits(p)'
    BY <1>1, <1>2, <1>6 DEF UsedFits, Fits
  <2> QED
    BY <1>1, <1>2, <2>4, <2>5 DEF ProcOK, Writers, Putters
<1>12. ModelsFit'
  <2> SUFFICES ASSUME NEW m \in Checkpoints'
               PROVE  ModelOK(m)'
    BY DEF ModelsFit
  <2>1. m \in Checkpoints \/ m = Trained(p)
    BY <1>6 DEF Checkpoints
  <2>2. ModelOK(m)
    BY <1>1, <2>1, TrainedFits DEF IInv, ModelsFit
  <2> QED
    BY <1>10, <2>2
<1>13. Numbered'
  <2> SUFFICES ASSUME NEW n \in Names
               PROVE  /\ \A m \in dirs'[n].models : m.no \in Nat /\ m.no <= saves'
                      /\ \A models \in SUBSET dirs'[n].models :
                           models # {} => HasLatest(models)
    BY DEF Numbered, HasLatest
  <2>1. saves \in Nat /\ Trained(p).no = saves + 1
    BY <1>1, TrainedFits DEF IInv, Shape
  <2>2. \A m \in dirs[n].models : m.no \in Nat /\ m.no <= saves
    BY DEF IInv, Numbered
  <2>3. dirs'[n].models \subseteq dirs[n].models \cup {Trained(p)}
    BY <1>6
  <2>4. \A m \in dirs'[n].models : m.no \in Nat /\ m.no <= saves'
    BY <1>1, <2>1, <2>2, <2>3
  <2>5. ASSUME NEW models \in SUBSET dirs'[n].models, models # {}
        PROVE  HasLatest(models)
    <3>1. CASE Trained(p) \in models
      BY <1>1, <2>1, <2>4, <3>1 DEF HasLatest
    <3>2. CASE Trained(p) \notin models
      BY <2>3, <2>5, <3>2 DEF IInv, Numbered
    <3> QED
      BY <3>1, <3>2
  <2> QED
    BY <2>4, <2>5
<1>14. FilesFit' /\ ResultsFit'
  <2>1. pc'[p] \notin Putters
    BY <1>1 DEF Putters
  <2> QED
    BY <1>5, <1>7, <2>1, FilesStay, ResultsStay DEF SaveCheckpoint
<1> QED
  BY <1>4, <1>5, <1>7, <1>8, <1>9, <1>11, <1>12, <1>13, <1>14, ProcStep

LEMMA InferOK ==
    ASSUME IInv, NEW p \in Procs, Infer(p)
    PROVE  IInv'
<1>1. /\ pc[p] = "infer" /\ dirs' = dirs /\ saves' = saves /\ cmd' = cmd /\ raced' = raced
  BY DEF Infer
<1>2. /\ Here(p) \in Names /\ UsedFits(p)
      /\ model[p] = None \/ ModelOK(model[p])
  BY <1>1, NameIn DEF IInv, ProcsOK, ProcOK
<1>3. Shape'
  BY DEF IInv, Shape, Infer, Goto
<1>4. Others(p)
  BY DEF Others, Infer, IInv, Shape, Goto
<1>5. pc'[p] = "idle"
  BY DEF Infer, Goto, IInv, Shape
<1>6. StatsStay
  BY <1>1, DirsSame
<1>7. Exclusive'
  BY <1>1, <1>4, <1>5, <1>6, ExclusiveStays DEF Writers
<1>8. ProcOK(p)'
  BY <1>5 DEF ProcOK, Writers, Putters
<1>9. ASSUME NEW m \in Loaded(p)
      PROVE  ResultFits([dir |-> Here(p), model |-> m, stats |-> used[p]])
  <2>1. ModelOK(m)
    <3>1. dirs[Here(p)].models \subseteq Checkpoints
      BY <1>2 DEF Checkpoints
    <3> QED
      BY <1>2, <1>9, <3>1 DEF Loaded, IInv, ModelsFit
  <2> SUFFICES ASSUME TrainedHere(m, Here(p)), used[p] # Configured, used[p].written
               PROVE  m.stats = {used[p]}
    BY DEF ResultFits
  <2>2. m.stats = {dirs[Here(p)].stats}
    BY <1>2, <2>1 DEF ModelOK, ModelFits
  <2>3. used[p] = dirs[Here(p)].stats
    BY <1>2 DEF UsedFits, Fits, TrainedHere
  <2> QED
    BY <2>2, <2>3
<1>10. ResultsFit'
  <2> SUFFICES ASSUME NEW r \in results'
               PROVE  ResultFits(r)'
    BY DEF ResultsFit
  <2>1. ResultFits(r)
    BY <1>9 DEF Infer, IInv, ResultsFit
  <2> QED
    BY <1>1, <2>1 DEF ResultFits, TrainedHere
<1>11. FilesFit'
  <2>1. pc'[p] \notin Putters
    BY <1>5 DEF Putters
  <2> QED
    BY <1>4, <1>6, <2>1, FilesStay DEF Infer
<1> QED
  BY <1>1, <1>3, <1>4, <1>7, <1>8, <1>10, <1>11, DirsSame, ProcStep

\* A step of a bundle: no directory changes, nothing is predicted.
LEMMA BundleStep ==
    ASSUME IInv, NEW p \in Procs, UNCHANGED <<dirs, results, raced, saves>>,
           Others(p), Exclusive', Shape', ProcOK(p)', FilesFit'
    PROVE  IInv'
<1>1. StatsStay
  BY DirsSame
<1> QED
  BY <1>1, DirsSame, ResultsStay, ProcStep

LEMMA RemakeOK ==
    ASSUME IInv, NEW p \in Procs, Remake(p)
    PROVE  IInv'
<1>1. /\ pc[p] = "remove" /\ cmd' = cmd /\ dirs' = dirs /\ model' = model
      /\ raced' = raced /\ saves' = saves
      /\ pc'[p] \in {"remove", "mkdir"} /\ pc' = [pc EXCEPT ![p] = pc'[p]]
  BY DEF Remake, Goto, IInv, Shape
<1>2. cmd[p] \in Commands /\ Here(p) \in Names /\ (Here(p))' = Here(p) /\ ModelOK(model[p])
  BY <1>1, NameIn DEF IInv, ProcsOK, ProcOK, Here
<1>3. /\ \A n \in Names : bundles'[n].files \subseteq bundles[n].files
      /\ bundles' = [n \in Names |-> [exists |-> bundles'[n].exists,
                                      files |-> bundles'[n].files]]
      /\ pc'[p] = "mkdir" => bundles'[Here(p)].files = {}
  <2>1. bundles = [n \in Names |-> [exists |-> bundles[n].exists,
                                    files |-> bundles[n].files]]
    BY DEF IInv, Shape
  <2>2. \/ /\ pc'[p] = "remove"
           /\ \E fs \in SUBSET bundles[Here(p)].files :
                bundles' = [bundles EXCEPT ![Here(p)].files = fs]
        \/ /\ bundles' = [bundles EXCEPT ![Here(p)].exists = FALSE]
           /\ bundles[Here(p)].files = {}
    BY <1>1 DEF Remake
  <2> QED
    BY <1>2, <2>1, <2>2
<1>4. Shape'
  BY <1>1, <1>3 DEF IInv, Shape, Remake
<1>5. Others(p)
  BY DEF Others, Remake, Goto, IInv, Shape
<1>6. StatsStay
  BY <1>1, DirsSame
<1>7. Exclusive'
  BY <1>1, <1>5, <1>6, ExclusiveStays DEF Writers
<1>8. ProcOK(p)'
  <2>1. (ModelOK(model[p]))'
    BY <1>1, <1>2 DEF ModelOK, ModelFits, TrainedHere
  <2> QED
    BY <1>1, <1>2, <2>1 DEF ProcOK, Writers, Putters
<1>9. FilesFit'
  <2> SUFFICES ASSUME NEW n \in Names, NEW f \in bundles'[n].files
               PROVE  FileFits(n, f)'
    BY DEF FilesFit
  <2>1. FileFits(n, f)
    BY <1>3 DEF IInv, FilesFit
  <2>2. ASSUME OwnIn(n)'
        PROVE  OwnIn(n)
    BY <1>1, <1>3, <2>2 DEF OwnIn, TrainedHere
  <2>3. ASSUME OwnComes(n)'
        PROVE  OwnComes(n)
    <3>1. PICK q \in Procs : (/\ pc[q] \in Putters /\ Here(q) = n
                              /\ TrainedHere(model[q], n))'
      BY <2>3 DEF OwnComes
    <3>2. q # p
      BY <1>2, <1>3, <3>1, <1>1 DEF Putters
    <3> QED
      BY <1>1, <1>5, <3>1, <3>2 DEF OwnComes, Others, TrainedHere, Here
  <2> QED
    BY <1>6, <2>1, <2>2, <2>3, FileStays
<1> QED
  BY <1>1, <1>4, <1>5, <1>7, <1>8, <1>9, BundleStep DEF Remake

LEMMA MakeDirOK ==
    ASSUME IInv, NEW p \in Procs, MakeDir(p)
    PROVE  IInv'
<1>1. /\ pc[p] = "mkdir" /\ cmd' = cmd /\ dirs' = dirs /\ model' = model
      /\ raced' = raced /\ saves' = saves
      /\ pc'[p] \in {"idle", "model.pt"} /\ pc' = [pc EXCEPT ![p] = pc'[p]]
  BY DEF MakeDir, Goto, IInv, Shape
<1>2. cmd[p] \in Commands /\ Here(p) \in Names /\ (Here(p))' = Here(p) /\ ModelOK(model[p])
  BY <1>1, NameIn DEF IInv, ProcsOK, ProcOK, Here, Putters
<1>3. /\ \A n \in Names : bundles'[n].files = bundles[n].files
      /\ bundles' = [n \in Names |-> [exists |-> bundles'[n].exists,
                                      files |-> bundles'[n].files]]
  <2>1. bundles = [n \in Names |-> [exists |-> bundles[n].exists,
                                    files |-> bundles[n].files]]
    BY DEF IInv, Shape
  <2>2. \E b : bundles' = [bundles EXCEPT ![Here(p)].exists = b]
    BY DEF MakeDir
  <2> QED
    BY <1>2, <2>1, <2>2
<1>4. Shape'
  BY <1>1, <1>3 DEF IInv, Shape, MakeDir
<1>5. Others(p)
  BY DEF Others, MakeDir, Goto, IInv, Shape
<1>6. StatsStay
  BY <1>1, DirsSame
<1>7. Exclusive'
  BY <1>1, <1>5, <1>6, ExclusiveStays DEF Writers
<1>8. ProcOK(p)'
  <2>1. (ModelOK(model[p]))'
    BY <1>1, <1>2 DEF ModelOK, ModelFits, TrainedHere
  <2> QED
    BY <1>1, <1>2, <2>1 DEF ProcOK, Writers, Putters
<1>9. FilesFit'
  BY <1>1, <1>3, <1>5, <1>6, FilesStay DEF Putters
<1> QED
  BY <1>1, <1>4, <1>5, <1>7, <1>8, <1>9, BundleStep DEF MakeDir

LEMMA PutFileOK ==
    ASSUME IInv, NEW p \in Procs, PutFile(p)
    PROVE  IInv'
<1> DEFINE put == [name |-> pc[p], content |-> Content(p, pc[p])]
           Puts == /\ bundles[Here(p)].exists
                   /\ pc[p] = "model.pt" => model[p] \in Checkpoints
<1>1. /\ pc[p] \in {"model.pt", "stats.yaml", "config.yaml", "bundle_meta.json"}
      /\ cmd' = cmd /\ dirs' = dirs /\ model' = model /\ raced' = raced /\ saves' = saves
      /\ pc' = [pc EXCEPT ![p] = pc'[p]]
      /\ pc'[p] = IF Puts THEN BundleSteps[pc[p]] ELSE "idle"
  BY DEF PutFile, BundleSteps, Goto, IInv, Shape
<1>2. cmd[p] \in Commands /\ Here(p) \in Names /\ (Here(p))' = Here(p)
  BY <1>1, NameIn DEF Here
<1>3. pc'[p] \in {"idle", "stats.yaml", "config.yaml", "bundle_meta.json"}
  BY <1>1 DEF BundleSteps
<1>4. ProcOK(p)'
  BY <1>1, <1>2, <1>3 DEF ProcOK, Writers, Putters
<1>5. /\ bundles' = [n \in Names |-> [exists |-> bundles'[n].exists,
                                      files |-> bundles'[n].files]]
      /\ \A n \in Names \ {Here(p)} : bundles'[n].files = bundles[n].files
      /\ bundles'[Here(p)].files
           \subseteq bundles[Here(p)].files \cup (IF Puts THEN {put} ELSE {})
  <2>1. bundles = [n \in Names |-> [exists |-> bundles[n].exists,
                                    files |-> bundles[n].files]]
    BY DEF IInv, Shape
  <2>2. \/ ~Puts /\ bundles' = bundles
        \/ Puts /\ \E fs \in SUBSET (bundles[Here(p)].files \cup {put}) :
                      bundles' = [bundles EXCEPT ![Here(p)].files = fs]
    BY DEF PutFile
  <2> QED
    BY <1>2, <2>1, <2>2
<1>6. Shape'
  BY <1>1, <1>5 DEF IInv, Shape, PutFile
<1>7. Others(p)
  BY DEF Others, PutFile, Goto, IInv, Shape
<1>8. StatsStay
  BY <1>1, DirsSame
<1>9. Exclusive'
  BY <1>1, <1>3, <1>7, <1>8, ExclusiveStays DEF Writers
<1>10. ASSUME NEW n \in Names, (OwnIn(n) \/ OwnComes(n))'
       PROVE  OwnIn(n) \/ OwnComes(n)
  <2>1. CASE OwnComes(n)'
    <3>1. PICK q \in Procs : (/\ pc[q] \in Putters /\ Here(q) = n
                              /\ TrainedHere(model[q], n))'
      BY <2>1 DEF OwnComes
    <3>2. q # p
      BY <1>3, <3>1 DEF Putters
    <3> QED
      BY <1>1, <1>7, <3>1, <3>2 DEF OwnComes, Others, TrainedHere, Here
  <2>2. CASE OwnIn(n)'
    <3>1. PICK f \in bundles'[n].files : f.name = "model.pt" /\ TrainedHere(f.content, n)
      BY <1>1, <2>2 DEF OwnIn, TrainedHere
    <3>2. CASE f \in bundles[n].files
      BY <3>1, <3>2 DEF OwnIn
    <3>3. CASE f \notin bundles[n].files
      <4>1. n = Here(p) /\ f = put
        BY <1>5, <3>1, <3>3
      <4>2. pc[p] = "model.pt" /\ TrainedHere(model[p], n)
        BY <3>1, <4>1 DEF Content
      <4> QED
        BY <4>1, <4>2 DEF OwnComes, Putters
    <3> QED
      BY <3>2, <3>3
  <2> QED
    BY <1>10, <2>1, <2>2
<1>11. Puts => FileFits(Here(p), put)
  <2>1. ASSUME Puts, pc[p] = "model.pt"
        PROVE  ModelOK(put.content)
    BY <2>1 DEF Content, IInv, ModelsFit
  <2>2. ASSUME pc[p] = "stats.yaml", OwnIn(Here(p)) \/ OwnComes(Here(p))
        PROVE  put.content = Configured \/ Fits(Here(p), put.content)
    <3>1. dirs[Here(p)].stats \in Computed
      BY <1>2, <2>2, OwnComputed
    <3> QED
      BY <2>2, <3>1 DEF Content, BundledStats, Fits
  <2> QED
    BY <2>1, <2>2 DEF FileFits
<1>12. FilesFit'
  <2> SUFFICES ASSUME NEW n \in Names, NEW f \in bundles'[n].files
               PROVE  FileFits(n, f)'
    BY DEF FilesFit
  <2>1. FileFits(n, f)
    <3> HIDE DEF put, Puts
    <3> QED
      BY <1>5, <1>11 DEF IInv, FilesFit
  <2> QED
    BY <1>8, <1>10, <2>1, FileStays
<1> QED
  BY <1>1, <1>4, <1>6, <1>7, <1>9, <1>12, BundleStep DEF PutFile

LEMMA StopOK ==
    ASSUME IInv, NEW p \in Procs, Stop(p)
    PROVE  IInv'
<1>1. pc'[p] = "idle" /\ Others(p) /\ Shape'
  BY DEF Stop, Goto, Others, IInv, Shape
<1>2. StatsStay
  BY DirsSame DEF Stop
<1>3. Exclusive'
  <2> SUFFICES ASSUME NEW q \in Procs, NEW r \in Procs, pc'[q] \in Writers,
                      pc'[r] \in Writers, Here(q)' = Here(r)', Here(q)' \notin raced'
               PROVE  q = r
    BY DEF Exclusive
  <2>1. q # p /\ r # p
    BY <1>1 DEF Writers
  <2> QED
    BY <1>1, <2>1 DEF Others, Here, IInv, Exclusive, Stop
<1>4. ProcOK(p)'
  BY <1>1 DEF ProcOK, Writers, Putters
<1>5. FilesFit'
  BY <1>1, <1>2, FilesStay DEF Stop, Putters
<1> QED
  BY <1>1, <1>3, <1>4, <1>5, BundleStep DEF Stop

LEMMA Stutter == IInv /\ UNCHANGED vars => IInv'
<1> SUFFICES ASSUME IInv, UNCHANGED vars
             PROVE  IInv'
  OBVIOUS
<1>1. Shape' /\ StatsTyped' /\ ResultsFit'
  BY DEF vars, IInv, Shape, StatsTyped, ResultsFit, ResultFits, TrainedHere
<1>2. Exclusive'
  BY DEF vars, IInv, Exclusive, Here
<1>3. \A m : ModelOK(m)' <=> ModelOK(m)
  BY DEF vars, ModelOK, ModelFits, TrainedHere
<1>4. ModelsFit'
  BY <1>3 DEF vars, IInv, ModelsFit, Checkpoints
<1>5. Numbered'
  BY DEF vars, IInv, Numbered
<1>6. ProcsOK'
  BY DEF vars, IInv, ProcsOK, ProcOK, UsedFits, Fits, Here, ModelOK, ModelFits, TrainedHere
<1>7. FilesFit'
  BY DEF vars, IInv, FilesFit, FileFits, Fits, OwnIn, OwnComes, Here, ModelOK, ModelFits,
     TrainedHere
<1> QED
  BY <1>1, <1>2, <1>4, <1>5, <1>6, <1>7 DEF IInv

LEMMA NextOK == IInv /\ [Next]_vars => IInv'
  BY Stutter, BeginOK, ConstructOK, WriteStatsOK, SaveCheckpointOK, InferOK, RemakeOK,
     MakeDirOK, PutFileOK, StopOK DEF Next

-----------------------------------------------------------------------------
\* Theorems

(***************************************************************************)
(* Where no two computations of a directory's statistics overlapped, who   *)
(* computes them found none and nobody writes them again, and what a       *)
(* process, a checkpoint or a bundle holds fits them: for any commands,    *)
(* with any flags and configs, and kills between any two of their steps.   *)
(***************************************************************************)
THEOREM ExperimentInvariant == Spec => []IInv
  BY InitOK, NextOK, PTL DEF Spec

\* What a bundle that can be published has for a name is a file of it.
LEMMA FileIn ==
    ASSUME NEW n, Publishable(n), NEW name \in DOMAIN BundleSteps
    PROVE  \E f \in bundles[n].files : f.name = name /\ f.content = File(n, name)
  BY DEF Publishable, File

(***************************************************************************)
(* evaluate, run and the runner normalize the inputs of a network as its   *)
(* training did, whichever command computed stats.yaml and of whichever    *)
(* layers, also with -cp and cloud paths among the commands: the weights   *)
(* excepted are those trained elsewhere, or with statistics that were not  *)
(* written or were computed twice at a time.                               *)
(***************************************************************************)
THEOREM StatisticsFit == Spec => []StatsFitModel
<1>1. ASSUME IInv, NEW n \in Names, Publishable(n), TrainedHere(File(n, "model.pt"), n)
      PROVE  File(n, "stats.yaml") = Configured
                 \/ File(n, "model.pt").stats = {File(n, "stats.yaml")}
  <2>1. PICK f \in bundles[n].files : f.name = "model.pt" /\ f.content = File(n, "model.pt")
    BY <1>1, FileIn DEF BundleSteps
  <2>2. PICK g \in bundles[n].files :
           g.name = "stats.yaml" /\ g.content = File(n, "stats.yaml")
    BY <1>1, FileIn DEF BundleSteps
  <2>3. OwnIn(n)
    BY <1>1, <2>1 DEF OwnIn
  <2>4. File(n, "model.pt").stats = {dirs[n].stats}
    BY <1>1, <2>1 DEF IInv, FilesFit, FileFits, ModelOK, ModelFits
  <2>5. File(n, "stats.yaml") = Configured \/ File(n, "stats.yaml") = dirs[n].stats
    BY <1>1, <2>2, <2>3 DEF IInv, FilesFit, FileFits, Fits
  <2> QED
    BY <2>4, <2>5
<1>2. IInv => StatsFitModel
  BY <1>1 DEF IInv, ResultsFit, ResultFits, StatsFitModel
<1> QED
  BY <1>2, ExperimentInvariant, PTL

=============================================================================
