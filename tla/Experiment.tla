----------------------------- MODULE Experiment -----------------------------
(***************************************************************************)
(* Which statistics a network's inputs are normalized with.  Commands of   *)
(* main.py train in an experiment directory, evaluate or run one of its    *)
(* checkpoints or any given one (-cp), or bundle it (bundle.py) for the    *)
(* runner.  Whoever reads a dataset and finds no stats.yaml computes the   *)
(* statistics of the layers it has read, and leaves them in the directory  *)
(* for the others, unless paths are cloud paths (varloc.py                 *)
(* _normalize_inputs).  Commands overlap and may be killed between any two *)
(* steps.                                                                  *)
(*                                                                         *)
(* What configs, environment and flags settle is part of a command: the    *)
(* name of its directory, and its layers, which the path flags and the     *)
(* treatment area choose independently of the name.  Statistics are a      *)
(* function of the layers.                                                 *)
(***************************************************************************)
EXTENDS Naturals, FiniteSets

CONSTANTS Procs,       \* processes on which commands run
          Names,       \* names of models, and of their directories
          Layers,      \* what datasets read
          Commands,    \* the commands that may be given
          None,        \* no file
          Empty,       \* a file that is truncated and not yet written
          Configured,  \* the file at the stats_path of the configs
          MaxCommands, \* bound: commands given
          MaxSaves     \* bound: checkpoints saved

\* A command: its directory and layers, and whether -cp is given, the configs
\* name a file at stats_path, pyretechnics simulates, paths are cloud paths.
ASSUME ExperimentAssumption ==
    /\ MaxCommands \in Nat /\ MaxSaves \in Nat
    /\ Commands \subseteq
         [method : {"train", "evaluate", "run", "bundle"}, name : Names, layers : Layers,
          ckpt : BOOLEAN, stats : BOOLEAN, pt : BOOLEAN, cloud : BOOLEAN]

VARIABLES pc,      \* what each process does next
          cmd,     \* its command
          used,    \* the statistics its dataset is normalized with
          model,   \* the checkpoint it has loaded or chosen
          dirs,    \* experiment directories: [exists, stats, models]
          bundles, \* bundle directories: [exists, files]
          results, \* history: what emulators predicted with
          raced,   \* history: directories with two computations at a time
          given,   \* commands given so far
          saves    \* checkpoints saved so far

vars == <<pc, cmd, used, model, dirs, bundles, results, raced, given, saves>>

\* Statistics are no missing and no empty file, nor the configured one.
Computed == [layers : Layers, written : BOOLEAN]
ASSUME StatisticsAssumption == {None, Empty, Configured} \cap Computed = {}
ASSUME FilesAssumption == Configured \notin {None, Empty}

Init ==
    /\ pc = [p \in Procs |-> "idle"]
    /\ cmd = [p \in Procs |-> None]
    /\ used = [p \in Procs |-> None]
    /\ model = [p \in Procs |-> None]
    /\ dirs = [n \in Names |-> [exists |-> FALSE, stats |-> None, models |-> {}]]
    /\ bundles = [n \in Names |-> [exists |-> FALSE, files |-> {}]]
    /\ results = {} /\ raced = {}
    /\ given = 0 /\ saves = 0

Goto(p, next) == pc' = [pc EXCEPT ![p] = next]
Here(p) == cmd[p].name

\* The checkpoints of all directories, one of which -cp may name.
Checkpoints == UNION {dirs[n].models : n \in Names}

Latest(models) ==
    IF models = {} THEN {} ELSE {CHOOSE m \in models : \A o \in models : o.no <= m.no}

\* The checkpoints a command may start from: training takes the latest one if
\* there is one, evaluate and bundle the best, which is any; run looks later.
Start(c) ==
    LET own == dirs[c.name].models
    IN  IF c.method = "run" \/ (c.method = "evaluate" /\ c.pt) THEN {None}
        ELSE IF c.ckpt THEN Checkpoints
        ELSE IF c.method # "train" THEN own
        ELSE IF own = {} THEN {None} ELSE Latest(own)

\* main() up to the dataset, or up to the rmtree of bundle.  A training makes
\* its directory, also if -cp names no file and it raises then.
Begin(p, c) ==
    /\ pc[p] = "idle" /\ given < MaxCommands
    /\ c.method = "bundle" /\ ~c.stats => dirs[c.name].stats # None
    /\ \/ \E m \in Start(c) :
            /\ model' = [model EXCEPT ![p] = m]
            /\ Goto(p, IF c.method = "bundle" THEN "remove" ELSE "construct")
       \/ c.method = "train" /\ c.ckpt /\ UNCHANGED <<pc, model>>
    /\ cmd' = [cmd EXCEPT ![p] = c]
    /\ used' = [used EXCEPT ![p] = None]
    /\ dirs' = IF c.method = "train" THEN [dirs EXCEPT ![c.name].exists = TRUE] ELSE dirs
    /\ given' = given + 1
    /\ UNCHANGED <<bundles, results, raced, saves>>

\* What a dataset is normalized with: training passes the directory's path
\* whatever the configs say, evaluate and run only if they say nothing.
StatsAt(p) ==
    IF cmd[p].stats /\ cmd[p].method # "train" THEN Configured
    ELSE dirs[Here(p)].stats

AfterDataset(p) ==
    IF cmd[p].method = "train" THEN "epoch"
    ELSE IF cmd[p].pt THEN "idle" ELSE "infer"

\* Mutant: a training computes its own statistics.
ReadsStats(p) == cmd[p].method # "train" /\ StatsAt(p) \notin {None, Empty}

\* The file is there and not empty: yaml reads an empty one as None.
FindsStats(p) == StatsAt(p) \notin {None, Empty}

OwnStats(p) == [layers |-> cmd[p].layers, written |-> ~cmd[p].cloud]

\* Processes that have computed statistics of the directory and are still to
\* write them.
Writing(n) == {q \in Procs : pc[q] \in {"truncate", "write"} /\ Here(q) = n}

\* Reads the statistics, or computes them and goes on to write them, which
\* raises if there is no directory, or with cloud paths does without.
ConstructDataset(p) ==
    /\ pc[p] = "construct"
    /\ IF FindsStats(p)
       THEN /\ used' = [used EXCEPT ![p] = StatsAt(p)]
            /\ Goto(p, AfterDataset(p))
            /\ UNCHANGED raced
       ELSE /\ used' = [used EXCEPT ![p] = OwnStats(p)]
            /\ Goto(p, IF cmd[p].cloud THEN AfterDataset(p)
                       ELSE IF dirs[Here(p)].exists THEN "truncate" ELSE "idle")
            /\ raced' = IF ~cmd[p].cloud /\ Writing(Here(p)) # {}
                        THEN raced \cup {Here(p)} ELSE raced
    /\ UNCHANGED <<cmd, model, dirs, bundles, results, given, saves>>

\* open("w") and, when it is closed, the text.
WriteStats(p) ==
    /\ \/ /\ pc[p] = "truncate" /\ Goto(p, "write")
          /\ dirs' = [dirs EXCEPT ![Here(p)].stats = Empty]
       \/ /\ pc[p] = "write" /\ Goto(p, AfterDataset(p))
          /\ dirs' = [dirs EXCEPT ![Here(p)].stats = used[p]]
    /\ UNCHANGED <<cmd, used, model, bundles, results, raced, given, saves>>

\* Where and with which statistics the weights were trained, also before this
\* training took them up.
Trained(p) ==
    LET base == model[p]
    IN  [dirs |-> {Here(p)} \cup (IF base = None THEN {} ELSE base.dirs),
         stats |-> {used[p]} \cup (IF base = None THEN {} ELSE base.stats),
         no |-> saves + 1]

\* An epoch and its checkpoint, for which one may be evicted; Training has the
\* details.
SaveCheckpoint(p) ==
    /\ pc[p] = "epoch" /\ saves < MaxSaves
    /\ saves' = saves + 1
    /\ model' = [model EXCEPT ![p] = Trained(p)]
    /\ LET all == dirs[Here(p)].models \cup {Trained(p)}
       IN  \E evicted \in {{}} \cup (IF Cardinality(all) > 1 THEN {{m} : m \in all} ELSE {}) :
             dirs' = [dirs EXCEPT ![Here(p)].models = all \ evicted]
    /\ UNCHANGED <<pc, cmd, used, bundles, results, raced, given>>

\* What the network is loaded from; run looks for it only now, and may find
\* nothing.
Loaded(p) ==
    IF model[p] # None THEN {model[p]}
    ELSE IF cmd[p].ckpt THEN Checkpoints ELSE dirs[Here(p)].models

Infer(p) ==
    /\ pc[p] = "infer"
    /\ \/ Loaded(p) = {} /\ UNCHANGED results
       \/ \E m \in Loaded(p) :
            results' = results \cup {[dir |-> Here(p), model |-> m, stats |-> used[p]]}
    /\ Goto(p, "idle")
    /\ UNCHANGED <<cmd, used, model, dirs, bundles, raced, given, saves>>

-----------------------------------------------------------------------------
\* bundle()

\* _resolve_stats prefers a file of the configs to the directory's.
BundledStats(p) == IF cmd[p].stats THEN Configured ELSE dirs[Here(p)].stats

\* The files in the order in which they are put, each with what follows.
BundleSteps ==
    [file \in {"model.pt", "stats.yaml", "config.yaml", "bundle_meta.json"} |->
       CASE file = "model.pt" -> "stats.yaml"
         [] file = "stats.yaml" -> "config.yaml"
         [] file = "config.yaml" -> "bundle_meta.json"
         [] file = "bundle_meta.json" -> "idle"]

Content(p, file) ==
    CASE file = "model.pt" -> model[p]
      [] file = "stats.yaml" -> BundledStats(p)
      [] OTHER -> None

\* rmtree, file after file, then mkdir, which raises if another made it.
Remake(p) ==
    /\ pc[p] = "remove"
    /\ LET b == bundles[Here(p)]
       IN  \/ /\ \E f \in b.files : bundles' = [bundles EXCEPT ![Here(p)].files = @ \ {f}]
              /\ UNCHANGED pc
           \/ /\ b.files = {}
              /\ bundles' = [bundles EXCEPT ![Here(p)].exists = FALSE]
              /\ Goto(p, "mkdir")
    /\ UNCHANGED <<cmd, used, model, dirs, results, raced, given, saves>>

MakeDir(p) ==
    /\ pc[p] = "mkdir"
    /\ Goto(p, IF bundles[Here(p)].exists THEN "idle" ELSE "model.pt")
    /\ bundles' = [bundles EXCEPT ![Here(p)].exists = TRUE]
    /\ UNCHANGED <<cmd, used, model, dirs, results, raced, given, saves>>

\* The copies and texts in their order.  They raise if the directory is gone,
\* or the checkpoint that was chosen.
PutFile(p) ==
    /\ pc[p] \in DOMAIN BundleSteps
    /\ IF bundles[Here(p)].exists /\ (pc[p] = "model.pt" => model[p] \in Checkpoints)
       THEN /\ bundles' = [bundles EXCEPT ![Here(p)].files =
                 {f \in @ : f.name # pc[p]}
                   \cup {[name |-> pc[p], content |-> Content(p, pc[p])]}]
            /\ Goto(p, BundleSteps[pc[p]])
       ELSE Goto(p, "idle") /\ UNCHANGED bundles
    /\ UNCHANGED <<cmd, used, model, dirs, results, raced, given, saves>>

\* publish_model.sh refuses a bundle that is not complete.
Publishable(n) == {f.name : f \in bundles[n].files} = DOMAIN BundleSteps

File(n, name) == (CHOOSE f \in bundles[n].files : f.name = name).content

\* A command is killed, or a training ends: its process holds nothing more.
Stop(p) ==
    /\ pc[p] # "idle"
    /\ Goto(p, "idle")
    /\ cmd' = [cmd EXCEPT ![p] = None] /\ used' = [used EXCEPT ![p] = None]
    /\ model' = [model EXCEPT ![p] = None]
    /\ UNCHANGED <<dirs, bundles, results, raced, given, saves>>

Next ==
    \E p \in Procs :
        \/ \E c \in Commands : Begin(p, c)
        \/ ConstructDataset(p) \/ WriteStats(p) \/ SaveCheckpoint(p) \/ Infer(p)
        \/ Remake(p) \/ MakeDir(p) \/ PutFile(p) \/ Stop(p)

Spec == Init /\ [][Next]_vars

-----------------------------------------------------------------------------
\* Properties

\* Weights that only trainings in this directory made, which wrote down the
\* statistics they computed, one at a time.
TrainedHere(m, n) ==
    /\ n \notin raced
    /\ m.dirs = {n}
    /\ \A s \in m.stats : s.written

(***************************************************************************)
(* A network never sees inputs normalized otherwise than in its training,  *)
(* in evaluate, in run or as a bundle, although whichever command comes    *)
(* first computes the statistics of its own layers, other commands of      *)
(* other layers start meanwhile or resume the training, and any of them    *)
(* may be killed when it writes them.  The exceptions are those the code   *)
(* makes: weights from elsewhere (-cp), a stats_path in the configs, which *)
(* training ignores and the others do not, cloud paths, with which         *)
(* statistics are not written, and two computations for one directory at a *)
(* time.                                                                   *)
(***************************************************************************)
StatsFitModel ==
    /\ \A r \in results :
         TrainedHere(r.model, r.dir) /\ r.stats # Configured /\ r.stats.written =>
             r.model.stats = {r.stats}
    /\ \A n \in Names :
         Publishable(n) /\ TrainedHere(File(n, "model.pt"), n) =>
             File(n, "stats.yaml") = Configured
                 \/ File(n, "model.pt").stats = {File(n, "stats.yaml")}

=============================================================================
