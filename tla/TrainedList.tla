---------------------------- MODULE TrainedList -----------------------------
(***************************************************************************)
(* The list of trained varlocs (data/outputs/varlocs.txt) and the gpkg     *)
(* made of it.  A job of train.slurm trains a varloc, publishes its bundle *)
(* and then, under the lock of mark_trained.sh, adds it to the list,       *)
(* rebuilds the gpkg and replaces the one of the current inputs version.   *)
(* update_trained.sh rewrites the list under the same lock.                *)
(***************************************************************************)
EXTENDS Registry

CONSTANTS
  Jobs,      \* the publishers that are jobs of train.slurm with PUBLISH=1
  Sync,      \* a call of update_trained.sh
  Nobody     \* no holder of the lock

ASSUME JobsAssumption ==
  /\ Jobs \subseteq Publishers
  /\ \A j \in Jobs : Len(Targets[j]) = 1 /\ Targets[j][1] \in ModelVersions
  /\ Sync \notin Jobs /\ Nobody \notin Jobs \cup {Sync}

VARIABLES
  trained,   \* the varlocs that have a checkpoint of the last epoch
  txt,       \* varlocs.txt
  flock,     \* the holder of varlocs.txt.lock
  markPc,    \* where a job, or update_trained.sh, is
  markIn,    \* the inputs version whose gpkgs a job replaces
  seen       \* the checkpoints update_trained.sh found

listVars == <<trained, txt, flock, markPc, markIn, seen>>

JobVarloc(j) == VarlocOf[Targets[j][1]]

(* its varloc is in the released gpkg *)
Marked(j) == markPc[j] \in {"replacingAll", "done"}

ListTypeOK ==
  /\ trained \in SUBSET Varlocs /\ txt \in SUBSET Varlocs /\ seen \in SUBSET Varlocs
  /\ flock \in Jobs \cup {Sync, Nobody}
  /\ markPc \in [Jobs \cup {Sync} -> {"idle", "adding", "filtering", "resolving", "replacing",
                                      "replacingAll", "rewriting", "done", "failed"}]
  /\ markIn \in [Jobs -> InputVersions \cup {NoVersion}]

ListInit ==
  /\ trained = Listed /\ txt = Listed /\ seen = {}
  /\ flock = Nobody
  /\ markPc = [j \in Jobs \cup {Sync} |-> "idle"]
  /\ markIn = [j \in Jobs |-> NoVersion]

MarkGoto(j, l) == markPc' = [markPc EXCEPT ![j] = l]

-----------------------------------------------------------------------------
(* run_varloc of train.slurm: the training ends, the bundle is made and    *)
(* its publication begins                                                  *)
Train(j) ==
  /\ Start(j)
  /\ trained' = trained \cup {JobVarloc(j)}
  /\ UNCHANGED <<txt, flock, markPc, markIn, seen>>

(* mutant: the lock is not waited for *)
LockAnyway(j) ==
  /\ markPc[j] = "idle" /\ pubPc[j] = "done"
  /\ flock' = j
  /\ MarkGoto(j, "adding")
  /\ UNCHANGED <<registryVars, gpkg, pubVars, trained, txt, markIn, seen>>

Lock(j) ==
  /\ markPc[j] = "idle" /\ pubPc[j] = "done"
  /\ flock = Nobody
  /\ flock' = j
  /\ MarkGoto(j, "adding")
  /\ UNCHANGED <<registryVars, gpkg, pubVars, trained, txt, markIn, seen>>

Add(j) ==
  /\ markPc[j] = "adding"
  /\ txt' = txt \cup {JobVarloc(j)}
  /\ MarkGoto(j, "filtering")
  /\ UNCHANGED <<registryVars, gpkg, pubVars, trained, flock, markIn, seen>>

(* make valid-varlocs, a prerequisite of varlocs-release *)
Filter(j) ==
  /\ markPc[j] = "filtering"
  /\ gpkg' = txt
  /\ MarkGoto(j, "resolving")
  /\ UNCHANGED <<registryVars, pubVars, trained, txt, flock, markIn, seen>>

(* mutant: the pointer of the model *)
ResolveModel(j) ==
  /\ markPc[j] = "resolving"
  /\ markIn' = [markIn EXCEPT ![j] = pointer[JobVarloc(j)]]
  /\ MarkGoto(j, "replacing")
  /\ UNCHANGED <<registryVars, gpkg, pubVars, trained, txt, flock, seen>>

(* publish_varlocs.sh *)
Resolve(j) ==
  /\ markPc[j] = "resolving"
  /\ markIn' = [markIn EXCEPT ![j] = pointer["inputs"]]
  /\ MarkGoto(j, "replacing")
  /\ UNCHANGED <<registryVars, gpkg, pubVars, trained, txt, flock, seen>>

Replace(j) ==
  /\ markPc[j] = "replacing" /\ stored[<<markIn[j], "varlocs">>] # {}
  /\ valid' = [valid EXCEPT ![markIn[j]] = gpkg]
  /\ stored' = [stored EXCEPT ![<<markIn[j], "varlocs">>] = @ \cup {"valid_varlocs.gpkg"}]
  /\ MarkGoto(j, "replacingAll")
  /\ UNCHANGED <<pointer, gpkg, pubVars, trained, txt, flock, markIn, seen>>

ReplaceAll(j) ==
  /\ markPc[j] = "replacingAll"
  /\ stored' = [stored EXCEPT ![<<markIn[j], "varlocs">>] = @ \cup {"all_varlocs.gpkg"}]
  /\ flock' = (IF flock = j THEN Nobody ELSE flock)
  /\ MarkGoto(j, "done")
  /\ UNCHANGED <<pointer, valid, gpkg, pubVars, trained, txt, markIn, seen>>

(* a failure releases the lock *)
FailMark(j) ==
  /\ flock = j /\ markPc[j] \notin {"idle", "done", "failed"}
  /\ flock' = Nobody
  /\ MarkGoto(j, "failed")
  /\ UNCHANGED <<registryVars, gpkg, pubVars, trained, txt, markIn, seen>>

(* mutant: the checkpoints are looked for before the lock is taken *)
SyncScanFirst ==
  /\ markPc[Sync] = "idle"
  /\ seen' = trained
  /\ \/ trained = {} /\ MarkGoto(Sync, "failed")
     \/ trained # {} /\ MarkGoto(Sync, "rewriting")
  /\ UNCHANGED <<registryVars, gpkg, pubVars, trained, txt, flock, markIn>>

(* update_trained.sh *)
SyncLock ==
  /\ markPc[Sync] = "idle" /\ flock = Nobody
  /\ seen' = trained
  /\ \/ trained = {} /\ MarkGoto(Sync, "failed") /\ UNCHANGED flock
     \/ trained # {} /\ MarkGoto(Sync, "rewriting") /\ flock' = Sync
  /\ UNCHANGED <<registryVars, gpkg, pubVars, trained, txt, markIn>>

SyncWrite ==
  /\ markPc[Sync] = "rewriting"
  /\ txt' = seen
  /\ flock' = Nobody
  /\ MarkGoto(Sync, "done")
  /\ UNCHANGED <<registryVars, gpkg, pubVars, trained, markIn, seen>>

MarkStep(j) == Lock(j) \/ Add(j) \/ Filter(j) \/ Resolve(j) \/ Replace(j) \/ ReplaceAll(j)

=============================================================================
