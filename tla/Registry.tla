------------------------------ MODULE Registry ------------------------------
(***************************************************************************)
(* The inputs and models buckets and the scripts that publish versions in  *)
(* them (publish_inputs.sh, publish_model.sh).  A version is a set of      *)
(* directories: the layers of an inputs version, the bundle of a model     *)
(* version.  A key's pointer is its current object.                        *)
(***************************************************************************)
EXTENDS Naturals, Sequences

CONSTANTS
  InputVersions, ModelVersions, NoVersion,
  Published,     \* the inputs version that is current at the outset
  VarlocOf,      \* the varloc of a model version
  Listed,        \* the varlocs trained and listed at the outset, their models not released
  Layers,        \* the layers of an inputs version in upload order
  Tifs,          \* the files of a layer, varlocs excepted
  BundleFiles,   \* the files of a bundle
  Publishers,
  Targets,       \* the versions a publisher publishes, in order
  Forced,        \* the publishers run with FORCE=1
  Tidy           \* whether nobody publishes a version beside another publisher of it, nor
                 \* while a part of a directory passes for all of it without FORCE=1, nor
                 \* while it is current with FORCE=1

Versions == InputVersions \cup ModelVersions
Varlocs  == {VarlocOf[m] : m \in ModelVersions}
Keys     == {"inputs"} \cup Varlocs
Key(v)   == IF v \in InputVersions THEN "inputs" ELSE VarlocOf[v]

LayersOf(v) == IF v \in InputVersions THEN {Layers[i] : i \in 1..Len(Layers)} ELSE {"bundle"}
Dirs == UNION {{v} \X LayersOf(v) : v \in Versions}

Files(d) == IF d[1] \in ModelVersions THEN BundleFiles
            ELSE IF d[2] = "varlocs" THEN {"valid_varlocs.gpkg", "all_varlocs.gpkg"}
            ELSE Tifs

ASSUME VersionsAssumption ==
  /\ InputVersions \cap ModelVersions = {} /\ NoVersion \notin Versions
  /\ Published \in InputVersions /\ "inputs" \notin Varlocs
  /\ Layers \in Seq({"baseline", "legalmax", "topo", "varlocs", "fbfm"})
  /\ "varlocs" \in {Layers[i] : i \in 1..Len(Layers)}
  /\ \A i, k \in 1..Len(Layers) : i # k => Layers[i] # Layers[k]
  /\ Tifs # {} /\ "valid_varlocs.gpkg" \notin Tifs \cup BundleFiles
  /\ "model.pt" \in BundleFiles /\ Listed \subseteq Varlocs
ASSUME PublishersAssumption ==
  /\ Targets \in [Publishers -> Seq(Versions)]
  /\ \A p \in Publishers : Len(Targets[p]) > 0
  /\ \A p \in Publishers : \/ Len(Targets[p]) = 1 /\ Targets[p][1] \in InputVersions
                           \/ \A i \in 1..Len(Targets[p]) : Targets[p][i] \in ModelVersions
  /\ \A p \in Publishers : \A i, k \in 1..Len(Targets[p]) :
       i # k => Key(Targets[p][i]) # Key(Targets[p][k])
  /\ Forced \subseteq Publishers /\ Tidy \in BOOLEAN

VARIABLES
  stored,    \* the objects of every directory
  pointer,   \* the current object of every key
  valid,     \* the varlocs in the valid_varlocs.gpkg of an inputs version
  gpkg,      \* the varlocs in the valid_varlocs.gpkg of the training host
  pubPc,     \* where a publisher is
  pubNext,   \* the directory or pointer it is at
  pubSent,   \* the files of that directory it has uploaded
  pubRead    \* the gpkg when it began with that directory

registryVars == <<stored, pointer, valid>>
pubVars == <<pubPc, pubNext, pubSent, pubRead>>

Complete(v) == \A d \in Dirs : d[1] = v => stored[d] = Files(d)

(* what the script takes for a published directory: one that has objects,  *)
(* and of a bundle all but model.pt                                        *)
Matches(d) ==
  IF d[1] \in ModelVersions THEN BundleFiles \ {"model.pt"} \subseteq stored[d]
  ELSE stored[d] # {}

Active(p) == pubPc[p] \in {"checking", "uploading", "pointing"}

(* what publisher p uploads, in order *)
DirsOf(p) ==
  IF Targets[p][1] \in InputVersions
    THEN [i \in 1..Len(Layers) |-> <<Targets[p][1], Layers[i]>>]
    ELSE [i \in 1..Len(Targets[p]) |-> <<Targets[p][i], "bundle">>]

Dir(p) == DirsOf(p)[pubNext[p]]

Uploads(p, v) == \E i \in 1..Len(Targets[p]) : Targets[p][i] = v

RegistryTypeOK ==
  /\ stored \in [Dirs -> SUBSET UNION {Files(d) : d \in Dirs}]
  /\ \A d \in Dirs : stored[d] \subseteq Files(d)
  /\ pointer \in [Keys -> Versions \cup {NoVersion}]
  /\ \A k \in Keys : pointer[k] # NoVersion => Key(pointer[k]) = k
  /\ pointer["inputs"] # NoVersion
  /\ valid \in [InputVersions -> SUBSET Varlocs]
  /\ gpkg \in SUBSET Varlocs
  /\ pubPc \in [Publishers -> {"idle", "checking", "uploading", "pointing", "done", "failed"}]
  /\ pubNext \in [Publishers -> Nat \ {0}]
  /\ pubSent \in [Publishers -> SUBSET UNION {Files(d) : d \in Dirs}]
  /\ pubRead \in [Publishers -> SUBSET Varlocs]

RegistryInit ==
  /\ stored = [d \in Dirs |-> IF d[1] = Published THEN Files(d) ELSE {}]
  /\ pointer = [k \in Keys |-> IF k = "inputs" THEN Published ELSE NoVersion]
  /\ valid = [v \in InputVersions |-> IF v = Published THEN Listed ELSE {}]
  /\ gpkg = Listed
  /\ pubPc = [p \in Publishers |-> "idle"]
  /\ pubNext = [p \in Publishers |-> 1]
  /\ pubSent = [p \in Publishers |-> {}]
  /\ pubRead = [p \in Publishers |-> {}]

-----------------------------------------------------------------------------
(* Publisher p has checked its local files and begins. *)
Start(p) ==
  /\ pubPc[p] = "idle"
  /\ Tidy => \A v \in Versions : Uploads(p, v) =>
       /\ \A q \in Publishers : Uploads(q, v) => ~Active(q)
       /\ \/ p \in Forced /\ pointer[Key(v)] # v
          \/ p \notin Forced /\ \A d \in Dirs : d[1] = v /\ Matches(d) => stored[d] = Files(d)
  /\ pubPc' = [pubPc EXCEPT ![p] = "checking"]
  /\ UNCHANGED <<registryVars, gpkg, pubNext, pubSent, pubRead>>

(* mutant: the pointer is written after the first directory *)
AdvanceEarly(p) ==
  /\ pubPc' = [pubPc EXCEPT ![p] = "pointing"]
  /\ pubNext' = [pubNext EXCEPT ![p] = 1]
  /\ pubSent' = [pubSent EXCEPT ![p] = {}]
  /\ pubRead' = [pubRead EXCEPT ![p] = {}]

(* the next directory, or the pointers *)
Advance(p) ==
  /\ pubSent' = [pubSent EXCEPT ![p] = {}]
  /\ pubRead' = [pubRead EXCEPT ![p] = {}]
  /\ \/ /\ pubNext[p] < Len(DirsOf(p))
        /\ pubPc' = [pubPc EXCEPT ![p] = "checking"]
        /\ pubNext' = [pubNext EXCEPT ![p] = @ + 1]
     \/ /\ pubNext[p] >= Len(DirsOf(p))
        /\ pubPc' = [pubPc EXCEPT ![p] = "pointing"]
        /\ pubNext' = [pubNext EXCEPT ![p] = 1]

(* lists the directory: without FORCE=1 a published one is passed over, or *)
(* refused; a listing that fails is taken for an unpublished one           *)
Check(p) ==
  /\ pubPc[p] = "checking"
  /\ \/ p \notin Forced /\ stored[Dir(p)] # {} /\ Matches(Dir(p)) /\ Advance(p)
     \/ /\ p \notin Forced /\ stored[Dir(p)] # {} /\ ~Matches(Dir(p))
        /\ pubPc' = [pubPc EXCEPT ![p] = "failed"]
        /\ UNCHANGED <<pubNext, pubSent, pubRead>>
     \/ /\ pubPc' = [pubPc EXCEPT ![p] = "uploading"]
        /\ pubRead' = [pubRead EXCEPT ![p] = gpkg]
        /\ UNCHANGED <<pubNext, pubSent>>
  /\ UNCHANGED <<registryVars, gpkg>>

(* gcloud uploads the files of a directory in any order, as it reads them  *)
(* between its start and now; an inputs layer's are not replaced without   *)
(* FORCE=1                                                                 *)
Upload(p) ==
  /\ pubPc[p] = "uploading"
  /\ \E f \in Files(Dir(p)) \ pubSent[p] :
       /\ pubSent' = [pubSent EXCEPT ![p] = @ \cup {f}]
       /\ stored' = [stored EXCEPT ![Dir(p)] = @ \cup {f}]
       /\ IF f = "valid_varlocs.gpkg" /\ (p \in Forced \/ f \notin stored[Dir(p)])
            THEN \E g \in {pubRead[p], gpkg} : valid' = [valid EXCEPT ![Dir(p)[1]] = g]
            ELSE UNCHANGED valid
  /\ UNCHANGED <<pointer, gpkg, pubPc, pubNext, pubRead>>

(* mutant: without set -e a cp that fails is passed over *)
UploadedAnyway(p) ==
  /\ pubPc[p] = "uploading"
  /\ Advance(p)
  /\ UNCHANGED <<registryVars, gpkg>>

Uploaded(p) ==
  /\ pubPc[p] = "uploading" /\ pubSent[p] = Files(Dir(p))
  /\ Advance(p)
  /\ UNCHANGED <<registryVars, gpkg>>

Point(p) ==
  /\ pubPc[p] = "pointing"
  /\ pointer' = [pointer EXCEPT ![Key(Targets[p][pubNext[p]])] = Targets[p][pubNext[p]]]
  /\ pubNext' = [pubNext EXCEPT ![p] = @ + 1]
  /\ pubPc' = [pubPc EXCEPT ![p] = IF pubNext[p] = Len(Targets[p]) THEN "done" ELSE "pointing"]
  /\ UNCHANGED <<stored, valid, gpkg, pubSent, pubRead>>

(* a call of gcloud fails, or the script is interrupted *)
Fail(p) ==
  /\ Active(p)
  /\ pubPc' = [pubPc EXCEPT ![p] = "failed"]
  /\ UNCHANGED <<registryVars, gpkg, pubNext, pubSent, pubRead>>

PublisherStep(p) == Check(p) \/ Upload(p) \/ Uploaded(p) \/ Point(p)

=============================================================================
