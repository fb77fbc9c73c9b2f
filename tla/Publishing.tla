----------------------------- MODULE Publishing -----------------------------
(***************************************************************************)
(* Publishers, training jobs and the POSTs of an api instance around the   *)
(* inputs and models buckets.                                              *)
(***************************************************************************)
EXTENDS TrainedList, Resolvers

vars == <<registryVars, gpkg, pubVars, listVars, resolverVars>>

TypeOK == RegistryTypeOK /\ ListTypeOK /\ ResolversTypeOK

Init == RegistryInit /\ ListInit /\ ResolversInit

(* a step of a publisher, an operator's or a job's *)
Publish(p) ==
  /\ \/ PublisherStep(p) /\ UNCHANGED listVars
     \/ Fail(p) /\ UNCHANGED listVars
     \/ p \notin Jobs /\ Start(p) /\ UNCHANGED listVars
     \/ p \in Jobs /\ Train(p)
  /\ Noted
  /\ UNCHANGED <<cacheVars, postVars>>

MarkTrained(j) == (MarkStep(j) \/ FailMark(j)) /\ UNCHANGED resolverVars

UpdateTrained == (SyncLock \/ SyncWrite) /\ UNCHANGED resolverVars

Post(c) == (PostStep(c) \/ FailPost(c)) /\ UNCHANGED <<registryVars, gpkg, pubVars, listVars>>

Clock == Tick /\ UNCHANGED <<pubVars, listVars>>

Next ==
  \/ \E p \in Publishers : Publish(p)
  \/ \E j \in Jobs : MarkTrained(j)
  \/ UpdateTrained
  \/ \E c \in Posts : Post(c)
  \/ Clock

Spec == Init /\ [][Next]_vars

-----------------------------------------------------------------------------
Pointers == INSTANCE VersionPointer WITH
  Names <- Versions, KeyOf <- [v \in Versions |-> Key(v)], None <- NoVersion, First <- Published,
  whole <- {v \in Versions : Complete(v)}, current <- pointer

(* A current object only ever names a version all of whose directories and *)
(* files are there, whatever publishers are interrupted between two        *)
(* objects (publish_inputs.sh, publish_model.sh: the pointers come last).  *)
PointerSpec == Pointers!PointerSpec

(* The same of a state: what publish_inputs.sh says of itself, "repoints   *)
(* current after every layer is up".                                       *)
CurrentIsComplete == \A k \in Keys : pointer[k] # NoVersion => Complete(pointer[k])

(* Once mark_trained.sh has released the gpkg, its varloc stays in the one *)
(* of that inputs version: no other job, update_trained.sh  *)
(* or publisher puts an older one in its place.                            *)
MarksSurvive == \A j \in Jobs : Marked(j) => JobVarloc(j) \in valid[markIn[j]]

(* A job is named after an inputs version and a bundle that are there in   *)
(* full, and the bundle is its own varloc's, whatever the instance has     *)
(* cached (CreateJob: the job_id and the runner's URIs are made of both).  *)
JobsNamePublished ==
  \A c \in Posts : postPc[c] = "named" =>
    /\ Complete(inputsOf[c])
    /\ modelOf[c] # NoVersion => Complete(modelOf[c]) /\ VarlocOf[modelOf[c]] = VarlocAsked[c]

(* resolve returns no version that stopped being current longer ago than   *)
(* the TTL and a read take, though a slow POST may store what it read      *)
(* before the pointer moved over what another stored since (versions.go:   *)
(* "pointer re-read interval").                                            *)
FreshEnough ==
  [][\A c \in Posts, v \in Versions :
       \/ inputsOf'[c] = v /\ inputsOf[c] # v
       \/ modelOf'[c] = v /\ modelOf[c] # v
       => gone[v] < TTL + ReadTime]_vars

-----------------------------------------------------------------------------
(* The inductive invariant.  What a publisher has behind it is there in    *)
(* full; nobody else publishes its versions, and no part of a directory    *)
(* before it passes for all of it.                                         *)
Up(d) == stored[d] = Files(d)

Sending(p) == pubPc[p] \in {"checking", "uploading"}

Behind(p) ==
  /\ pubPc[p] = "idle" => pubNext[p] = 1
  /\ pubPc[p] \in {"idle", "checking"} => pubSent[p] = {}
  /\ Sending(p) =>
       /\ pubNext[p] \in DOMAIN DirsOf(p)
       /\ Tidy => \A i \in DOMAIN DirsOf(p) : i < pubNext[p] => Up(DirsOf(p)[i])
  /\ pubPc[p] = "uploading" => pubSent[p] \subseteq stored[Dir(p)]
  /\ pubPc[p] = "pointing" =>
       /\ pubNext[p] \in DOMAIN Targets[p]
       /\ Tidy => \A i \in DOMAIN DirsOf(p) : Up(DirsOf(p)[i])

UploadInv == \A p \in Publishers : Behind(p)

Apart ==
  \A p, q \in Publishers, v \in Versions :
    Active(p) /\ Active(q) /\ Uploads(p, v) /\ Uploads(q, v) => p = q

(* the directory it lists next and those after it *)
Ahead(p, i) == i > pubNext[p] \/ (i = pubNext[p] /\ pubPc[p] = "checking")

Unmistaken(p) ==
  Sending(p) => \A i \in DOMAIN DirsOf(p) :
                  Ahead(p, i) /\ Matches(DirsOf(p)[i]) => Up(DirsOf(p)[i])

Unserved(p) ==
  Sending(p) => \A v \in Versions : Uploads(p, v) => pointer[Key(v)] # v

AloneInv ==
  /\ Apart
  /\ \A p \in Publishers \ Forced : Unmistaken(p)
  /\ \A p \in Forced : Unserved(p)

ReplaceInv ==
  \A j \in Jobs :
    /\ markPc[j] = "replacing" \/ Marked(j) => markIn[j] \in InputVersions
    /\ markPc[j] = "replacingAll" => stored[<<markIn[j], "varlocs">>] # {}

BaseInv == TypeOK /\ UploadInv /\ ReplaceInv /\ (Tidy => AloneInv /\ CurrentIsComplete)

(* The list grows under its lock; what is marked is in the gpkg of the     *)
(* training host from then on.                                             *)
Marking(j) == markPc[j] \in {"adding", "filtering", "resolving", "replacing", "replacingAll",
                            "rewriting"}

MarksInv ==
  /\ \A j \in Jobs \cup {Sync} : Marking(j) => flock = j
  /\ txt \subseteq trained /\ gpkg \subseteq txt /\ seen \subseteq trained
  /\ markPc[Sync] = "rewriting" => txt \subseteq seen
  /\ \A j \in Jobs :
       /\ pubPc[j] # "idle" => JobVarloc(j) \in trained
       /\ Marking(j) => pubPc[j] = "done"
       /\ markPc[j] = "filtering" => JobVarloc(j) \in txt
       /\ markPc[j] \in {"resolving", "replacing"} \/ Marked(j) => JobVarloc(j) \in gpkg
       /\ Marked(j) => "valid_varlocs.gpkg" \in stored[<<markIn[j], "varlocs">>]

(* So a publisher that replaces the gpkg of a version has what was marked  *)
(* there.                                                                  *)
OverwriteInv ==
  /\ MarksSurvive
  /\ \A p \in Forced, j \in Jobs :
       /\ pubPc[p] = "uploading" /\ (markPc[j] = "replacing" \/ Marked(j))
       /\ Dir(p) = <<markIn[j], "varlocs">>
       => JobVarloc(j) \in pubRead[p]

ReleaseInv == BaseInv /\ MarksInv /\ (Tidy \/ Forced = {} => OverwriteInv)

(* What is cached, read or named was current. *)
NamesInv ==
  /\ \A k \in Keys : cache[k] # NoVersion => Complete(cache[k])
  /\ \A c \in Posts :
       /\ read[c] # NoVersion => Complete(read[c])
       /\ postPc[c] \in {"select", "model", "storeModel", "named"} => inputsOf[c] # NoVersion
       /\ inputsOf[c] # NoVersion => Complete(inputsOf[c])
       /\ modelOf[c] # NoVersion => Complete(modelOf[c]) /\ Key(modelOf[c]) = VarlocAsked[c]

(* And it is not gone for longer than it is cached or read. *)
AgesInv ==
  /\ \A k \in Keys :
       /\ cacheAge[k] < TTL => cache[k] # NoVersion /\ gone[cache[k]] <= cacheAge[k] + ReadTime
       /\ pointer[k] # NoVersion => gone[pointer[k]] = 0
  /\ \A c \in Posts : Storing(c) => gone[read[c]] <= readAge[c]

NamingInv == BaseInv /\ AgesInv /\ (Tidy => NamesInv)

=============================================================================
