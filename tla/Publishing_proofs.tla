------------------------- MODULE Publishing_proofs --------------------------
(***************************************************************************)
(* Theorems about Publishing and their proofs, for any publishers, jobs,   *)
(* versions and POSTs.                                                     *)
(***************************************************************************)
EXTENDS Publishing, TLAPS

-----------------------------------------------------------------------------
(* Every directory belongs to a version; the file sets are not empty.      *)
LEMMA DirFacts ==
  /\ \A d \in Dirs : d[1] \in Versions /\ d = <<d[1], d[2]>> /\ d[2] \in LayersOf(d[1])
  /\ \A v \in Versions : \A l \in LayersOf(v) : <<v, l>> \in Dirs
  /\ \A v \in Versions : LayersOf(v) # {}
  /\ \A d \in Dirs : Files(d) # {}
<1>1. \A d \in Dirs : d[1] \in Versions /\ d = <<d[1], d[2]>> /\ d[2] \in LayersOf(d[1])
  BY DEF Dirs
<1>2. \A v \in Versions : \A l \in LayersOf(v) : <<v, l>> \in Dirs
  BY DEF Dirs
<1>3. \A v \in Versions : LayersOf(v) # {}
  BY VersionsAssumption DEF LayersOf
<1>4. \A d \in Dirs : Files(d) # {}
  BY VersionsAssumption DEF Files
<1>5. QED  BY <1>1, <1>2, <1>3, <1>4

(* A key is the key of some version, and every version's key is one.       *)
LEMMA KeyFacts ==
  /\ Keys = {Key(v) : v \in Versions}
  /\ "inputs" \in Keys /\ Varlocs \subseteq Keys
  /\ \A v \in Versions : (Key(v) = "inputs") <=> v \in InputVersions
BY VersionsAssumption DEF Keys, Key, Versions, Varlocs

(* The versions a publisher uploads; its directories are distinct and are  *)
(* all of each of those versions.                                          *)
LEMMA TargetFacts ==
  ASSUME NEW p \in Publishers
  PROVE  /\ Len(Targets[p]) \in Nat \ {0} /\ DOMAIN Targets[p] = 1..Len(Targets[p])
         /\ \A i \in DOMAIN Targets[p] : Targets[p][i] \in Versions /\ Uploads(p, Targets[p][i])
         /\ Len(DirsOf(p)) \in Nat \ {0} /\ DOMAIN DirsOf(p) = 1..Len(DirsOf(p))
         /\ \A i \in DOMAIN DirsOf(p) : DirsOf(p)[i] \in Dirs /\ Uploads(p, DirsOf(p)[i][1])
         /\ \A i, k \in DOMAIN DirsOf(p) : i # k => DirsOf(p)[i] # DirsOf(p)[k]
         /\ \A d \in Dirs : Uploads(p, d[1]) => \E i \in DOMAIN DirsOf(p) : DirsOf(p)[i] = d
<1>1. /\ Targets[p] \in Seq(Versions) /\ Len(Targets[p]) > 0
      /\ \A i, k \in 1..Len(Targets[p]) : i # k => Key(Targets[p][i]) # Key(Targets[p][k])
  BY PublishersAssumption
<1>2. /\ Len(Targets[p]) \in Nat \ {0} /\ DOMAIN Targets[p] = 1..Len(Targets[p])
      /\ \A i \in DOMAIN Targets[p] : Targets[p][i] \in Versions /\ Uploads(p, Targets[p][i])
  BY <1>1 DEF Uploads
<1>3. CASE Len(Targets[p]) = 1 /\ Targets[p][1] \in InputVersions
  <2> DEFINE v == Targets[p][1]
  <2>1. DirsOf(p) = [i \in 1..Len(Layers) |-> <<v, Layers[i]>>]
    BY <1>3 DEF DirsOf
  <2>2. LayersOf(v) = {Layers[i] : i \in 1..Len(Layers)} /\ v \in Versions
    BY <1>3 DEF LayersOf, Versions
  <2>3. Len(Layers) \in Nat \ {0}
    BY VersionsAssumption
  <2>4. \A u : Uploads(p, u) <=> u = v
    BY <1>3 DEF Uploads
  <2>5. Len(DirsOf(p)) = Len(Layers) /\ DOMAIN DirsOf(p) = 1..Len(DirsOf(p))
    BY <2>1, <2>3
  <2>6. \A i \in DOMAIN DirsOf(p) : DirsOf(p)[i] \in Dirs /\ Uploads(p, DirsOf(p)[i][1])
    <3> SUFFICES ASSUME NEW i \in 1..Len(Layers)
                 PROVE  <<v, Layers[i]>> \in Dirs /\ Uploads(p, v)
      BY <2>1, <2>5
    <3> QED  BY <2>2, <2>4, DirFacts
  <2>7. \A i, k \in DOMAIN DirsOf(p) : i # k => DirsOf(p)[i] # DirsOf(p)[k]
    BY <2>1, VersionsAssumption
  <2>8. \A d \in Dirs : Uploads(p, d[1]) => \E i \in DOMAIN DirsOf(p) : DirsOf(p)[i] = d
    BY <2>1, <2>2, <2>4, DirFacts, SMTT(40)
  <2>9. QED  BY <1>2, <2>3, <2>5, <2>6, <2>7, <2>8
<1>4. CASE \A i \in 1..Len(Targets[p]) : Targets[p][i] \in ModelVersions
  <2>1. Targets[p][1] \notin InputVersions
    BY <1>2, <1>4, VersionsAssumption
  <2>2. DirsOf(p) = [i \in 1..Len(Targets[p]) |-> <<Targets[p][i], "bundle">>]
    BY <2>1 DEF DirsOf
  <2>3. \A i \in 1..Len(Targets[p]) : LayersOf(Targets[p][i]) = {"bundle"}
    BY <1>4, VersionsAssumption DEF LayersOf
  <2>4. Len(DirsOf(p)) = Len(Targets[p]) /\ DOMAIN DirsOf(p) = 1..Len(DirsOf(p))
    BY <2>2, <1>2
  <2>5. \A i \in DOMAIN DirsOf(p) : DirsOf(p)[i] \in Dirs /\ Uploads(p, DirsOf(p)[i][1])
    BY <2>2, <2>3, <1>2, DirFacts, SMTT(40) DEF Uploads
  <2>6. \A i, k \in DOMAIN DirsOf(p) : i # k => DirsOf(p)[i] # DirsOf(p)[k]
    BY <2>2, <1>1
  <2>7. \A d \in Dirs : Uploads(p, d[1]) => \E i \in DOMAIN DirsOf(p) : DirsOf(p)[i] = d
    <3> SUFFICES ASSUME NEW d \in Dirs, NEW i \in 1..Len(Targets[p]), Targets[p][i] = d[1]
                 PROVE  \E k \in DOMAIN DirsOf(p) : DirsOf(p)[k] = d
      BY DEF Uploads
    <3>1. d = <<d[1], d[2]>> /\ d[2] = "bundle"
      BY <2>3, DirFacts
    <3> QED  BY <2>2, <3>1
  <2>8. QED  BY <1>2, <2>4, <2>5, <2>6, <2>7
<1>5. \/ Len(Targets[p]) = 1 /\ Targets[p][1] \in InputVersions
      \/ \A i \in 1..Len(Targets[p]) : Targets[p][i] \in ModelVersions
  BY PublishersAssumption
<1> QED  BY <1>3, <1>4, <1>5

-----------------------------------------------------------------------------
(* Types, and what publishers have behind them                             *)

(* Objects that are there stay there. *)
Grown == \A d \in Dirs : stored[d] \subseteq stored'[d] /\ stored'[d] \subseteq Files(d)

LEMMA BehindKept ==
  ASSUME UploadInv, Grown, NEW q \in Publishers,
         UNCHANGED <<pubPc[q], pubNext[q], pubSent[q]>>
  PROVE  Behind(q)'
<1>1. \A d \in Dirs : Up(d) => Up(d)'
  BY DEF Grown, Up
<1>2. Behind(q)
  BY DEF UploadInv
<1>3. \A i \in DOMAIN DirsOf(q) : DirsOf(q)[i] \in Dirs
  BY TargetFacts
<1>4. ASSUME pubPc[q] = "uploading" PROVE pubSent[q] \subseteq stored'[Dir(q)]
  <2>1. Dir(q) \in Dirs /\ pubSent[q] \subseteq stored[Dir(q)]
    BY <1>2, <1>3, <1>4 DEF Behind, Sending, Dir
  <2> QED  BY <2>1 DEF Grown
<1>5. Dir(q)' = Dir(q) /\ DirsOf(q)' = DirsOf(q)
  BY DEF Dir, DirsOf
<1> QED  BY <1>1, <1>2, <1>3, <1>4, <1>5 DEF Behind, Sending

(* A publisher done with a directory goes on to the next or to the pointer *)
LEMMA AdvanceKeeps ==
  ASSUME RegistryTypeOK, UploadInv, NEW p \in Publishers,
         Sending(p), Tidy => Up(Dir(p)), Advance(p), UNCHANGED <<registryVars, gpkg>>
  PROVE  RegistryTypeOK' /\ UploadInv'
<1> USE DEF RegistryTypeOK, registryVars
<1>1. /\ pubNext[p] \in DOMAIN DirsOf(p)
      /\ Tidy => \A i \in DOMAIN DirsOf(p) : i < pubNext[p] => Up(DirsOf(p)[i])
  BY DEF UploadInv, Behind
<1>2. Len(DirsOf(p)) \in Nat \ {0} /\ DOMAIN DirsOf(p) = 1..Len(DirsOf(p)) /\ 1 \in DOMAIN Targets[p]
  BY TargetFacts
<1>3. Tidy => \A i \in DOMAIN DirsOf(p) : i <= pubNext[p] => Up(DirsOf(p)[i])
  BY <1>1, <1>2 DEF Dir
<1>4. \/ /\ pubNext[p] < Len(DirsOf(p))
         /\ pubPc' = [pubPc EXCEPT ![p] = "checking"]
         /\ pubNext' = [pubNext EXCEPT ![p] = pubNext[p] + 1]
      \/ /\ pubNext[p] = Len(DirsOf(p))
         /\ pubPc' = [pubPc EXCEPT ![p] = "pointing"]
         /\ pubNext' = [pubNext EXCEPT ![p] = 1]
  BY <1>1, <1>2 DEF Advance
<1>5. RegistryTypeOK'
  <2>1. pubNext[p] + 1 \in Nat \ {0}
    OBVIOUS
  <2>2. /\ pubPc' \in [Publishers -> {"idle", "checking", "uploading", "pointing", "done", "failed"}]
        /\ pubNext' \in [Publishers -> Nat \ {0}]
    <3>1. /\ pubPc \in [Publishers -> {"idle", "checking", "uploading", "pointing", "done", "failed"}]
          /\ pubNext \in [Publishers -> Nat \ {0}]
      OBVIOUS
    <3>2. \/ /\ pubPc' = [pubPc EXCEPT ![p] = "checking"]
             /\ pubNext' = [pubNext EXCEPT ![p] = pubNext[p] + 1]
          \/ /\ pubPc' = [pubPc EXCEPT ![p] = "pointing"]
             /\ pubNext' = [pubNext EXCEPT ![p] = 1]
      BY <1>4
    <3> HIDE DEF RegistryTypeOK
    <3> QED  BY <2>1, <3>1, <3>2
  <2>3. /\ pubSent' \in [Publishers -> SUBSET UNION {Files(d) : d \in Dirs}]
        /\ pubRead' \in [Publishers -> SUBSET Varlocs]
    BY DEF Advance
  <2> QED  BY <2>2, <2>3
<1>6. \A d : Up(d)' = Up(d)
  BY DEF Up
<1>7. Behind(p)'
  <2>1. DirsOf(p)' = DirsOf(p)
    BY DEF DirsOf
  <2>2. pubSent'[p] = {} /\ pubPc'[p] \in {"checking", "pointing"}
    BY <1>4 DEF Advance
  <2>3. CASE pubNext[p] < Len(DirsOf(p)) /\ pubPc'[p] = "checking" /\ pubNext'[p] = pubNext[p] + 1
    BY <1>1, <1>2, <1>3, <1>6, <2>1, <2>2, <2>3 DEF Behind, Sending
  <2>4. CASE pubNext[p] = Len(DirsOf(p)) /\ pubPc'[p] = "pointing" /\ pubNext'[p] = 1
    BY <1>1, <1>2, <1>3, <1>6, <2>1, <2>2, <2>4 DEF Behind, Sending
  <2> QED  BY <1>4, <2>3, <2>4
<1>8. ASSUME NEW q \in Publishers, q # p PROVE Behind(q)'
  BY <1>4, <1>8, BehindKept DEF Grown, Advance
<1> QED  BY <1>5, <1>7, <1>8 DEF UploadInv

(* A publisher that only changes its place. *)
LEMMA MoveKeeps ==
  ASSUME RegistryTypeOK, UploadInv, NEW p \in Publishers, NEW l,
         l \in {"checking", "uploading", "failed"}, l = "checking" => pubPc[p] = "idle",
         l = "uploading" => pubPc[p] = "checking",
         pubNext[p] = 1 \/ pubPc[p] # "idle", pubSent[p] = {} \/ l # "uploading",
         pubPc' = [pubPc EXCEPT ![p] = l],
         pubRead' \in [Publishers -> SUBSET Varlocs],
         UNCHANGED <<registryVars, gpkg, pubNext, pubSent>>
  PROVE  RegistryTypeOK' /\ UploadInv'
<1> USE DEF registryVars
<1>1. RegistryTypeOK'
  BY DEF RegistryTypeOK
<1>2. ASSUME NEW q \in Publishers, q # p PROVE Behind(q)'
  BY <1>2, BehindKept DEF Grown, RegistryTypeOK
<1>3. Behind(p)'
  <2>1. Behind(p) /\ DirsOf(p)' = DirsOf(p) /\ \A d : Up(d)' = Up(d)
    BY DEF UploadInv, DirsOf, Up
  <2>2. pubPc'[p] = l
    BY DEF RegistryTypeOK
  <2>3. pubNext[p] \in Nat \ {0} /\ DOMAIN DirsOf(p) = 1..Len(DirsOf(p)) /\ Len(DirsOf(p)) \in Nat \ {0}
    BY TargetFacts DEF RegistryTypeOK
  <2>4. CASE l = "failed"
    BY <2>2, <2>4 DEF Behind, Sending
  <2>5. CASE l = "checking"
    BY <2>1, <2>2, <2>3, <2>5 DEF Behind, Sending
  <2>6. CASE l = "uploading"
    BY <2>1, <2>2, <2>3, <2>6 DEF Behind, Sending
  <2> QED  BY <2>4, <2>5, <2>6
<1> QED  BY <1>2, <1>3, <1>1 DEF UploadInv

LEMMA UploadKeeps ==
  ASSUME RegistryTypeOK, UploadInv, NEW p \in Publishers, Upload(p)
  PROVE  RegistryTypeOK' /\ UploadInv' /\ Grown
<1>1. PICK f \in Files(Dir(p)) \ pubSent[p] :
        /\ pubSent' = [pubSent EXCEPT ![p] = @ \cup {f}]
        /\ stored' = [stored EXCEPT ![Dir(p)] = @ \cup {f}]
        /\ \/ valid' = valid
           \/ \E g \in {pubRead[p], gpkg} : valid' = [valid EXCEPT ![Dir(p)[1]] = g]
  BY DEF Upload
<1>2. Dir(p) \in Dirs /\ pubSent[p] \subseteq stored[Dir(p)]
  BY TargetFacts DEF Upload, UploadInv, Behind, Sending, Dir
<1>3. /\ stored \in [Dirs -> SUBSET UNION {Files(d) : d \in Dirs}]
      /\ \A d \in Dirs : stored[d] \subseteq Files(d)
      /\ pubSent \in [Publishers -> SUBSET UNION {Files(d) : d \in Dirs}]
      /\ pubRead[p] \in SUBSET Varlocs /\ gpkg \in SUBSET Varlocs
      /\ valid \in [InputVersions -> SUBSET Varlocs]
  BY DEF RegistryTypeOK
<1>4. Grown
  BY <1>1, <1>2, <1>3 DEF Grown
<1>5. valid' \in [InputVersions -> SUBSET Varlocs]
  BY <1>1, <1>3
<1>6. f \in UNION {Files(d) : d \in Dirs}
  BY <1>2
<1>7. /\ stored' \in [Dirs -> SUBSET UNION {Files(d) : d \in Dirs}]
      /\ pubSent' \in [Publishers -> SUBSET UNION {Files(d) : d \in Dirs}]
  BY <1>1, <1>3, <1>6
<1>8. RegistryTypeOK'
  BY <1>4, <1>5, <1>7 DEF RegistryTypeOK, Grown, Upload
<1>9. ASSUME NEW q \in Publishers, q # p PROVE Behind(q)'
  BY <1>1, <1>3, <1>4, <1>9, BehindKept DEF Upload
<1>10. Behind(p)'
  <2>1. /\ Behind(p) /\ DirsOf(p)' = DirsOf(p) /\ pubPc'[p] = "uploading" /\ pubNext'[p] = pubNext[p]
        /\ Dir(p)' = Dir(p)
    BY DEF UploadInv, DirsOf, Upload, Dir
  <2>2. pubSent'[p] \subseteq stored'[Dir(p)]
    BY <1>1, <1>2, <1>3
  <2>3. \A d \in Dirs : Up(d) => Up(d)'
    BY <1>4 DEF Grown, Up
  <2>4. \A i \in DOMAIN DirsOf(p) : DirsOf(p)[i] \in Dirs
    BY TargetFacts
  <2>5. pubPc[p] = "uploading"
    BY DEF Upload
  <2> QED  BY <2>1, <2>2, <2>3, <2>4, <2>5 DEF Behind, Sending
<1> QED  BY <1>4, <1>8, <1>9, <1>10 DEF UploadInv

LEMMA PointKeeps ==
  ASSUME RegistryTypeOK, UploadInv, NEW p \in Publishers, Point(p)
  PROVE  RegistryTypeOK' /\ UploadInv'
<1> DEFINE v == Targets[p][pubNext[p]]
<1>1. v \in Versions /\ pubNext[p] \in DOMAIN Targets[p]
  BY TargetFacts DEF Point, UploadInv, Behind
<1>2. Key(v) \in Keys /\ pointer' = [pointer EXCEPT ![Key(v)] = v]
  BY <1>1, KeyFacts DEF Point
<1>3. /\ pointer' \in [Keys -> Versions \cup {NoVersion}]
      /\ \A k \in Keys : pointer'[k] # NoVersion => Key(pointer'[k]) = k
      /\ pointer'["inputs"] # NoVersion
  BY <1>1, <1>2, KeyFacts, VersionsAssumption DEF RegistryTypeOK
<1>4. pubNext[p] + 1 \in Nat \ {0}
  BY DEF RegistryTypeOK
<1>5. RegistryTypeOK'
  BY <1>3, <1>4 DEF RegistryTypeOK, Point
<1>6. ASSUME NEW q \in Publishers, q # p PROVE Behind(q)'
  BY <1>6, BehindKept DEF Grown, RegistryTypeOK, Point
<1>7. Behind(p)'
  <2>1. Behind(p) /\ DirsOf(p)' = DirsOf(p) /\ \A d : Up(d)' = Up(d)
    BY DEF UploadInv, DirsOf, Up, Point
  <2>2. pubPc'[p] \in {"done", "pointing"} /\ pubNext'[p] = pubNext[p] + 1
    BY DEF Point, RegistryTypeOK
  <2>3. pubPc'[p] = "pointing" => pubNext[p] # Len(Targets[p])
    BY DEF Point, RegistryTypeOK
  <2>4. pubPc'[p] = "pointing" => pubNext[p] + 1 \in DOMAIN Targets[p]
    BY <1>1, <2>3, TargetFacts
  <2> QED  BY <2>1, <2>2, <2>4 DEF Behind, Sending, Point
<1> QED  BY <1>5, <1>6, <1>7 DEF UploadInv

(* One case per step of a publisher or job. *)
LEMMA PublishKeeps ==
  ASSUME RegistryTypeOK, UploadInv, Tidy => AloneInv, NEW p \in Publishers,
         Start(p) \/ PublisherStep(p) \/ Fail(p)
  PROVE  RegistryTypeOK' /\ UploadInv'
<1>1. Behind(p)
  BY DEF UploadInv
<1>2. CASE Start(p)
  <2>1. pubNext[p] = 1 /\ pubSent[p] = {}
    BY <1>1, <1>2 DEF Start, Behind
  <2>2. pubRead' \in [Publishers -> SUBSET Varlocs]
    BY <1>2 DEF Start, RegistryTypeOK
  <2> QED  BY <1>2, <2>1, <2>2, MoveKeeps DEF Start
<1>3. CASE Fail(p)
  <2>1. pubRead' \in [Publishers -> SUBSET Varlocs]
    BY <1>3 DEF Fail, RegistryTypeOK
  <2> QED  BY <1>3, <2>1, MoveKeeps DEF Fail, Active
<1>4. CASE Check(p)
  <2>1. CASE p \notin Forced /\ Matches(Dir(p)) /\ Advance(p)
    <3>1. p \notin Forced /\ Sending(p)
      BY <1>4, <2>1 DEF Check, Sending
    <3>2. Tidy => Up(Dir(p))
      BY <1>1, <1>4, <2>1, <3>1 DEF AloneInv, Unmistaken, Ahead, Check, Dir, Behind
    <3> QED  BY <1>4, <2>1, <3>1, <3>2, AdvanceKeeps DEF Check
  <2>2. CASE pubPc' = [pubPc EXCEPT ![p] = "failed"] /\ UNCHANGED <<pubNext, pubSent, pubRead>>
    <3>1. pubRead' \in [Publishers -> SUBSET Varlocs]
      BY <2>2 DEF RegistryTypeOK
    <3> QED  BY <1>4, <2>2, <3>1, MoveKeeps DEF Check
  <2>3. CASE /\ pubPc' = [pubPc EXCEPT ![p] = "uploading"]
             /\ pubRead' = [pubRead EXCEPT ![p] = gpkg]
             /\ UNCHANGED <<pubNext, pubSent>>
    <3>1. pubRead' \in [Publishers -> SUBSET Varlocs]
      BY <2>3 DEF RegistryTypeOK
    <3>2. pubSent[p] = {}
      BY <1>1, <1>4 DEF Behind, Check
    <3> QED  BY <1>4, <2>3, <3>1, <3>2, MoveKeeps DEF Check
  <2> QED  BY <1>4, <2>1, <2>2, <2>3 DEF Check
<1>5. CASE Upload(p)
  BY <1>5, UploadKeeps
<1>6. CASE Uploaded(p)
  <2>1. Dir(p) \in Dirs /\ pubSent[p] \subseteq stored[Dir(p)]
    BY <1>1, <1>6, TargetFacts DEF Uploaded, Behind, Sending, Dir
  <2>2. Up(Dir(p))
    BY <1>6, <2>1 DEF Uploaded, Up, RegistryTypeOK
  <2> QED  BY <1>6, <2>2, AdvanceKeeps DEF Uploaded, Sending
<1>7. CASE Point(p)
  BY <1>7, PointKeeps
<1> QED  BY <1>2, <1>3, <1>4, <1>5, <1>6, <1>7 DEF PublisherStep

-----------------------------------------------------------------------------
(* Publishers that keep apart                                              *)

LEMMA CompleteGrows == ASSUME Grown, NEW v, Complete(v) PROVE Complete(v)'
BY DEF Grown, Complete

(* Every object a step of p adds is in the directory p uploads. *)
LEMMA PublishGrows ==
  ASSUME RegistryTypeOK, UploadInv, NEW p \in Publishers,
         Start(p) \/ PublisherStep(p) \/ Fail(p)
  PROVE  /\ Grown
         /\ \A d \in Dirs : stored'[d] = stored[d] \/ (pubPc[p] = "uploading" /\ d = Dir(p))
         /\ \A q \in Publishers : q # p => UNCHANGED <<pubPc[q], pubNext[q], pubSent[q], pubRead[q]>>
         /\ ~Start(p) => Active(p)
<1>1. CASE Upload(p)
  <2>1. Grown
    BY <1>1, UploadKeeps
  <2>2. \A d \in Dirs : stored'[d] = stored[d] \/ d = Dir(p)
    BY <1>1 DEF Upload, RegistryTypeOK
  <2> QED  BY <1>1, <2>1, <2>2 DEF Upload, RegistryTypeOK, Active
<1>2. CASE ~Upload(p)
  <2>1. stored' = stored
    BY <1>2 DEF Start, PublisherStep, Check, Uploaded, Point, Fail, Advance, registryVars
  <2>2. \A q \in Publishers : q # p => UNCHANGED <<pubPc[q], pubNext[q], pubSent[q], pubRead[q]>>
    BY <1>2 DEF Start, PublisherStep, Check, Uploaded, Point, Fail, Advance, RegistryTypeOK
  <2>3. ~Start(p) => Active(p)
    BY <1>2 DEF PublisherStep, Check, Uploaded, Point, Fail, Active
  <2> QED  BY <2>1, <2>2, <2>3 DEF Grown, RegistryTypeOK
<1> QED  BY <1>1, <1>2

LEMMA ApartKept ==
  ASSUME RegistryTypeOK, UploadInv, Tidy, Apart, NEW p \in Publishers,
         Start(p) \/ PublisherStep(p) \/ Fail(p)
  PROVE  Apart'
<1>1. \A q \in Publishers : q # p => pubPc'[q] = pubPc[q]
  BY PublishGrows
<1>2. CASE Start(p)
  <2>1. \A q \in Publishers, v \in Versions :
          Uploads(p, v) /\ Uploads(q, v) /\ q # p => pubPc[q] \notin {"checking", "uploading", "pointing"}
    BY <1>2 DEF Start, Active
  <2>2. \A q \in Publishers, v \in Versions : Uploads(q, v)' <=> Uploads(q, v)
    BY DEF Uploads
  <2> QED  BY <1>1, <2>1, <2>2 DEF Apart, Active
<1>3. CASE ~Start(p)
  <2>1. Active(p)
    BY <1>3, PublishGrows
  <2>2. \A q \in Publishers, v \in Versions : Uploads(q, v)' <=> Uploads(q, v)
    BY DEF Uploads
  <2> QED  BY <1>1, <2>1, <2>2 DEF Apart, Active
<1> QED  BY <1>2, <1>3

LEMMA UnmistakenKept ==
  ASSUME RegistryTypeOK, UploadInv, Tidy, AloneInv, NEW p \in Publishers,
         Start(p) \/ PublisherStep(p) \/ Fail(p), NEW q \in Publishers \ Forced
  PROVE  Unmistaken(q)'
<1>1. Apart /\ Unmistaken(q)
  BY DEF AloneInv
<1>2. \A d \in Dirs : stored'[d] = stored[d] => (Matches(d)' <=> Matches(d)) /\ (Up(d)' <=> Up(d))
  BY DEF Matches, Up
<1>3. DirsOf(q)' = DirsOf(q) /\ \A i \in DOMAIN DirsOf(q) : DirsOf(q)[i] \in Dirs
  BY TargetFacts DEF DirsOf
<1>4. CASE q # p
  <2>1. UNCHANGED <<pubPc[q], pubNext[q]>>
    BY <1>4, PublishGrows
  <2>2. ASSUME Sending(q), pubPc[p] = "uploading", NEW i \in DOMAIN DirsOf(q) PROVE DirsOf(q)[i] # Dir(p)
    <3>1. Uploads(q, DirsOf(q)[i][1]) /\ DirsOf(q)[i][1] \in Versions
      BY TargetFacts, DirFacts
    <3>2. Uploads(p, Dir(p)[1])
      BY <2>2, TargetFacts DEF UploadInv, Behind, Sending, Dir
    <3> QED  BY <1>1, <1>4, <2>2, <3>1, <3>2 DEF Apart, Active, Sending
  <2>3. \A i \in DOMAIN DirsOf(q) : Sending(q) => stored'[DirsOf(q)[i]] = stored[DirsOf(q)[i]]
    BY <1>3, <2>2, PublishGrows
  <2> QED  BY <1>1, <1>2, <1>3, <2>1, <2>3 DEF Unmistaken, Sending, Ahead
<1>5. CASE q = p /\ Start(p)
  <2>1. \A i \in DOMAIN DirsOf(p) : Matches(DirsOf(p)[i]) => Up(DirsOf(p)[i])
    <3> SUFFICES ASSUME NEW i \in DOMAIN DirsOf(p), Matches(DirsOf(p)[i]) PROVE Up(DirsOf(p)[i])
      OBVIOUS
    <3>1. Uploads(p, DirsOf(p)[i][1]) /\ DirsOf(p)[i][1] \in Versions
      BY TargetFacts, DirFacts
    <3> QED  BY <1>3, <1>5, <3>1 DEF Start, Up
  <2>2. stored' = stored
    BY <1>5 DEF Start, registryVars
  <2> QED  BY <1>2, <1>3, <1>5, <2>1, <2>2 DEF Unmistaken
<1>6. CASE q = p /\ ~Start(p) /\ pubPc'[p] \in {"checking", "uploading"}
  <2>1. /\ pubPc[p] \in {"checking", "uploading"}
        /\ \/ pubPc'[p] = "uploading" /\ pubNext'[p] = pubNext[p]
           \/ pubPc'[p] = "checking" /\ pubNext'[p] = pubNext[p] + 1
    <3>1. Check(p) \/ Upload(p) \/ Uploaded(p)
      BY <1>6 DEF PublisherStep, Point, Fail, RegistryTypeOK
    <3>2. CASE Advance(p) /\ pubPc[p] \in {"checking", "uploading"}
      BY <1>6, <3>2 DEF Advance, RegistryTypeOK
    <3>3. CASE ~Advance(p)
      BY <1>6, <3>1, <3>3 DEF Check, Upload, Uploaded, RegistryTypeOK
    <3> QED  BY <3>1, <3>2, <3>3 DEF Check, Upload, Uploaded
  <2>2. pubNext[p] \in Nat /\ DOMAIN DirsOf(p) = 1..Len(DirsOf(p)) /\ Len(DirsOf(p)) \in Nat
    BY TargetFacts DEF RegistryTypeOK
  <2>3. ASSUME NEW i \in DOMAIN DirsOf(p), Ahead(p, i)' PROVE i > pubNext[p]
    BY <2>1, <2>2, <2>3 DEF Ahead
  <2>4. ASSUME NEW i \in DOMAIN DirsOf(p), Ahead(p, i)'
        PROVE  Ahead(p, i) /\ stored'[DirsOf(p)[i]] = stored[DirsOf(p)[i]]
    <3>1. i # pubNext[p] /\ pubNext[p] \in DOMAIN DirsOf(p)
      BY <2>1, <2>2, <2>3, <2>4 DEF UploadInv, Behind, Sending
    <3>2. DirsOf(p)[i] # Dir(p)
      BY <3>1, TargetFacts DEF Dir
    <3> QED  BY <1>3, <1>6, <2>3, <2>4, <3>2, PublishGrows DEF Ahead
  <2>5. \A i \in DOMAIN DirsOf(p) : Matches(DirsOf(p)[i])' /\ Ahead(p, i)' => Up(DirsOf(p)[i])'
    BY <1>1, <1>2, <1>3, <1>6, <2>1, <2>4 DEF Unmistaken, Sending
  <2> QED  BY <1>3, <1>6, <2>5 DEF Unmistaken
<1> QED  BY <1>4, <1>5, <1>6 DEF Unmistaken, Sending

LEMMA UnservedKept ==
  ASSUME RegistryTypeOK, UploadInv, Tidy, AloneInv, NEW p \in Publishers,
         Start(p) \/ PublisherStep(p) \/ Fail(p), NEW q \in Forced
  PROVE  Unserved(q)'
<1>1. Apart /\ Unserved(q) /\ q \in Publishers
  BY PublishersAssumption DEF AloneInv
<1>2. \A v : Uploads(q, v)' <=> Uploads(q, v)
  BY DEF Uploads
<1>3. CASE Point(p)
  <2> DEFINE u == Targets[p][pubNext[p]]
  <2>1. pubPc[p] = "pointing" /\ pubPc'[p] \in {"pointing", "done"}
    BY <1>3 DEF Point, RegistryTypeOK
  <2>2. Uploads(p, u) /\ u \in Versions
    BY <2>1, TargetFacts DEF UploadInv, Behind
  <2>3. pointer' = [pointer EXCEPT ![Key(u)] = u]
    BY <1>3 DEF Point
  <2>4. CASE q = p
    BY <2>1, <2>4 DEF Unserved, Sending
  <2>5. CASE q # p
    <3>1. pubPc'[q] = pubPc[q]
      BY <1>1, <2>5, PublishGrows
    <3>2. ASSUME Sending(q), NEW v \in Versions, Uploads(q, v) PROVE v # u
      BY <1>1, <2>1, <2>2, <2>5, <3>2 DEF Apart, Active, Sending
    <3>3. \A v \in Versions : pointer[Key(v)] # v /\ v # u => pointer'[Key(v)] # v
      BY <2>2, <2>3, KeyFacts DEF RegistryTypeOK
    <3> QED  BY <1>1, <1>2, <3>1, <3>2, <3>3 DEF Unserved, Sending
  <2> QED  BY <2>4, <2>5
<1>4. CASE ~Point(p)
  <2>1. pointer' = pointer
    BY <1>4 DEF Start, PublisherStep, Check, Upload, Uploaded, Fail, registryVars
  <2>2. CASE q = p /\ Start(p)
    <3>1. \A v \in Versions : Uploads(p, v) => pointer[Key(v)] # v
      BY <2>2 DEF Start
    <3> QED  BY <1>2, <2>1, <2>2, <3>1 DEF Unserved
  <2>3. CASE ~(q = p /\ Start(p))
    <3>1. Sending(q)' => Sending(q)
      <4>1. CASE q = p
        BY <1>4, <2>3, <4>1 DEF PublisherStep, Check, Upload, Uploaded, Fail, Sending, RegistryTypeOK
      <4>2. CASE q # p
        BY <1>1, <4>2, PublishGrows DEF Sending
      <4> QED  BY <4>1, <4>2
    <3> QED  BY <1>1, <1>2, <2>1, <3>1 DEF Unserved
  <2> QED  BY <2>2, <2>3
<1> QED  BY <1>3, <1>4

(* The pointer comes after every directory. *)
LEMMA CurrentKept ==
  ASSUME RegistryTypeOK, UploadInv, Tidy, CurrentIsComplete, NEW p \in Publishers,
         Start(p) \/ PublisherStep(p) \/ Fail(p)
  PROVE  /\ CurrentIsComplete'
         /\ Point(p) => /\ Complete(Targets[p][pubNext[p]]) /\ Targets[p][pubNext[p]] \in Versions
                        /\ Key(Targets[p][pubNext[p]]) \in Keys
<1>1. Grown
  BY PublishGrows
<1>2. CASE Point(p)
  <2> DEFINE u == Targets[p][pubNext[p]]
  <2>1. u \in Versions /\ Uploads(p, u)
    BY <1>2, TargetFacts DEF Point, UploadInv, Behind
  <2>2. \A i \in DOMAIN DirsOf(p) : Up(DirsOf(p)[i])
    BY <1>2 DEF Point, UploadInv, Behind
  <2>3. Complete(u)
    BY <2>1, <2>2, TargetFacts DEF Complete, Up
  <2>4. \A k \in Keys : pointer'[k] \in {pointer[k], u}
    BY <1>2 DEF Point, RegistryTypeOK
  <2>5. Key(u) \in Keys
    BY <2>1, KeyFacts
  <2> QED  BY <1>1, <2>1, <2>3, <2>4, <2>5, CompleteGrows DEF CurrentIsComplete
<1>3. CASE ~Point(p)
  <2>1. pointer' = pointer
    BY <1>3 DEF Start, PublisherStep, Check, Upload, Uploaded, Fail, registryVars
  <2> QED  BY <1>1, <1>3, <2>1, CompleteGrows DEF CurrentIsComplete
<1> QED  BY <1>2, <1>3

-----------------------------------------------------------------------------
(* The list, the resolvers and the whole                                   *)

ListStep == (\E j \in Jobs : MarkStep(j) \/ FailMark(j)) \/ SyncLock \/ SyncWrite

LEMMA JobFacts ==
  /\ \A j \in Jobs : j \in Publishers /\ JobVarloc(j) \in Varlocs
  /\ \A v \in InputVersions : <<v, "varlocs">> \in Dirs
BY JobsAssumption, VersionsAssumption, DirFacts DEF JobVarloc, Varlocs, LayersOf, Versions

LEMMA ListTyped ==
  ASSUME RegistryTypeOK, ListTypeOK, ReplaceInv, ListStep
  PROVE  /\ RegistryTypeOK' /\ ListTypeOK' /\ ReplaceInv' /\ Grown
         /\ \A d \in Dirs : Matches(d)' => Matches(d)
         /\ \/ UNCHANGED stored
            \/ \E d \in Dirs : \A e \in Dirs : e # d => stored'[e] = stored[e]
         /\ UNCHANGED <<pointer, pubVars>>
<1>1. ASSUME NEW j \in Jobs, Replace(j) \/ ReplaceAll(j)
      PROVE  /\ RegistryTypeOK' /\ ListTypeOK' /\ ReplaceInv' /\ Grown
             /\ \A e \in Dirs : Matches(e)' => Matches(e)
             /\ \/ UNCHANGED stored
                \/ \E d \in Dirs : \A e \in Dirs : e # d => stored'[e] = stored[e]
             /\ UNCHANGED <<pointer, pubVars>>
  <2> DEFINE d == <<markIn[j], "varlocs">>
  <2>1. PICK f \in {"valid_varlocs.gpkg", "all_varlocs.gpkg"} : stored' = [stored EXCEPT ![d] = @ \cup {f}]
    BY <1>1 DEF Replace, ReplaceAll
  <2>2. valid' \in [InputVersions -> SUBSET Varlocs]
    BY <1>1 DEF Replace, ReplaceAll, RegistryTypeOK
  <2>3. stored[d] # {} /\ UNCHANGED <<pointer, pubVars, gpkg, markIn>>
    BY <1>1 DEF Replace, ReplaceAll, ReplaceInv
  <2>4. d \in Dirs => f \in Files(d) /\ d[1] \in InputVersions
    <3> SUFFICES ASSUME d \in Dirs PROVE f \in Files(d) /\ d[1] \in InputVersions
      OBVIOUS
    <3>1. d[1] \in Versions /\ d[2] \in LayersOf(d[1]) /\ d[2] = "varlocs"
      BY DirFacts
    <3>2. d[1] \in InputVersions
      BY <3>1 DEF LayersOf
    <3> QED  BY <3>1, <3>2, VersionsAssumption DEF Files
  <2>5. \A e \in Dirs : stored'[e] = IF e = d THEN stored[d] \cup {f} ELSE stored[e]
    BY <2>1 DEF RegistryTypeOK
  <2>6. Grown
    BY <2>4, <2>5 DEF Grown, RegistryTypeOK
  <2>7. \A e \in Dirs : Matches(e)' => Matches(e)
    BY <2>3, <2>4, <2>5, VersionsAssumption DEF Matches
  <2>8. /\ stored' \in [Dirs -> SUBSET UNION {Files(e) : e \in Dirs}]
        /\ \A e \in Dirs : stored'[e] \subseteq Files(e)
    <3>1. \A e \in Dirs : stored'[e] \subseteq Files(e)
      BY <2>6 DEF Grown
    <3>2. stored' = [e \in Dirs |-> stored'[e]]
      BY <2>1 DEF RegistryTypeOK
    <3> QED  BY <3>1, <3>2
  <2>9. RegistryTypeOK'
    BY <2>2, <2>3, <2>8 DEF RegistryTypeOK, pubVars
  <2>10. ListTypeOK'
    BY <1>1 DEF Replace, ReplaceAll, ListTypeOK, MarkGoto
  <2>11. ReplaceInv'
    <3>1. \A k \in Jobs : k = j \/ markPc'[k] = markPc[k]
      BY <1>1 DEF Replace, ReplaceAll, ListTypeOK, MarkGoto
    <3>2. \A k \in Jobs : markPc'[k] = "replacingAll" => stored[<<markIn[k], "varlocs">>] # {}
      BY <2>3, <3>1 DEF ReplaceInv
    <3>3. markIn[j] \in InputVersions
      BY <1>1 DEF Replace, ReplaceAll, ReplaceInv, Marked
    <3>4. \A k \in Jobs : markPc'[k] = "replacing" \/ Marked(k)' => markIn'[k] \in InputVersions
      BY <2>3, <3>1, <3>3 DEF ReplaceInv, Marked
    <3>5. \A k \in Jobs : markPc'[k] = "replacingAll" => <<markIn[k], "varlocs">> \in Dirs
      BY <2>3, <3>4, JobFacts DEF Marked
    <3> QED  BY <2>3, <2>6, <3>2, <3>4, <3>5 DEF ReplaceInv, Grown
  <2>12. UNCHANGED stored \/ \E x \in Dirs : \A e \in Dirs : e # x => stored'[e] = stored[e]
    BY <2>1, <2>5 DEF RegistryTypeOK
  <2> QED  BY <2>3, <2>6, <2>7, <2>9, <2>10, <2>11, <2>12
<1>2. ASSUME NEW j \in Jobs, Lock(j) \/ Add(j) \/ Filter(j) \/ Resolve(j) \/ FailMark(j)
      PROVE  RegistryTypeOK' /\ ListTypeOK' /\ ReplaceInv' /\ UNCHANGED <<stored, pointer, pubVars>>
  <2>1. JobVarloc(j) \in Varlocs /\ "inputs" \in Keys /\ pointer["inputs"] \in InputVersions
    BY JobFacts, KeyFacts DEF RegistryTypeOK
  <2>2. RegistryTypeOK' /\ UNCHANGED <<stored, pointer, pubVars>>
    BY <1>2 DEF Lock, Add, Filter, Resolve, FailMark, RegistryTypeOK, ListTypeOK, registryVars, pubVars
  <2>3. markPc' \in [Jobs \cup {Sync} -> {"idle", "adding", "filtering", "resolving", "replacing",
                                          "replacingAll", "rewriting", "done", "failed"}]
    BY <1>2 DEF Lock, Add, Filter, Resolve, FailMark, MarkGoto, ListTypeOK
  <2>4. ListTypeOK'
    BY <1>2, <2>1, <2>3 DEF Lock, Add, Filter, Resolve, FailMark, ListTypeOK
  <2>5. ASSUME NEW k \in Jobs
        PROVE  \/ markPc'[k] = markPc[k] /\ markIn'[k] = markIn[k]
               \/ markPc'[k] # "replacing" /\ ~Marked(k)'
               \/ markPc'[k] = "replacing" /\ markIn'[k] \in InputVersions
    BY <1>2, <2>1 DEF Lock, Add, Filter, Resolve, FailMark, MarkGoto, ListTypeOK, Marked
  <2>6. ReplaceInv'
    BY <2>2, <2>5 DEF ReplaceInv, Marked
  <2> QED  BY <2>2, <2>4, <2>6
<1>3. ASSUME SyncLock \/ SyncWrite
      PROVE  RegistryTypeOK' /\ ListTypeOK' /\ ReplaceInv' /\ UNCHANGED <<stored, pointer, pubVars>>
  <2>1. RegistryTypeOK' /\ ListTypeOK' /\ UNCHANGED <<stored, pointer, pubVars, markIn>>
    BY <1>3 DEF SyncLock, SyncWrite, MarkGoto, RegistryTypeOK, ListTypeOK, registryVars, pubVars
  <2>2. \A k \in Jobs : markPc'[k] = markPc[k]
    BY <1>3, JobsAssumption DEF SyncLock, SyncWrite, MarkGoto, ListTypeOK
  <2> QED  BY <2>1, <2>2 DEF ReplaceInv, Marked
<1>4. UNCHANGED stored /\ RegistryTypeOK => Grown /\ \A d \in Dirs : Matches(d)' => Matches(d)
  BY DEF Grown, RegistryTypeOK, Matches
<1> QED  BY <1>1, <1>2, <1>3, <1>4 DEF ListStep, MarkStep

LEMMA ListKeeps == ASSUME BaseInv, ListStep PROVE RegistryTypeOK' /\ ListTypeOK' /\ (TypeOK' => BaseInv')
<1>1. /\ RegistryTypeOK' /\ ListTypeOK' /\ ReplaceInv' /\ Grown
      /\ \A d \in Dirs : Matches(d)' => Matches(d)
      /\ UNCHANGED <<pointer, pubPc, pubNext, pubSent>>
  BY ListTyped DEF BaseInv, TypeOK, pubVars
<1>2. UploadInv'
  BY <1>1, BehindKept DEF BaseInv, UploadInv
<1>4. \A d \in Dirs : Up(d) => Up(d)'
  BY <1>1 DEF Grown, Up
<1>5. ASSUME Tidy PROVE AloneInv'
  <2>1. AloneInv
    BY <1>5 DEF BaseInv
  <2>2. Apart'
    BY <1>1, <2>1 DEF AloneInv, Apart, Active, Uploads
  <2>3. ASSUME NEW q \in Publishers \ Forced PROVE Unmistaken(q)'
    <3>1. Unmistaken(q)
      BY <2>1 DEF AloneInv
    <3>2. DirsOf(q)' = DirsOf(q) /\ \A i \in DOMAIN DirsOf(q) : DirsOf(q)[i] \in Dirs
      BY TargetFacts DEF DirsOf
    <3> QED  BY <1>1, <1>4, <3>1, <3>2 DEF Unmistaken, Sending, Ahead
  <2>4. ASSUME NEW q \in Forced PROVE Unserved(q)'
    BY <1>1, <2>1 DEF AloneInv, Unserved, Sending, Uploads
  <2> QED  BY <2>2, <2>3, <2>4 DEF AloneInv
<1>6. ASSUME Tidy PROVE CurrentIsComplete'
  BY <1>1, <1>6, CompleteGrows DEF BaseInv, CurrentIsComplete
<1> QED  BY <1>1, <1>2, <1>5, <1>6 DEF BaseInv

(* What a POST is told by resolve, from the cache or from the pointer. *)
LEMMA ReturnTyped ==
  ASSUME ResolversTypeOK, NEW c \in Posts, NEW v, v \in Versions \cup {NoVersion},
         v # NoVersion => Key(v) = KeyAsked(c), Return(c, v),
         postPc[c] \in {"inputs", "model", "storeInputs", "storeModel"}
  PROVE  /\ inputsOf' \in [Posts -> InputVersions \cup {NoVersion}]
         /\ modelOf' \in [Posts -> Versions \cup {NoVersion}]
         /\ \E l \in {"select", "named"} : postPc' = [postPc EXCEPT ![c] = l]
BY KeyFacts DEF ResolversTypeOK, Return, PostGoto

LEMMA ReadKept ==
  ASSUME ResolversTypeOK, NEW c \in Posts, NEW l, postPc' = [postPc EXCEPT ![c] = l],
         \/ l \notin {"storeInputs", "storeModel"} /\ read'[c] = NoVersion
         \/ /\ l = IF postPc[c] = "inputs" THEN "storeInputs" ELSE "storeModel"
            /\ postPc[c] \in {"inputs", "model"}
            /\ read'[c] # NoVersion /\ Key(read'[c]) = KeyAsked(c),
         \A q \in Posts : q # c => read'[q] = read[q]
  PROVE  ReadTyped'
<1>1. ASSUME NEW q \in Posts, q # c PROVE postPc'[q] = postPc[q] /\ KeyAsked(q)' = KeyAsked(q)
  BY <1>1 DEF ResolversTypeOK, KeyAsked
<1>2. postPc'[c] = l
  BY DEF ResolversTypeOK
<1>3. ASSUME l = IF postPc[c] = "inputs" THEN "storeInputs" ELSE "storeModel", postPc[c] \in {"inputs", "model"}
      PROVE  KeyAsked(c)' = KeyAsked(c)
  BY <1>2, <1>3 DEF KeyAsked
<1>4. IF Storing(c)' THEN read'[c] # NoVersion /\ Key(read'[c]) = KeyAsked(c)' ELSE read'[c] = NoVersion
  BY <1>2, <1>3 DEF Storing
<1>5. ASSUME NEW q \in Posts, q # c
      PROVE  IF Storing(q)' THEN read'[q] # NoVersion /\ Key(read'[q]) = KeyAsked(q)'
                            ELSE read'[q] = NoVersion
  <2>1. Storing(q)' = Storing(q) /\ read'[q] = read[q]
    BY <1>1, <1>5 DEF Storing
  <2>2. ReadTyped
    BY DEF ResolversTypeOK
  <2> QED  BY <1>1, <1>5, <2>1, <2>2 DEF ReadTyped
<1> QED  BY <1>4, <1>5 DEF ReadTyped

LEMMA PostTyped ==
  ASSUME TypeOK, NEW c \in Posts, PostStep(c) \/ FailPost(c)
  PROVE  ResolversTypeOK' /\ UNCHANGED gone
<1> DEFINE k == KeyAsked(c)
<1>0. k \in Keys
  BY KeyFacts, PostsAssumption DEF KeyAsked
<1>1. ResolversTypeOK
  BY DEF TypeOK
<1>2. CASE Hit(c)
  <2>1. cache[k] \in Versions \cup {NoVersion} /\ (cache[k] # NoVersion => Key(cache[k]) = k)
    BY <1>0, <1>1 DEF ResolversTypeOK
  <2>2. /\ inputsOf' \in [Posts -> InputVersions \cup {NoVersion}]
        /\ modelOf' \in [Posts -> Versions \cup {NoVersion}]
        /\ \E l \in {"select", "named"} : postPc' = [postPc EXCEPT ![c] = l]
    BY <1>1, <1>2, <2>1, ReturnTyped DEF Hit, Resolving
  <2>3. read' = read /\ read[c] = NoVersion
    BY <1>1, <1>2 DEF Hit, Resolving, ResolversTypeOK, ReadTyped, Storing
  <2>4. ReadTyped'
    <3>1. PICK l \in {"select", "named"} : postPc' = [postPc EXCEPT ![c] = l]
      BY <2>2
    <3> QED  BY <1>1, <2>3, <3>1, ReadKept
  <2> QED  BY <1>1, <1>2, <2>2, <2>4 DEF Hit, ResolversTypeOK, cacheVars, ReadTyped
<1>3. CASE Store(c)
  <2>1. read[c] \in Versions /\ Key(read[c]) = k
    BY <1>1, <1>3 DEF Store, ResolversTypeOK, ReadTyped
  <2>2. /\ inputsOf' \in [Posts -> InputVersions \cup {NoVersion}]
        /\ modelOf' \in [Posts -> Versions \cup {NoVersion}]
        /\ \E l \in {"select", "named"} : postPc' = [postPc EXCEPT ![c] = l]
    BY <1>1, <1>3, <2>1, ReturnTyped DEF Store, Storing
  <2>3. ReadTyped'
    <3>1. PICK l \in {"select", "named"} : postPc' = [postPc EXCEPT ![c] = l]
      BY <2>2
    <3>2. read'[c] = NoVersion /\ \A q \in Posts : q # c => read'[q] = read[q]
      BY <1>1, <1>3 DEF Store, ResolversTypeOK
    <3> QED  BY <1>1, <3>1, <3>2, ReadKept
  <2>4. /\ cache' \in [Keys -> Versions \cup {NoVersion}]
        /\ \A x \in Keys : cache'[x] # NoVersion => Key(cache'[x]) = x
        /\ cacheAge' \in [Keys -> 0..TTL] /\ readAge' \in [Posts -> 0..ReadTime]
    <3>1. 0 \in 0..TTL /\ 0 \in 0..ReadTime
      BY TimesAssumption
    <3>2. cache' = [cache EXCEPT ![k] = read[c]]
      BY <1>3 DEF Store
    <3>3. /\ cacheAge' = [cacheAge EXCEPT ![k] = 0] /\ cacheAge \in [Keys -> 0..TTL]
          /\ readAge' = [readAge EXCEPT ![c] = 0] /\ readAge \in [Posts -> 0..ReadTime]
      BY <1>1, <1>3 DEF Store, ResolversTypeOK
    <3>4. /\ cache \in [Keys -> Versions \cup {NoVersion}]
          /\ \A x \in Keys : cache[x] # NoVersion => Key(cache[x]) = x
      BY <1>1 DEF ResolversTypeOK
    <3>5. cacheAge' \in [Keys -> 0..TTL] /\ readAge' \in [Posts -> 0..ReadTime]
      BY <3>1, <3>3
    <3> QED  BY <2>1, <3>2, <3>4, <3>5
  <2> QED  BY <1>1, <1>3, <2>2, <2>3, <2>4 DEF Store, ResolversTypeOK, ReadTyped
<1>4. CASE Fetch(c)
  <2>1. pointer[k] \in Versions \cup {NoVersion} /\ (pointer[k] # NoVersion => Key(pointer[k]) = k)
    BY <1>0 DEF TypeOK, RegistryTypeOK
  <2>2. read[c] = NoVersion
    BY <1>1, <1>4 DEF Fetch, Resolving, ResolversTypeOK, ReadTyped, Storing
  <2>3. ReadTyped'
    BY <1>1, <1>4, <2>1, <2>2, ReadKept DEF Fetch, PostGoto, Resolving, ResolversTypeOK
  <2>4. readAge' \in [Posts -> 0..ReadTime] /\ read' \in [Posts -> Versions \cup {NoVersion}]
    BY <1>1, <1>4, <2>1, TimesAssumption DEF Fetch, ResolversTypeOK
  <2> QED  BY <1>1, <1>4, <2>3, <2>4 DEF Fetch, PostGoto, ResolversTypeOK, ReadTyped, cacheVars
<1>5. CASE Select(c)
  <2>1. PICK l \in {"model", "named", "error"} : postPc' = [postPc EXCEPT ![c] = l]
    BY <1>5 DEF Select, PostGoto
  <2>2. read' = read /\ read[c] = NoVersion
    BY <1>1, <1>5 DEF Select, ResolversTypeOK, ReadTyped, Storing
  <2>3. ReadTyped'
    BY <1>1, <2>1, <2>2, ReadKept
  <2>4. shapes' \in [InputVersions -> SUBSET Varlocs] /\ shapesAge' \in [InputVersions -> 0..TTL]
    BY <1>1, <1>5, TimesAssumption DEF Select, ResolversTypeOK, TypeOK, RegistryTypeOK
  <2> QED  BY <1>1, <1>5, <2>1, <2>3, <2>4 DEF Select, ResolversTypeOK, ReadTyped
<1>6. CASE FailPost(c)
  <2>1. ReadTyped'
    BY <1>1, <1>6, ReadKept DEF FailPost, PostGoto, ResolversTypeOK
  <2> QED  BY <1>1, <1>6, <2>1, TimesAssumption DEF FailPost, PostGoto, ResolversTypeOK, ReadTyped, cacheVars
<1> QED  BY <1>2, <1>3, <1>4, <1>5, <1>6 DEF PostStep

LEMMA ClockTyped == ASSUME TypeOK, Clock PROVE TypeOK'
<1>1. ResolversTypeOK
  BY DEF TypeOK
<1>2. \A max \in Nat : \A age \in 0..max : Older(age, max) \in 0..max
  BY DEF Older
<1>3. TTL \in Nat /\ ReadTime \in Nat /\ MaxGone \in Nat /\ 0 \in 0..MaxGone
  BY TimesAssumption DEF MaxGone
<1>4. cacheAge' \in [Keys -> 0..TTL] /\ shapesAge' \in [InputVersions -> 0..TTL]
  BY <1>1, <1>2, <1>3 DEF Clock, Tick, ResolversTypeOK
<1>5. readAge' \in [Posts -> 0..ReadTime]
  BY <1>1, <1>3 DEF Clock, Tick, ResolversTypeOK
<1>6. gone' \in [Versions -> 0..MaxGone]
  BY <1>1, <1>2, <1>3 DEF Clock, Tick, ResolversTypeOK
<1>7. ReadTyped'
  BY <1>1 DEF Clock, Tick, ResolversTypeOK, ReadTyped, Storing, KeyAsked
<1>8. ResolversTypeOK'
  BY <1>1, <1>4, <1>5, <1>6, <1>7 DEF Clock, Tick, ResolversTypeOK
<1>9. RegistryTypeOK' /\ ListTypeOK'
  BY DEF TypeOK, Clock, Tick, RegistryTypeOK, ListTypeOK, registryVars, pubVars, listVars
<1> QED  BY <1>8, <1>9 DEF TypeOK

(* A step that leaves buckets and publishers alone. *)
LEMMA BaseUnchanged ==
  ASSUME BaseInv, UNCHANGED <<registryVars, pubVars, listVars>>
  PROVE  TypeOK' => BaseInv'
<1> USE DEF registryVars, pubVars, listVars
<1>1. UploadInv'
  BY BehindKept DEF BaseInv, UploadInv, Grown, TypeOK, RegistryTypeOK
<1>2. ASSUME AloneInv PROVE AloneInv'
  <2>1. Apart'
    BY <1>2 DEF AloneInv, Apart, Active, Uploads
  <2>2. ASSUME NEW q \in Publishers \ Forced PROVE Unmistaken(q)'
    <3>1. Unmistaken(q) /\ DirsOf(q)' = DirsOf(q)
      BY <1>2 DEF AloneInv, DirsOf
    <3> QED  BY <3>1 DEF Unmistaken, Sending, Ahead, Matches, Up
  <2>3. ASSUME NEW q \in Forced PROVE Unserved(q)'
    BY <1>2 DEF AloneInv, Unserved, Sending, Uploads
  <2> QED  BY <2>1, <2>2, <2>3 DEF AloneInv
<1>3. CurrentIsComplete => CurrentIsComplete'
  BY DEF CurrentIsComplete, Complete
<1>4. ReplaceInv'
  BY DEF BaseInv, ReplaceInv, Marked
<1> QED  BY <1>1, <1>2, <1>3, <1>4 DEF BaseInv

LEMMA BaseInit == Init => BaseInv
<1> SUFFICES ASSUME Init PROVE BaseInv
  OBVIOUS
<1> USE DEF Init
<1>1. RegistryTypeOK
  <2>1. /\ stored \in [Dirs -> SUBSET UNION {Files(d) : d \in Dirs}]
        /\ \A d \in Dirs : stored[d] \subseteq Files(d)
    BY DEF RegistryInit
  <2>2. /\ pointer \in [Keys -> Versions \cup {NoVersion}]
        /\ \A k \in Keys : pointer[k] # NoVersion => Key(pointer[k]) = k
        /\ pointer["inputs"] # NoVersion
    BY VersionsAssumption, KeyFacts DEF RegistryInit, Versions
  <2>3. valid \in [InputVersions -> SUBSET Varlocs] /\ gpkg \in SUBSET Varlocs
    BY VersionsAssumption DEF RegistryInit
  <2> QED  BY <2>1, <2>2, <2>3 DEF RegistryInit, RegistryTypeOK
<1>2. ListTypeOK
  BY VersionsAssumption DEF ListInit, ListTypeOK
<1>3. ResolversTypeOK
  <2>1. 0 \in 0..ReadTime /\ TTL \in 0..TTL /\ 0 \in 0..MaxGone /\ MaxGone \in 0..MaxGone
    BY TimesAssumption DEF MaxGone
  <2> QED  BY <2>1 DEF ResolversInit, ResolversTypeOK, ReadTyped, Storing
<1>4. UploadInv /\ AloneInv
  BY PublishersAssumption DEF RegistryInit, UploadInv, Behind, Sending, AloneInv, Apart, Active, Unmistaken, Unserved
<1>5. CurrentIsComplete
  <2>1. Complete(Published)
    BY DEF RegistryInit, Complete
  <2> QED  BY <2>1 DEF RegistryInit, CurrentIsComplete
<1>6. ReplaceInv
  BY DEF ListInit, ReplaceInv, Marked
<1> QED  BY <1>1, <1>2, <1>3, <1>4, <1>5, <1>6 DEF BaseInv, TypeOK

LEMMA BaseNext == BaseInv /\ [Next]_vars => BaseInv'
<1> SUFFICES ASSUME BaseInv, [Next]_vars PROVE BaseInv'
  OBVIOUS
<1>1. ASSUME NEW p \in Publishers, Publish(p) PROVE BaseInv'
  <2>1. Start(p) \/ PublisherStep(p) \/ Fail(p)
    BY <1>1 DEF Publish, Train
  <2>2. RegistryTypeOK /\ UploadInv /\ (Tidy => AloneInv /\ CurrentIsComplete)
    BY DEF BaseInv, TypeOK
  <2>3. RegistryTypeOK' /\ UploadInv'
    BY <2>1, <2>2, PublishKeeps
  <2>4. Tidy => AloneInv' /\ CurrentIsComplete'
    BY <2>1, <2>2, ApartKept, UnmistakenKept, UnservedKept, CurrentKept DEF AloneInv
  <2>5. ListTypeOK'
    BY <1>1, JobFacts DEF Publish, Train, listVars, BaseInv, TypeOK, ListTypeOK
  <2>6. gone' \in [Versions -> 0..MaxGone]
    <3>1. 0 \in 0..MaxGone
      BY TimesAssumption DEF MaxGone
    <3> QED  BY <1>1, <3>1 DEF Publish, Noted, BaseInv, TypeOK, ResolversTypeOK
  <2>7. ResolversTypeOK'
    BY <1>1, <2>6 DEF Publish, cacheVars, postVars, BaseInv, TypeOK, ResolversTypeOK, ReadTyped,
                      Storing, KeyAsked
  <2>8. ReplaceInv'
    <3>1. Grown /\ UNCHANGED <<markPc, markIn>>
      BY <1>1, <2>1, <2>2, PublishGrows DEF Publish, Train, listVars
    <3>2. ReplaceInv
      BY DEF BaseInv
    <3> QED  BY <3>1, <3>2, JobFacts DEF Grown, ReplaceInv, Marked
  <2> QED  BY <2>3, <2>4, <2>5, <2>7, <2>8 DEF BaseInv, TypeOK
<1>2. ASSUME ListStep, UNCHANGED resolverVars PROVE BaseInv'
  <2>1. ResolversTypeOK'
    BY <1>2 DEF resolverVars, cacheVars, postVars, BaseInv, TypeOK, ResolversTypeOK, ReadTyped,
                Storing, KeyAsked
  <2> QED  BY <1>2, <2>1, ListKeeps DEF TypeOK
<1>3. ASSUME NEW c \in Posts, Post(c) PROVE BaseInv'
  <2>1. RegistryTypeOK' /\ ListTypeOK'
    BY <1>3 DEF Post, registryVars, pubVars, listVars, BaseInv, TypeOK, RegistryTypeOK, ListTypeOK
  <2>2. ResolversTypeOK'
    BY <1>3, PostTyped DEF BaseInv, Post
  <2> QED  BY <1>3, <2>1, <2>2, BaseUnchanged DEF Post, TypeOK
<1>4. ASSUME Clock PROVE BaseInv'
  <2>1. UNCHANGED <<registryVars, pubVars, listVars>>
    BY <1>4 DEF Clock, Tick
  <2> QED  BY <1>4, <2>1, ClockTyped, BaseUnchanged DEF BaseInv
<1>5. ASSUME UNCHANGED vars PROVE BaseInv'
  <2>1. TypeOK'
    BY <1>5 DEF vars, registryVars, pubVars, listVars, resolverVars, cacheVars, postVars, BaseInv,
                TypeOK, RegistryTypeOK, ListTypeOK, ResolversTypeOK, ReadTyped, Storing, KeyAsked
  <2> QED  BY <1>5, <2>1, BaseUnchanged DEF vars
<1> QED
  BY <1>1, <1>2, <1>3, <1>4, <1>5 DEF Next, MarkTrained, UpdateTrained, ListStep

LEMMA BaseAlways == Spec => []BaseInv
BY BaseInit, BaseNext, PTL DEF Spec

(* Every variable keeps its type, a current object names a version of its  *)
(* own key, and no inputs bucket ever is without one.                      *)
THEOREM TypeCorrect == Spec => []TypeOK
<1>1. BaseInv => TypeOK
  BY DEF BaseInv
<1> QED  BY <1>1, BaseAlways, PTL

-----------------------------------------------------------------------------
(* Publishing implements VersionPointer                                    *)

WholeVersions == {v \in Versions : Complete(v)}

(* At the outset the published version is whole, and only that one. *)
LEMMA PointerInitial == Init => Pointers!PointerInit
<1> SUFFICES ASSUME Init PROVE Pointers!PointerInit
  OBVIOUS
<1>1. Complete(Published) /\ Published \in Versions
  BY VersionsAssumption DEF Init, RegistryInit, Complete, Versions
<1>2. ASSUME NEW v \in Versions, Complete(v) PROVE v = Published
  <2>1. PICK l \in LayersOf(v) : <<v, l>> \in Dirs
    BY DirFacts
  <2>2. stored[<<v, l>>] = Files(<<v, l>>) /\ Files(<<v, l>>) # {}
    BY <1>2, <2>1, DirFacts DEF Complete
  <2> QED  BY <2>1, <2>2 DEF Init, RegistryInit
<1>3. {v \in Versions : Complete(v)} = {Published}
  BY <1>1, <1>2
<1>4. Key(Published) = "inputs"
  BY <1>1, KeyFacts, VersionsAssumption
<1>5. {[v \in Versions |-> Key(v)][u] : u \in Versions} = Keys
  BY KeyFacts
<1>6. pointer = [k \in {[v \in Versions |-> Key(v)][u] : u \in Versions} |->
                   IF k = [v \in Versions |-> Key(v)][Published] THEN Published ELSE NoVersion]
  BY <1>1, <1>4, <1>5 DEF Init, RegistryInit
<1> QED  BY <1>3, <1>6 DEF Pointers!PointerInit

(* New objects in one directory make at most its version whole. *)
LEMMA WholeStep ==
  ASSUME Grown, NEW d \in Dirs, \A e \in Dirs : e # d => stored'[e] = stored[e]
  PROVE  \/ WholeVersions' = WholeVersions
         \/ d[1] \in Versions \ WholeVersions /\ WholeVersions' = WholeVersions \cup {d[1]}
<1>1. d[1] \in Versions
  BY DirFacts
<1>2. \A v \in Versions : Complete(v) => Complete(v)'
  BY CompleteGrows
<1>3. \A v \in Versions : v # d[1] => (Complete(v)' <=> Complete(v))
  BY DEF Complete
<1> QED  BY <1>1, <1>2, <1>3 DEF WholeVersions

LEMMA PointerStep ==
  ASSUME BaseInv, Tidy, [Next]_vars
  PROVE  \/ \E v \in Versions : v \notin WholeVersions /\ WholeVersions' = WholeVersions \cup {v}
                                /\ pointer' = pointer
         \/ \E v \in Versions : v \in WholeVersions /\ WholeVersions' = WholeVersions
                                /\ pointer' = [pointer EXCEPT ![Key(v)] = v]
         \/ WholeVersions' = WholeVersions /\ pointer' = pointer
<1>0. RegistryTypeOK /\ ListTypeOK /\ ReplaceInv /\ UploadInv /\ CurrentIsComplete
  BY DEF BaseInv, TypeOK
<1>1. ASSUME stored' = stored PROVE WholeVersions' = WholeVersions
  BY <1>1 DEF WholeVersions, Complete
<1>2. ASSUME NEW p \in Publishers, Publish(p), Point(p)
      PROVE  \E v \in Versions : v \in WholeVersions /\ WholeVersions' = WholeVersions
                                 /\ pointer' = [pointer EXCEPT ![Key(v)] = v]
  <2> DEFINE u == Targets[p][pubNext[p]]
  <2>1. Complete(u) /\ u \in Versions
    BY <1>0, <1>2, CurrentKept DEF PublisherStep
  <2>2. stored' = stored /\ pointer' = [pointer EXCEPT ![Key(u)] = u]
    BY <1>2 DEF Point
  <2> QED  BY <1>1, <2>1, <2>2 DEF WholeVersions
<1>3. ASSUME NEW p \in Publishers, Publish(p), ~Point(p)
      PROVE  \/ \E v \in Versions : v \notin WholeVersions /\ WholeVersions' = WholeVersions \cup {v}
                                    /\ pointer' = pointer
             \/ WholeVersions' = WholeVersions /\ pointer' = pointer
  <2>1. Start(p) \/ PublisherStep(p) \/ Fail(p)
    BY <1>3 DEF Publish, Train
  <2>2. pointer' = pointer
    BY <1>3, <2>1 DEF Start, PublisherStep, Check, Upload, Uploaded, Fail, registryVars
  <2>3. CASE pubPc[p] = "uploading"
    <3>1. Dir(p) \in Dirs
      BY <1>0, <2>3, TargetFacts DEF UploadInv, Behind, Sending, Dir
    <3>2. Grown /\ \A e \in Dirs : e # Dir(p) => stored'[e] = stored[e]
      BY <1>0, <2>1, PublishGrows
    <3> QED  BY <2>2, <3>1, <3>2, WholeStep, DirFacts
  <2>4. CASE pubPc[p] # "uploading"
    <3>1. stored' = stored
      BY <2>1, <2>4, <1>3 DEF Start, PublisherStep, Check, Upload, Uploaded, Fail, registryVars
    <3> QED  BY <1>1, <2>2, <3>1
  <2> QED  BY <2>3, <2>4
<1>4. ASSUME ListStep
      PROVE  \/ \E v \in Versions : v \notin WholeVersions /\ WholeVersions' = WholeVersions \cup {v}
                                    /\ pointer' = pointer
             \/ WholeVersions' = WholeVersions /\ pointer' = pointer
  <2>1. /\ Grown /\ pointer' = pointer
        /\ \/ UNCHANGED stored
           \/ \E d \in Dirs : \A e \in Dirs : e # d => stored'[e] = stored[e]
    BY <1>0, <1>4, ListTyped
  <2> QED  BY <1>1, <2>1, WholeStep, DirFacts
<1>5. ASSUME \/ \E c \in Posts : Post(c)
             \/ Clock \/ UNCHANGED vars
      PROVE  WholeVersions' = WholeVersions /\ pointer' = pointer
  BY <1>1, <1>5 DEF Post, Clock, Tick, vars, registryVars
<1> QED  BY <1>2, <1>3, <1>4, <1>5 DEF Next, MarkTrained, UpdateTrained, ListStep

(* For any publishers, layers and files, interrupted anywhere, the current *)
(* objects implement VersionPointer, if publishers keep apart and nobody   *)
(* takes a part of a directory for all of it (Tidy).                       *)
THEOREM PointersImplemented == Tidy => (Spec => PointerSpec)
<1> SUFFICES ASSUME Tidy PROVE Spec => PointerSpec
  OBVIOUS
<1>1. BaseInv /\ [Next]_vars => [Pointers!PointerNext]_(Pointers!pointerVars)
  <2> SUFFICES ASSUME BaseInv, [Next]_vars PROVE [Pointers!PointerNext]_(Pointers!pointerVars)
    OBVIOUS
  <2>1. \A v \in Versions : [u \in Versions |-> Key(u)][v] = Key(v)
    OBVIOUS
  <2> QED  BY <2>1, PointerStep DEF Pointers!PointerNext, Pointers!Publish, Pointers!Switch,
                                    Pointers!pointerVars, WholeVersions
<1> QED  BY <1>1, PointerInitial, BaseAlways, PTL DEF Spec, PointerSpec, Pointers!PointerSpec

(* The same of states: what current names is there in full.                *)
THEOREM PointersComplete == Tidy => (Spec => []CurrentIsComplete)
<1> SUFFICES ASSUME Tidy PROVE Spec => []CurrentIsComplete
  OBVIOUS
<1>1. BaseInv => CurrentIsComplete
  BY DEF BaseInv
<1> QED  BY <1>1, BaseAlways, PTL

-----------------------------------------------------------------------------
(* That no mark is lost: the list and the gpkg of the training host        *)

LEMMA MarksInit == Init => MarksInv /\ OverwriteInv
BY JobsAssumption DEF Init, RegistryInit, ListInit, MarksInv, Marking, Marked, OverwriteInv, MarksSurvive

(* A step of a publisher leaves the list alone, but may train a varloc. *)
LEMMA MarksPublish ==
  ASSUME BaseInv, MarksInv, NEW p \in Publishers, Publish(p)
  PROVE  MarksInv'
<1>1. Start(p) \/ PublisherStep(p) \/ Fail(p)
  BY DEF Publish, Train
<1>2. RegistryTypeOK /\ UploadInv /\ ListTypeOK
  BY DEF BaseInv, TypeOK
<1>3. Grown
  BY <1>1, <1>2, PublishGrows
<1>4. UNCHANGED <<txt, flock, markPc, markIn, seen, gpkg>>
  BY <1>1 DEF Publish, Train, listVars, Start, PublisherStep, Check, Upload, Uploaded, Point, Fail
<1>5. trained \subseteq trained' /\ (p \in Jobs => pubPc[p] # "idle" \/ JobVarloc(p) \in trained')
  BY <1>1 DEF Publish, Train, listVars, PublisherStep, Check, Upload, Uploaded, Point, Fail, Active
<1>6. \A q \in Publishers : q # p => pubPc'[q] = pubPc[q]
  BY <1>1, <1>2 DEF Start, PublisherStep, Check, Upload, Uploaded, Point, Fail, Advance, RegistryTypeOK
<1>7. pubPc[p] # "done"
  BY <1>1 DEF Start, PublisherStep, Check, Upload, Uploaded, Point, Fail, Active
<1>8. ASSUME NEW j \in Jobs
      PROVE  /\ pubPc'[j] # "idle" => JobVarloc(j) \in trained'
             /\ Marking(j)' => pubPc'[j] = "done"
             /\ Marked(j)' => "valid_varlocs.gpkg" \in stored'[<<markIn'[j], "varlocs">>]
  <2>1. /\ pubPc[j] # "idle" => JobVarloc(j) \in trained
        /\ Marking(j) => pubPc[j] = "done"
        /\ Marked(j) => /\ markIn[j] \in InputVersions
                        /\ "valid_varlocs.gpkg" \in stored[<<markIn[j], "varlocs">>]
    BY DEF MarksInv, BaseInv, ReplaceInv
  <2>2. pubPc'[j] # "idle" => JobVarloc(j) \in trained'
    BY <1>5, <1>6, <2>1, JobFacts
  <2>3. Marking(j)' => pubPc'[j] = "done"
    BY <1>4, <1>6, <1>7, <2>1, JobFacts DEF Marking
  <2>4. Marked(j)' => "valid_varlocs.gpkg" \in stored'[<<markIn'[j], "varlocs">>]
    BY <1>3, <1>4, <2>1, JobFacts DEF Grown, Marked
  <2> QED  BY <2>2, <2>3, <2>4
<1> QED  BY <1>4, <1>5, <1>8 DEF MarksInv, Marking, Marked, JobVarloc

(* A step under the lock; mark_trained.sh adds, and so rebuilds the gpkg   *)
(* with, what was there and its own varloc.                                *)
LEMMA MarksList ==
  ASSUME BaseInv, MarksInv, ListStep
  PROVE  MarksInv'
<1>0. RegistryTypeOK /\ ListTypeOK /\ ReplaceInv /\ Sync \notin Jobs /\ Nobody \notin Jobs \cup {Sync}
  BY JobsAssumption DEF BaseInv, TypeOK
<1>1. Grown /\ UNCHANGED <<pointer, pubVars>>
  BY <1>0, ListTyped
<1>2. /\ \A j \in Jobs \cup {Sync} : Marking(j) => flock = j
      /\ txt \cup seen \subseteq trained /\ gpkg \subseteq txt
      /\ markPc[Sync] = "rewriting" => txt \subseteq seen
  BY DEF MarksInv
<1>3. ASSUME NEW j \in Jobs, MarkStep(j) \/ FailMark(j) PROVE MarksInv'
  <2>1. /\ pubPc[j] # "idle" => JobVarloc(j) \in trained
        /\ Marking(j) => pubPc[j] = "done"
        /\ markPc[j] = "filtering" => JobVarloc(j) \in txt
        /\ markPc[j] \in {"resolving", "replacing"} \/ Marked(j) => JobVarloc(j) \in gpkg
        /\ Marked(j) => "valid_varlocs.gpkg" \in stored[<<markIn[j], "varlocs">>]
        /\ markPc[j] = "replacing" \/ Marked(j) => <<markIn[j], "varlocs">> \in Dirs
    BY JobFacts DEF MarksInv, BaseInv, ReplaceInv
  <2>2. \A k \in Jobs \cup {Sync} : k # j => markPc'[k] = markPc[k]
    BY <1>0, <1>3 DEF MarkStep, Lock, Add, Filter, Resolve, Replace, ReplaceAll, FailMark, MarkGoto, ListTypeOK
  <2>3. \A k \in Jobs : k # j => markIn'[k] = markIn[k]
    BY <1>0, <1>3 DEF MarkStep, Lock, Add, Filter, Resolve, Replace, ReplaceAll, FailMark, ListTypeOK
  <2>4. \A k \in Jobs \cup {Sync} : k # j => ~Marking(k)
    <3>1. Marking(j) \/ flock \in {j, Nobody}
      BY <1>3 DEF MarkStep, Lock, Add, Filter, Resolve, Replace, ReplaceAll, FailMark, Marking
    <3>2. flock \in {j, Nobody}
      BY <1>2, <3>1
    <3> QED  BY <1>0, <1>2, <3>2
  <2>5. /\ trained' = trained /\ seen' = seen /\ txt' \subseteq trained' /\ gpkg' \subseteq txt'
        /\ txt \subseteq txt' /\ gpkg \subseteq gpkg'
    BY <1>2, <1>3, <2>1
       DEF MarkStep, Lock, Add, Filter, Resolve, Replace, ReplaceAll, FailMark, registryVars, Marking
  <2>6. \A k \in Jobs \cup {Sync} : Marking(k)' => flock' = k
    BY <1>0, <1>2, <1>3, <2>2, <2>4
       DEF MarkStep, Lock, Add, Filter, Resolve, Replace, ReplaceAll, FailMark, MarkGoto, ListTypeOK, Marking
  <2>7. markPc'[Sync] # "rewriting"
    BY <1>0, <2>2, <2>4 DEF Marking
  <2>8. /\ Marking(j)' => pubPc[j] = "done"
        /\ markPc'[j] = "filtering" => JobVarloc(j) \in txt'
        /\ markPc'[j] \in {"resolving", "replacing"} \/ Marked(j)' => JobVarloc(j) \in gpkg'
        /\ Marked(j)' => "valid_varlocs.gpkg" \in stored'[<<markIn'[j], "varlocs">>]
    <3>1. CASE Lock(j) \/ Add(j) \/ Filter(j) \/ FailMark(j) \/ Resolve(j)
      BY <1>0, <2>1, <3>1
         DEF Lock, Add, Filter, FailMark, Resolve, MarkGoto, ListTypeOK, Marking, Marked
    <3>2. CASE Replace(j)
      <4>1. stored'[<<markIn[j], "varlocs">>] = stored[<<markIn[j], "varlocs">>] \cup {"valid_varlocs.gpkg"}
        BY <1>0, <2>1, <3>2 DEF Replace, RegistryTypeOK
      <4>2. markPc'[j] = "replacingAll" /\ markIn' = markIn /\ gpkg' = gpkg
        BY <1>0, <3>2 DEF Replace, MarkGoto, ListTypeOK
      <4> QED  BY <2>1, <3>2, <4>1, <4>2 DEF Replace, Marking, Marked
    <3>3. CASE ReplaceAll(j)
      <4>1. markPc'[j] = "done" /\ markIn' = markIn /\ gpkg' = gpkg /\ Marked(j)
        BY <1>0, <3>3 DEF ReplaceAll, MarkGoto, ListTypeOK, Marked
      <4> QED  BY <1>1, <2>1, <3>3, <4>1 DEF ReplaceAll, Marking, Marked, Grown
    <3> QED  BY <1>3, <3>1, <3>2, <3>3 DEF MarkStep
  <2>9. ASSUME NEW k \in Jobs, k # j
        PROVE  /\ Marking(k)' => pubPc[k] = "done"
               /\ markPc'[k] = "filtering" => JobVarloc(k) \in txt'
               /\ markPc'[k] \in {"resolving", "replacing"} \/ Marked(k)' => JobVarloc(k) \in gpkg'
               /\ Marked(k)' => "valid_varlocs.gpkg" \in stored'[<<markIn'[k], "varlocs">>]
    <3>1. /\ Marking(k) => pubPc[k] = "done"
          /\ markPc[k] = "filtering" => JobVarloc(k) \in txt
          /\ markPc[k] \in {"resolving", "replacing"} \/ Marked(k) => JobVarloc(k) \in gpkg
          /\ Marked(k) => "valid_varlocs.gpkg" \in stored[<<markIn[k], "varlocs">>]
          /\ Marked(k) => <<markIn[k], "varlocs">> \in Dirs
      BY JobFacts DEF MarksInv, BaseInv, ReplaceInv
    <3> QED  BY <1>1, <2>2, <2>3, <2>5, <2>9, <3>1 DEF Marking, Marked, Grown
  <2>10. \A k \in Jobs : pubPc'[k] # "idle" => JobVarloc(k) \in trained'
    BY <1>1, <2>5 DEF MarksInv, pubVars
  <2> QED  BY <1>1, <2>5, <2>6, <2>7, <2>8, <2>9, <2>10 DEF MarksInv, pubVars, JobVarloc
<1>4. ASSUME SyncLock \/ SyncWrite PROVE MarksInv'
  <2>1. UNCHANGED <<stored, gpkg, pubPc, trained, markIn>> /\ \A k \in Jobs : markPc'[k] = markPc[k]
    BY <1>0, <1>4 DEF SyncLock, SyncWrite, MarkGoto, ListTypeOK, registryVars, pubVars
  <2>2. \A k \in Jobs : ~Marking(k)
    <3>1. Marking(Sync) \/ flock = Nobody
      BY <1>4 DEF SyncLock, SyncWrite, Marking
    <3>2. flock \in {Sync, Nobody}
      BY <1>2, <3>1
    <3> QED  BY <1>0, <1>2, <3>2
  <2>3. txt \subseteq txt' /\ txt' \cup seen' \subseteq trained' /\ (markPc'[Sync] = "rewriting" => txt' \subseteq seen')
    BY <1>0, <1>2, <1>4 DEF SyncLock, SyncWrite, MarkGoto, ListTypeOK
  <2>4. Marking(Sync)' => flock' = Sync
    BY <1>0, <1>4 DEF SyncLock, SyncWrite, MarkGoto, ListTypeOK, Marking
  <2>5. \A k \in Jobs : ~Marking(k)' /\ markPc'[k] \notin {"filtering", "resolving", "replacing"}
    BY <2>1, <2>2 DEF Marking
  <2>6. ASSUME NEW k \in Jobs
        PROVE  /\ pubPc'[k] # "idle" => JobVarloc(k) \in trained'
               /\ Marked(k)' =>
                    /\ JobVarloc(k) \in gpkg'
                    /\ "valid_varlocs.gpkg" \in stored'[<<markIn'[k], "varlocs">>]
    BY <2>1 DEF MarksInv, Marked
  <2>7. gpkg' \subseteq txt'
    BY <1>2, <2>1, <2>3
  <2> QED  BY <2>3, <2>4, <2>5, <2>6, <2>7 DEF MarksInv, JobVarloc
<1> QED  BY <1>3, <1>4 DEF ListStep

-----------------------------------------------------------------------------
(* What publishers may overwrite                                           *)

(* A publisher uploads the gpkg as it was when it began with its directory *)
(* or as it is now.                                                        *)
LEMMA OverwritePublish ==
  ASSUME BaseInv, MarksInv, OverwriteInv, NEW p \in Publishers, Publish(p)
  PROVE  OverwriteInv'
<1>1. Start(p) \/ PublisherStep(p) \/ Fail(p)
  BY DEF Publish, Train
<1>2. RegistryTypeOK /\ UploadInv /\ ListTypeOK
  BY DEF BaseInv, TypeOK
<1>3. UNCHANGED <<markPc, markIn, gpkg>>
  BY <1>1 DEF Publish, Train, listVars, Start, PublisherStep, Check, Upload, Uploaded, Point, Fail
<1>4. ASSUME NEW j \in Jobs, markPc[j] = "replacing" \/ Marked(j)
      PROVE  /\ JobVarloc(j) \in gpkg /\ markIn[j] \in InputVersions
             /\ Marked(j) => /\ "valid_varlocs.gpkg" \in stored[<<markIn[j], "varlocs">>]
                             /\ JobVarloc(j) \in valid[markIn[j]]
  BY <1>4 DEF BaseInv, ReplaceInv, MarksInv, OverwriteInv, MarksSurvive
<1>5. CASE Upload(p)
  <2>1. UNCHANGED <<pubPc, pubNext, pubRead>> /\ pubPc[p] = "uploading"
    BY <1>5 DEF Upload
  <2>2. Dir(p) \in Dirs
    BY <1>2, <2>1, TargetFacts DEF UploadInv, Behind, Sending, Dir
  <2>3. ASSUME NEW j \in Jobs, Marked(j), valid'[markIn[j]] # valid[markIn[j]]
        PROVE  JobVarloc(j) \in valid'[markIn[j]]
    <3>1. /\ "valid_varlocs.gpkg" \in Files(Dir(p))
          /\ p \in Forced \/ "valid_varlocs.gpkg" \notin stored[Dir(p)]
          /\ \E g \in {pubRead[p], gpkg} : valid' = [valid EXCEPT ![Dir(p)[1]] = g]
      BY <1>5, <2>3 DEF Upload
    <3>2. PICK g \in {pubRead[p], gpkg} : valid' = [valid EXCEPT ![Dir(p)[1]] = g]
      BY <3>1
    <3>3. markIn[j] = Dir(p)[1] /\ valid'[markIn[j]] = g
      BY <1>2, <1>4, <2>3, <3>2 DEF RegistryTypeOK
    <3>4. Dir(p) = <<markIn[j], "varlocs">>
      <4>1. Dir(p) = <<Dir(p)[1], Dir(p)[2]>> /\ Dir(p)[2] \in LayersOf(Dir(p)[1])
        BY <2>2, DirFacts
      <4>2. Dir(p)[2] = "varlocs"
        BY <1>4, <2>2, <2>3, <3>1, <3>3, VersionsAssumption DEF Files
      <4> QED  BY <3>3, <4>1, <4>2
    <3>5. p \in Forced
      BY <1>4, <2>3, <3>1, <3>4
    <3>6. JobVarloc(j) \in pubRead[p]
      BY <2>1, <2>3, <3>4, <3>5 DEF OverwriteInv
    <3> QED  BY <1>4, <2>3, <3>3, <3>6
  <2>4. \A q \in Publishers : Dir(q)' = Dir(q)
    BY <2>1 DEF Dir, DirsOf
  <2>5. MarksSurvive'
    BY <1>3, <1>4, <2>3 DEF MarksSurvive, JobVarloc, Marked
  <2> QED  BY <1>3, <2>1, <2>4, <2>5, PublishersAssumption DEF OverwriteInv, JobVarloc, Marked
<1>6. CASE ~Upload(p)
  <2>1. valid' = valid
    BY <1>1, <1>6 DEF Start, PublisherStep, Check, Uploaded, Point, Fail, registryVars
  <2>2. MarksSurvive'
    BY <1>3, <2>1 DEF OverwriteInv, MarksSurvive, JobVarloc, Marked
  <2>3. ASSUME NEW q \in Forced, q # p PROVE pubPc'[q] = pubPc[q] /\ Dir(q)' = Dir(q) /\ pubRead'[q] = pubRead[q]
    <3>1. pubPc'[q] = pubPc[q] /\ pubNext'[q] = pubNext[q] /\ pubRead'[q] = pubRead[q]
      BY <1>1, <1>2, <1>6, <2>3, PublishersAssumption
         DEF Start, PublisherStep, Check, Uploaded, Point, Fail, Advance, RegistryTypeOK
    <3> QED  BY <3>1 DEF Dir, DirsOf
  <2>4. pubPc'[p] = "uploading" => pubRead'[p] = gpkg
    BY <1>1, <1>2, <1>6 DEF Start, PublisherStep, Check, Uploaded, Point, Fail, Advance, RegistryTypeOK
  <2>5. ASSUME NEW q \in Forced, NEW j \in Jobs, pubPc'[q] = "uploading",
               markPc'[j] = "replacing" \/ Marked(j)', Dir(q)' = <<markIn'[j], "varlocs">>
        PROVE  JobVarloc(j) \in pubRead'[q]
    BY <1>3, <1>4, <2>3, <2>4, <2>5 DEF OverwriteInv, Marked
  <2> QED  BY <2>2, <2>5 DEF OverwriteInv, JobVarloc
<1> QED  BY <1>5, <1>6

(* mark_trained.sh replaces the gpkg by one that has all marks; it finds   *)
(* the version to do so in current, where nobody uploads with FORCE=1.     *)
LEMMA OverwriteList ==
  ASSUME BaseInv, MarksInv, OverwriteInv, Tidy \/ Forced = {}, ListStep
  PROVE  OverwriteInv'
<1>0. RegistryTypeOK /\ ListTypeOK /\ ReplaceInv /\ UploadInv /\ (Tidy => AloneInv) /\ Sync \notin Jobs
  BY JobsAssumption DEF BaseInv, TypeOK
<1>1. UNCHANGED pubVars /\ \A q \in Publishers : Dir(q)' = Dir(q)
  BY <1>0, ListTyped DEF pubVars, Dir, DirsOf
<1>2. \A k \in Jobs : Marked(k) =>
        JobVarloc(k) \in gpkg /\ markIn[k] \in InputVersions /\ JobVarloc(k) \in valid[markIn[k]]
  BY DEF BaseInv, ReplaceInv, MarksInv, OverwriteInv, MarksSurvive
<1>3. ASSUME NEW p \in Forced, NEW k \in Jobs, pubPc[p] = "uploading", markPc[k] = "replacing" \/ Marked(k),
             Dir(p) = <<markIn[k], "varlocs">>
      PROVE  JobVarloc(k) \in pubRead[p]
  BY <1>3 DEF OverwriteInv
<1>4. ASSUME NEW j \in Jobs, Replace(j) PROVE OverwriteInv'
  <2>1. /\ valid' = [valid EXCEPT ![markIn[j]] = gpkg] /\ UNCHANGED <<gpkg, markIn>>
        /\ markPc' = [markPc EXCEPT ![j] = "replacingAll"] /\ markPc[j] = "replacing"
    BY <1>4 DEF Replace, MarkGoto
  <2>2. JobVarloc(j) \in gpkg /\ markIn[j] \in InputVersions
    BY <2>1 DEF BaseInv, ReplaceInv, MarksInv
  <2>3. ASSUME NEW k \in Jobs, Marked(k)' PROVE JobVarloc(k) \in valid'[markIn'[k]]
    <3>1. k # j => Marked(k)
      BY <1>0, <2>1, <2>3 DEF ListTypeOK, Marked
    <3> QED  BY <1>0, <1>2, <2>1, <2>2, <3>1 DEF RegistryTypeOK
  <2>4. \A k \in Jobs : markPc'[k] = "replacing" \/ Marked(k)' => markPc[k] = "replacing" \/ Marked(k)
    BY <1>0, <2>1 DEF ListTypeOK, Marked
  <2> QED  BY <1>1, <1>3, <2>1, <2>3, <2>4, PublishersAssumption DEF OverwriteInv, MarksSurvive, JobVarloc, pubVars
<1>5. ASSUME NEW j \in Jobs, Resolve(j) PROVE OverwriteInv'
  <2>1. /\ UNCHANGED <<valid, gpkg>> /\ markIn' = [markIn EXCEPT ![j] = pointer["inputs"]]
        /\ markPc' = [markPc EXCEPT ![j] = "replacing"]
    BY <1>5 DEF Resolve, MarkGoto, registryVars
  <2>2. ASSUME NEW p \in Forced, pubPc[p] = "uploading", Dir(p) = <<pointer["inputs"], "varlocs">>
        PROVE  FALSE
    <3>1. Unserved(p) /\ Sending(p)
      BY <1>0, <2>2 DEF AloneInv, Sending
    <3>2. pubNext[p] \in DOMAIN DirsOf(p) /\ p \in Publishers
      BY <1>0, <3>1, PublishersAssumption DEF UploadInv, Behind
    <3>3. Uploads(p, pointer["inputs"])
      BY <2>2, <3>2, TargetFacts DEF Dir
    <3>4. pointer["inputs"] \in Versions /\ Key(pointer["inputs"]) = "inputs"
      BY <1>0, KeyFacts DEF RegistryTypeOK
    <3> QED  BY <3>1, <3>3, <3>4 DEF Unserved
  <2>3. MarksSurvive'
    <3>1. \A k \in Jobs : Marked(k)' => Marked(k) /\ markIn'[k] = markIn[k]
      BY <1>0, <2>1 DEF ListTypeOK, Marked
    <3> QED  BY <1>2, <2>1, <3>1 DEF MarksSurvive, JobVarloc
  <2>4. ASSUME NEW p \in Forced, NEW k \in Jobs, pubPc[p] = "uploading",
               markPc'[k] = "replacing" \/ Marked(k)', Dir(p) = <<markIn'[k], "varlocs">>
        PROVE  JobVarloc(k) \in pubRead[p]
    <3>1. k # j
      BY <1>0, <2>1, <2>2, <2>4 DEF ListTypeOK
    <3> QED  BY <1>0, <1>3, <2>1, <2>4, <3>1 DEF ListTypeOK, Marked
  <2> QED  BY <1>1, <2>3, <2>4, PublishersAssumption DEF OverwriteInv, JobVarloc, pubVars
<1>6. ASSUME UNCHANGED <<valid, markIn>>,
             \A k \in Jobs : markPc'[k] = "replacing" \/ Marked(k)' =>
               (markPc[k] = "replacing" \/ Marked(k)) /\ (Marked(k)' => Marked(k))
      PROVE  OverwriteInv'
  <2>1. MarksSurvive'
    BY <1>2, <1>6 DEF MarksSurvive, JobVarloc
  <2> QED  BY <1>1, <1>3, <1>6, <2>1, PublishersAssumption DEF OverwriteInv, JobVarloc, pubVars
<1>7. ASSUME NEW j \in Jobs, Lock(j) \/ Add(j) \/ Filter(j) \/ ReplaceAll(j) \/ FailMark(j) PROVE OverwriteInv'
  <2>1. UNCHANGED <<valid, markIn>>
    BY <1>7 DEF Lock, Add, Filter, ReplaceAll, FailMark, registryVars
  <2>2. \A k \in Jobs : markPc'[k] = "replacing" \/ Marked(k)' =>
          (markPc[k] = "replacing" \/ Marked(k)) /\ (Marked(k)' => Marked(k))
    BY <1>0, <1>7 DEF Lock, Add, Filter, ReplaceAll, FailMark, MarkGoto, ListTypeOK, Marked
  <2> QED  BY <1>6, <2>1, <2>2
<1>8. ASSUME SyncLock \/ SyncWrite PROVE OverwriteInv'
  <2>1. UNCHANGED <<valid, markIn>> /\ \A k \in Jobs : markPc'[k] = markPc[k]
    BY <1>0, <1>8 DEF SyncLock, SyncWrite, MarkGoto, ListTypeOK, registryVars
  <2> QED  BY <1>6, <2>1 DEF Marked
<1> QED  BY <1>4, <1>5, <1>7, <1>8 DEF ListStep, MarkStep

-----------------------------------------------------------------------------
(* The list, the gpkgs and the publishers together                         *)

LEMMA MarksUnchanged ==
  ASSUME UNCHANGED <<registryVars, gpkg, pubVars, listVars>>
  PROVE  (MarksInv => MarksInv') /\ (OverwriteInv => OverwriteInv')
BY DEF registryVars, pubVars, listVars, MarksInv, Marking, Marked, JobVarloc, OverwriteInv, MarksSurvive, Dir, DirsOf

LEMMA ReleaseNext == ReleaseInv /\ [Next]_vars => ReleaseInv'
<1> SUFFICES ASSUME ReleaseInv, [Next]_vars PROVE ReleaseInv'
  OBVIOUS
<1>1. BaseInv /\ MarksInv /\ BaseInv' /\ (Tidy \/ Forced = {} => OverwriteInv)
  BY BaseNext DEF ReleaseInv
<1>2. ASSUME NEW p \in Publishers, Publish(p) PROVE ReleaseInv'
  BY <1>1, <1>2, MarksPublish, OverwritePublish DEF ReleaseInv
<1>3. ASSUME ListStep PROVE ReleaseInv'
  BY <1>1, <1>3, MarksList, OverwriteList DEF ReleaseInv
<1>4. ASSUME \/ \E c \in Posts : Post(c)
             \/ Clock \/ UNCHANGED vars
      PROVE  ReleaseInv'
  <2>1. UNCHANGED <<registryVars, gpkg, pubVars, listVars>>
    BY <1>4 DEF Post, Clock, Tick, vars
  <2> QED  BY <1>1, <2>1, MarksUnchanged DEF ReleaseInv
<1> QED  BY <1>2, <1>3, <1>4 DEF Next, MarkTrained, UpdateTrained, ListStep

(* What is on the list was trained, what is in the gpkg is on the list,    *)
(* one caller at a time changes them, and a varloc is in the gpkg before   *)
(* the gpkg is in the inputs bucket.                                       *)
THEOREM ListsAgree == Spec => []ReleaseInv
<1>1. Init => ReleaseInv
  BY BaseInit, MarksInit DEF ReleaseInv
<1> QED  BY <1>1, ReleaseNext, PTL DEF Spec

(* However training jobs, update_trained.sh and publishers interleave or   *)
(* fail, a varloc that was marked is in the released gpkg from then on, if *)
(* nobody uploads over the current version with FORCE=1.                   *)
THEOREM NoMarkIsLost == Tidy \/ Forced = {} => (Spec => []MarksSurvive)
<1> SUFFICES ASSUME Tidy \/ Forced = {} PROVE Spec => []MarksSurvive
  OBVIOUS
<1>1. ReleaseInv => MarksSurvive
  BY DEF ReleaseInv, OverwriteInv
<1> QED  BY <1>1, ListsAgree, PTL

=============================================================================
