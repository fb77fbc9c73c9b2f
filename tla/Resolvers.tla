----------------------------- MODULE Resolvers ------------------------------
(***************************************************************************)
(* How POST /v1/jobs of one api instance names a job: it resolves the      *)
(* inputs version, looks its varloc up in the valid gpkg of that version   *)
(* and resolves the varloc's model version.  The instance caches pointers  *)
(* and gpkgs for TTL.  Every POST asks for one varloc, which the gpkg of   *)
(* all varlocs has.                                                        *)
(***************************************************************************)
EXTENDS Registry

CONSTANTS
  Posts,
  VarlocAsked,   \* the varloc a POST is for
  TTL,           \* versionCacheTTL
  ReadTime       \* how long a pointer that was read may take to reach the cache

ASSUME PostsAssumption == VarlocAsked \in [Posts -> Varlocs]
ASSUME TimesAssumption == TTL \in Nat \ {0} /\ ReadTime \in Nat

VARIABLES
  cache,      \* versionResolver.cache: the version of a key
  cacheAge,   \* and the time since it was stored; TTL: none, or too old
  shapes,     \* varLocsResolver.cache: the valid varlocs of an inputs version
  shapesAge,  \* and the time since they were checked
  postPc,     \* where a POST is, at last "named" or "error"
  inputsOf,   \* the inputs version of its job
  modelOf,    \* the model version of its job; NoVersion: none, PT without a bundle
  read,       \* the pointer it has read and not stored
  readAge,    \* and the time since
  gone        \* the time since a version was current

cacheVars == <<cache, cacheAge, shapes, shapesAge>>
postVars  == <<postPc, inputsOf, modelOf, read, readAge>>
resolverVars == <<cacheVars, postVars, gone>>

KeyAsked(c) == IF postPc[c] \in {"inputs", "storeInputs"} THEN "inputs" ELSE VarlocAsked[c]

Storing(c) == postPc[c] \in {"storeInputs", "storeModel"}

(* no version is looked for longer than this *)
MaxGone == TTL + ReadTime

(* what a POST has read is what it stores *)
ReadTyped ==
  \A c \in Posts : IF Storing(c) THEN read[c] # NoVersion /\ Key(read[c]) = KeyAsked(c)
                                 ELSE read[c] = NoVersion

ResolversTypeOK ==
  /\ cache \in [Keys -> Versions \cup {NoVersion}]
  /\ \A k \in Keys : cache[k] # NoVersion => Key(cache[k]) = k
  /\ cacheAge \in [Keys -> 0..TTL]
  /\ shapes \in [InputVersions -> SUBSET Varlocs]
  /\ shapesAge \in [InputVersions -> 0..TTL]
  /\ postPc \in [Posts -> {"inputs", "storeInputs", "select", "model", "storeModel",
                           "named", "error"}]
  /\ inputsOf \in [Posts -> InputVersions \cup {NoVersion}]
  /\ modelOf \in [Posts -> Versions \cup {NoVersion}]
  /\ read \in [Posts -> Versions \cup {NoVersion}]
  /\ ReadTyped
  /\ readAge \in [Posts -> 0..ReadTime]
  /\ gone \in [Versions -> 0..MaxGone]

ResolversInit ==
  /\ cache = [k \in Keys |-> NoVersion] /\ cacheAge = [k \in Keys |-> TTL]
  /\ shapes = [v \in InputVersions |-> {}] /\ shapesAge = [v \in InputVersions |-> TTL]
  /\ postPc = [c \in Posts |-> "inputs"]
  /\ inputsOf = [c \in Posts |-> NoVersion] /\ modelOf = [c \in Posts |-> NoVersion]
  /\ read = [c \in Posts |-> NoVersion] /\ readAge = [c \in Posts |-> 0]
  /\ gone = [v \in Versions |-> IF v = Published THEN 0 ELSE MaxGone]

PostGoto(c, l) == postPc' = [postPc EXCEPT ![c] = l]

(* resolve returns v *)
Return(c, v) ==
  \/ /\ KeyAsked(c) = "inputs"
     /\ inputsOf' = [inputsOf EXCEPT ![c] = v]
     /\ PostGoto(c, "select")
     /\ UNCHANGED modelOf
  \/ /\ KeyAsked(c) # "inputs"
     /\ modelOf' = [modelOf EXCEPT ![c] = v]
     /\ PostGoto(c, "named")
     /\ UNCHANGED inputsOf

Resolving(c) == postPc[c] \in {"inputs", "model"}

-----------------------------------------------------------------------------
(* resolve finds a cached version *)

(* mutant: the cache never expires *)
HitAnyAge(c) ==
  /\ Resolving(c) /\ cache[KeyAsked(c)] # NoVersion
  /\ Return(c, cache[KeyAsked(c)])
  /\ UNCHANGED <<cacheVars, read, readAge, gone>>

Hit(c) ==
  /\ Resolving(c) /\ cacheAge[KeyAsked(c)] < TTL
  /\ Return(c, cache[KeyAsked(c)])
  /\ UNCHANGED <<cacheVars, read, readAge, gone>>

(* or reads the pointer; a missing one is an error, of a model: no bundle  *)
Fetch(c) ==
  /\ Resolving(c) /\ cacheAge[KeyAsked(c)] = TTL
  /\ \/ /\ pointer[KeyAsked(c)] # NoVersion
        /\ read' = [read EXCEPT ![c] = pointer[KeyAsked(c)]]
        /\ readAge' = [readAge EXCEPT ![c] = 0]
        /\ PostGoto(c, IF postPc[c] = "inputs" THEN "storeInputs" ELSE "storeModel")
     \/ /\ pointer[KeyAsked(c)] = NoVersion
        /\ PostGoto(c, IF postPc[c] = "inputs" THEN "error" ELSE "named")
        /\ UNCHANGED <<read, readAge>>
  /\ UNCHANGED <<cacheVars, inputsOf, modelOf, gone>>

(* mutant: a cached version is kept, and is young again *)
StoreKeepsFirst(c) ==
  /\ Storing(c)
  /\ cache' = [cache EXCEPT ![KeyAsked(c)] = IF @ = NoVersion THEN read[c] ELSE @]
  /\ cacheAge' = [cacheAge EXCEPT ![KeyAsked(c)] = 0]
  /\ Return(c, read[c])
  /\ read' = [read EXCEPT ![c] = NoVersion]
  /\ readAge' = [readAge EXCEPT ![c] = 0]
  /\ UNCHANGED <<shapes, shapesAge, gone>>

Store(c) ==
  /\ Storing(c)
  /\ cache' = [cache EXCEPT ![KeyAsked(c)] = read[c]]
  /\ cacheAge' = [cacheAge EXCEPT ![KeyAsked(c)] = 0]
  /\ Return(c, read[c])
  /\ read' = [read EXCEPT ![c] = NoVersion]
  /\ readAge' = [readAge EXCEPT ![c] = 0]
  /\ UNCHANGED <<shapes, shapesAge, gone>>

(* selectVarLoc and releasedModel: the valid varlocs, cached or as they    *)
(* are now; a gpkg that is missing or has no varloc is an error            *)
Select(c) ==
  LET v == inputsOf[c]
      Found(s) == IF VarlocAsked[c] \in s THEN "model" ELSE "named"
  IN /\ postPc[c] = "select"
     /\ \/ /\ shapesAge[v] < TTL
           /\ PostGoto(c, Found(shapes[v]))
           /\ UNCHANGED <<shapes, shapesAge>>
        \/ /\ shapesAge[v] = TTL
           /\ stored[<<v, "varlocs">>] = Files(<<v, "varlocs">>) /\ valid[v] # {}
           /\ shapes' = [shapes EXCEPT ![v] = valid[v]]
           /\ shapesAge' = [shapesAge EXCEPT ![v] = 0]
           /\ PostGoto(c, Found(valid[v]))
        \/ /\ shapesAge[v] = TTL
           /\ stored[<<v, "varlocs">>] # Files(<<v, "varlocs">>) \/ valid[v] = {}
           /\ PostGoto(c, "error")
           /\ UNCHANGED <<shapes, shapesAge>>
     /\ UNCHANGED <<cache, cacheAge, inputsOf, modelOf, read, readAge, gone>>

(* a call fails *)
FailPost(c) ==
  /\ postPc[c] \in {"inputs", "storeInputs", "select", "model", "storeModel"}
  /\ PostGoto(c, "error")
  /\ read' = [read EXCEPT ![c] = NoVersion]
  /\ readAge' = [readAge EXCEPT ![c] = 0]
  /\ UNCHANGED <<cacheVars, inputsOf, modelOf, gone>>

PostStep(c) == Hit(c) \/ Fetch(c) \/ Store(c) \/ Select(c)

Older(age, max) == IF age < max THEN age + 1 ELSE max

(* what is current is not gone *)
Noted == gone' = [v \in Versions |-> IF pointer'[Key(v)] = v THEN 0 ELSE gone[v]]

Tick ==
  /\ \A c \in Posts : read[c] # NoVersion => readAge[c] < ReadTime
  /\ cacheAge' = [k \in Keys |-> Older(cacheAge[k], TTL)]
  /\ shapesAge' = [v \in InputVersions |-> Older(shapesAge[v], TTL)]
  /\ readAge' = [c \in Posts |-> IF read[c] = NoVersion THEN 0 ELSE readAge[c] + 1]
  /\ gone' = [v \in Versions |-> IF pointer[Key(v)] = v THEN 0 ELSE Older(gone[v], MaxGone)]
  /\ UNCHANGED <<registryVars, gpkg, cache, shapes, postPc, inputsOf, modelOf, read>>

=============================================================================
