------------------------- MODULE Resolvers_proofs --------------------------
(***************************************************************************)
(* That jobs are named after what is, or was just now, published, for any  *)
(* POSTs, publishers and times.                                            *)
(***************************************************************************)
EXTENDS Publishing_proofs

-----------------------------------------------------------------------------
(* Steps of a POST and of the clock                                        *)

(* What resolve returns is what is cached, or what was just read. *)
Resolved(c, v) ==
  \/ Hit(c) /\ v = cache[KeyAsked(c)]
  \/ Store(c) /\ v = read[c]

LEMMA KeyAskedFacts ==
  ASSUME NEW c \in Posts
  PROVE  /\ KeyAsked(c) \in Keys
         /\ KeyAsked(c) = "inputs" <=> postPc[c] \in {"inputs", "storeInputs"}
         /\ KeyAsked(c) # "inputs" => KeyAsked(c) = VarlocAsked[c]
BY PostsAssumption, VersionsAssumption DEF KeyAsked, Keys

(* A POST changes its own state only, and its versions only to what        *)
(* resolve returns.                                                        *)
LEMMA PostSteps ==
  ASSUME ResolversTypeOK, NEW c \in Posts, PostStep(c) \/ FailPost(c)
  PROVE  /\ UNCHANGED gone
         /\ \A q \in Posts : q # c =>
              /\ postPc'[q] = postPc[q] /\ inputsOf'[q] = inputsOf[q] /\ modelOf'[q] = modelOf[q]
              /\ read'[q] = read[q] /\ readAge'[q] = readAge[q]
         /\ \/ inputsOf' = inputsOf /\ postPc'[c] \notin {"select", "storeModel"}
            \/ inputsOf' = inputsOf /\ postPc'[c] = "storeModel" /\ postPc[c] = "model"
            \/ /\ Resolved(c, inputsOf'[c]) /\ postPc'[c] = "select"
               /\ postPc[c] \in {"inputs", "storeInputs"}
         /\ \/ modelOf' = modelOf
            \/ Resolved(c, modelOf'[c]) /\ KeyAsked(c) = VarlocAsked[c]
         /\ \/ postPc'[c] \notin {"model", "storeModel", "named"}
            \/ postPc[c] \in {"select", "model", "storeModel"}
         /\ \/ Storing(c)' /\ Fetch(c) /\ pointer[KeyAsked(c)] # NoVersion
            \/ ~Storing(c)' /\ read'[c] = NoVersion
<1>1. /\ \A q \in Posts : q # c =>
              /\ postPc'[q] = postPc[q] /\ inputsOf'[q] = inputsOf[q] /\ modelOf'[q] = modelOf[q]
              /\ read'[q] = read[q] /\ readAge'[q] = readAge[q]
      /\ UNCHANGED gone
  BY DEF PostStep, Hit, Fetch, Store, Select, FailPost, Return, PostGoto, ResolversTypeOK
<1>2. Storing(c) \/ read[c] = NoVersion
  BY DEF ResolversTypeOK, ReadTyped
<1>3. CASE Hit(c)
  BY <1>1, <1>2, <1>3, KeyAskedFacts
     DEF Hit, Return, PostGoto, Resolving, Resolved, ResolversTypeOK, Storing
<1>4. CASE Store(c)
  BY <1>1, <1>4, KeyAskedFacts
     DEF Store, Return, PostGoto, Storing, Resolved, ResolversTypeOK
<1>5. CASE Fetch(c)
  BY <1>1, <1>2, <1>5 DEF Fetch, PostGoto, Resolving, Storing, ResolversTypeOK
<1>6. CASE Select(c)
  BY <1>1, <1>2, <1>6 DEF Select, PostGoto, Storing, ResolversTypeOK
<1>7. CASE FailPost(c)
  BY <1>1, <1>7 DEF FailPost, PostGoto, Storing, ResolversTypeOK
<1> QED  BY <1>3, <1>4, <1>5, <1>6, <1>7 DEF PostStep

(* What resolve returns has the key that was asked for. *)
LEMMA ResolvedTyped ==
  ASSUME TypeOK, AgesInv, NEW c \in Posts, NEW v, Resolved(c, v)
  PROVE  v \in Versions /\ v # NoVersion /\ Key(v) = KeyAsked(c) /\ gone[v] < TTL + ReadTime
<1> DEFINE k == KeyAsked(c)
<1>1. k \in Keys /\ TTL \in Nat \ {0} /\ ReadTime \in Nat
  BY KeyAskedFacts, TimesAssumption
<1>2. ResolversTypeOK
  BY DEF TypeOK
<1>3. CASE Hit(c) /\ v = cache[k]
  <2>1. cacheAge[k] < TTL /\ cacheAge[k] \in 0..TTL
    BY <1>1, <1>2, <1>3 DEF Hit, ResolversTypeOK
  <2>2. v # NoVersion /\ gone[v] <= cacheAge[k] + ReadTime
    BY <1>1, <1>3, <2>1 DEF AgesInv
  <2>3. v \in Versions /\ Key(v) = k
    BY <1>1, <1>2, <1>3, <2>2 DEF ResolversTypeOK
  <2>4. gone[v] \in Nat
    BY <1>1, <1>2, <2>3 DEF ResolversTypeOK, MaxGone
  <2> QED  BY <1>1, <2>1, <2>2, <2>3, <2>4
<1>4. CASE Store(c) /\ v = read[c]
  <2>1. v \in Versions /\ v # NoVersion /\ Key(v) = k
    BY <1>2, <1>4 DEF Store, ResolversTypeOK, ReadTyped
  <2>2. gone[v] <= readAge[c] /\ readAge[c] \in 0..ReadTime
    BY <1>2, <1>4 DEF Store, AgesInv, ResolversTypeOK
  <2>3. gone[v] \in Nat
    BY <1>1, <1>2, <2>1 DEF ResolversTypeOK, MaxGone
  <2> QED  BY <1>1, <2>1, <2>2, <2>3
<1> QED  BY <1>3, <1>4 DEF Resolved

-----------------------------------------------------------------------------
(* Ages                                                                    *)

LEMMA AgesInit == Init => AgesInv
<1> SUFFICES ASSUME Init PROVE AgesInv
  OBVIOUS
<1>1. \A k \in Keys : ~(cacheAge[k] < TTL)
  BY TimesAssumption DEF Init, ResolversInit
<1>2. \A k \in Keys : pointer[k] # NoVersion => pointer[k] = Published /\ Published \in Versions
  BY VersionsAssumption DEF Init, RegistryInit, Versions
<1>3. gone[Published] = 0 /\ \A c \in Posts : ~Storing(c)
  BY <1>2, VersionsAssumption DEF Init, ResolversInit, Storing, Versions
<1> QED  BY <1>1, <1>2, <1>3 DEF AgesInv

LEMMA AgesPublish ==
  ASSUME TypeOK, TypeOK', AgesInv, Noted, UNCHANGED <<cacheVars, postVars>>
  PROVE  AgesInv'
<1>0. gone \in [Versions -> Nat] /\ TTL \in Nat /\ ReadTime \in Nat
  BY TimesAssumption DEF TypeOK, ResolversTypeOK, MaxGone
<1>1. \A v \in Versions : gone'[v] = 0 \/ gone'[v] = gone[v]
  BY DEF Noted
<1>2. \A v \in Versions, n \in Nat : gone[v] <= n => gone'[v] <= n
  BY <1>0, <1>1
<1>3. ASSUME NEW k \in Keys, cacheAge[k] < TTL
      PROVE  cache[k] # NoVersion /\ gone'[cache[k]] <= cacheAge[k] + ReadTime
  <2>1. cache[k] \in Versions /\ gone[cache[k]] <= cacheAge[k] + ReadTime /\ cacheAge[k] \in Nat
    BY <1>0, <1>3 DEF AgesInv, TypeOK, ResolversTypeOK
  <2>2. cache[k] # NoVersion
    BY <1>3 DEF AgesInv
  <2> QED  BY <1>0, <1>2, <2>1, <2>2
<1>4. ASSUME NEW k \in Keys, pointer'[k] # NoVersion PROVE gone'[pointer'[k]] = 0
  BY <1>4 DEF Noted, TypeOK, RegistryTypeOK
<1>5. ASSUME NEW c \in Posts, Storing(c) PROVE gone'[read[c]] <= readAge[c]
  <2>1. read[c] \in Versions /\ readAge[c] \in Nat /\ gone[read[c]] <= readAge[c]
    BY <1>0, <1>5 DEF AgesInv, TypeOK, ResolversTypeOK, ReadTyped
  <2> QED  BY <1>2, <2>1
<1> QED  BY <1>3, <1>4, <1>5 DEF AgesInv, cacheVars, postVars, Storing

LEMMA AgesPost ==
  ASSUME TypeOK, AgesInv, NEW c \in Posts, Post(c)
  PROVE  AgesInv'
<1>0. ResolversTypeOK /\ gone \in [Versions -> Nat] /\ TTL \in Nat /\ ReadTime \in Nat /\ pointer' = pointer
  BY TimesAssumption DEF TypeOK, ResolversTypeOK, MaxGone, Post, registryVars
<1>1. /\ UNCHANGED gone
      /\ \A q \in Posts : q # c => Storing(q)' = Storing(q) /\ read'[q] = read[q] /\ readAge'[q] = readAge[q]
      /\ Storing(c)' => Fetch(c) /\ pointer[KeyAsked(c)] # NoVersion
  BY <1>0, PostSteps DEF Post, Storing
<1>2. ASSUME Storing(c)' PROVE gone[read'[c]] <= readAge'[c]
  <2>1. read'[c] = pointer[KeyAsked(c)] /\ readAge'[c] = 0 /\ pointer[KeyAsked(c)] # NoVersion
    BY <1>0, <1>1, <1>2 DEF Fetch, ResolversTypeOK
  <2>2. gone[pointer[KeyAsked(c)]] = 0
    BY <2>1, KeyAskedFacts DEF AgesInv
  <2> QED  BY <2>1, <2>2
<1>3. ASSUME NEW k \in Keys, cacheAge'[k] < TTL
      PROVE  cache'[k] # NoVersion /\ gone[cache'[k]] <= cacheAge'[k] + ReadTime
  <2>1. CASE Store(c)
    <3>1. k = KeyAsked(c) => cache'[k] = read[c] /\ cacheAge'[k] = 0
      BY <1>0, <2>1 DEF Store, ResolversTypeOK
    <3>2. k # KeyAsked(c) => cache'[k] = cache[k] /\ cacheAge'[k] = cacheAge[k]
      BY <1>0, <2>1 DEF Store, ResolversTypeOK
    <3>3. read[c] \in Versions /\ read[c] # NoVersion /\ gone[read[c]] <= readAge[c] /\ readAge[c] \in 0..ReadTime
      BY <1>0, <2>1 DEF Store, AgesInv, ResolversTypeOK, ReadTyped
    <3>4. gone[read[c]] <= 0 + ReadTime
      BY <1>0, <3>3
    <3> QED  BY <1>3, <3>1, <3>2, <3>3, <3>4 DEF AgesInv
  <2>2. CASE ~Store(c)
    BY <1>3, <2>2 DEF Post, PostStep, Hit, Fetch, Select, FailPost, cacheVars, AgesInv
  <2> QED  BY <2>1, <2>2
<1>4. \A k \in Keys : pointer[k] # NoVersion => gone[pointer[k]] = 0
  BY DEF AgesInv
<1>5. \A q \in Posts : Storing(q)' => gone[read'[q]] <= readAge'[q]
  BY <1>1, <1>2 DEF AgesInv
<1> QED  BY <1>0, <1>1, <1>3, <1>4, <1>5 DEF AgesInv

LEMMA AgesClock ==
  ASSUME TypeOK, AgesInv, Clock
  PROVE  AgesInv'
<1>0. /\ ResolversTypeOK /\ RegistryTypeOK /\ gone \in [Versions -> Nat]
      /\ TTL \in Nat /\ ReadTime \in Nat /\ MaxGone \in Nat
  BY TimesAssumption DEF TypeOK, ResolversTypeOK, MaxGone
<1>1. \A age \in Nat, max \in Nat : age <= max => Older(age, max) \in Nat /\ Older(age, max) <= age + 1
                                     /\ (Older(age, max) < max => age < max /\ Older(age, max) = age + 1)
  BY DEF Older
<1>2. ASSUME NEW v \in Versions PROVE gone'[v] \in Nat /\ gone'[v] <= gone[v] + 1
  <2>1. gone[v] \in Nat /\ gone[v] <= MaxGone
    BY <1>0 DEF ResolversTypeOK
  <2> QED  BY <1>0, <1>1, <2>1 DEF Clock, Tick
<1>3. ASSUME NEW k \in Keys, cacheAge'[k] < TTL
      PROVE  cache'[k] # NoVersion /\ gone'[cache'[k]] <= cacheAge'[k] + ReadTime
  <2>1. cacheAge[k] \in Nat /\ cacheAge[k] <= TTL /\ cacheAge'[k] = Older(cacheAge[k], TTL) /\ cache' = cache
    BY <1>0 DEF Clock, Tick, ResolversTypeOK
  <2>2. cacheAge[k] < TTL /\ cacheAge'[k] = cacheAge[k] + 1
    BY <1>0, <1>3, <2>1 DEF Older
  <2>3. cache[k] # NoVersion /\ gone[cache[k]] <= cacheAge[k] + ReadTime
    BY <2>2 DEF AgesInv
  <2>4. cache[k] \in Versions
    BY <1>0, <2>3 DEF ResolversTypeOK
  <2>5. gone[cache[k]] \in Nat /\ gone'[cache[k]] \in Nat /\ gone'[cache[k]] <= gone[cache[k]] + 1
    BY <1>0, <1>2, <2>4
  <2> QED  BY <1>0, <2>1, <2>2, <2>3, <2>5
<1>4. ASSUME NEW k \in Keys, pointer'[k] # NoVersion PROVE gone'[pointer'[k]] = 0
  BY <1>0, <1>4 DEF Clock, Tick, registryVars, RegistryTypeOK
<1>5. ASSUME NEW c \in Posts, Storing(c)' PROVE gone'[read'[c]] <= readAge'[c]
  <2>1. Storing(c) /\ read' = read /\ read[c] # NoVersion
    BY <1>0, <1>5 DEF Clock, Tick, Storing, ResolversTypeOK, ReadTyped
  <2>2. read[c] \in Versions /\ readAge[c] \in Nat /\ readAge'[c] = readAge[c] + 1
    BY <1>0, <2>1 DEF Clock, Tick, ResolversTypeOK
  <2>3. gone[read[c]] <= readAge[c] /\ gone[read[c]] \in Nat
    BY <1>0, <2>1, <2>2 DEF AgesInv
  <2> QED  BY <1>2, <2>1, <2>2, <2>3
<1> QED  BY <1>3, <1>4, <1>5 DEF AgesInv

-----------------------------------------------------------------------------
(* Names                                                                   *)

LEMMA NamesInit == Init => NamesInv
BY DEF Init, ResolversInit, NamesInv

(* A step that leaves caches and POSTs alone and removes no object. *)
LEMMA NamesGrown ==
  ASSUME NamesInv, Grown, UNCHANGED <<cache, postVars>>
  PROVE  NamesInv'
BY CompleteGrows DEF NamesInv, postVars

LEMMA NamesPost ==
  ASSUME TypeOK, AgesInv, NamesInv, CurrentIsComplete, NEW c \in Posts, Post(c)
  PROVE  NamesInv'
<1>0. ResolversTypeOK
  BY DEF TypeOK
<1>1. \A v : Complete(v)' <=> Complete(v)
  BY DEF Post, registryVars, Complete
<1>2. ASSUME NEW v, Resolved(c, v) PROVE v \in Versions /\ v # NoVersion /\ Complete(v) /\ Key(v) = KeyAsked(c)
  <2>1. v \in Versions /\ v # NoVersion /\ Key(v) = KeyAsked(c)
    BY <1>2, ResolvedTyped
  <2>2. v = cache[KeyAsked(c)] \/ v = read[c]
    BY <1>2 DEF Resolved
  <2> QED  BY <2>1, <2>2, KeyAskedFacts DEF NamesInv
<1>3. \A k \in Keys : cache'[k] # NoVersion => Complete(cache'[k])
  <2>1. CASE Store(c)
    <3>1. \A k \in Keys : cache'[k] = cache[k] \/ cache'[k] = read[c]
      BY <1>0, <2>1 DEF Store, ResolversTypeOK
    <3> QED  BY <3>1 DEF NamesInv
  <2>2. CASE ~Store(c)
    BY <2>2 DEF Post, PostStep, Hit, Fetch, Select, FailPost, cacheVars, NamesInv
  <2> QED  BY <2>1, <2>2
<1>4. read'[c] # NoVersion => Complete(read'[c])
  <2>1. CASE read'[c] # NoVersion
    <3>1. Fetch(c) /\ pointer[KeyAsked(c)] # NoVersion
      BY <1>0, <2>1, PostSteps DEF Post
    <3>2. read'[c] = pointer[KeyAsked(c)]
      BY <1>0, <3>1 DEF Fetch, ResolversTypeOK
    <3> QED  BY <3>1, <3>2, KeyAskedFacts DEF CurrentIsComplete
  <2> QED  BY <2>1
<1>5. /\ inputsOf'[c] # NoVersion => Complete(inputsOf'[c])
      /\ postPc'[c] \in {"select", "model", "storeModel", "named"} => inputsOf'[c] # NoVersion
  <2>1. CASE inputsOf' = inputsOf /\ postPc'[c] # "select"
    <3>1. postPc'[c] \in {"model", "storeModel", "named"} => postPc[c] \in {"select", "model", "storeModel"}
      BY <1>0, PostSteps DEF Post
    <3> QED  BY <2>1, <3>1 DEF NamesInv
  <2>2. CASE Resolved(c, inputsOf'[c])
    BY <1>2, <2>2
  <2> QED  BY <1>0, <2>1, <2>2, PostSteps DEF Post
<1>6. modelOf'[c] # NoVersion => Complete(modelOf'[c]) /\ Key(modelOf'[c]) = VarlocAsked[c]
  <2>1. CASE modelOf' = modelOf
    BY <2>1 DEF NamesInv
  <2>2. CASE Resolved(c, modelOf'[c]) /\ KeyAsked(c) = VarlocAsked[c]
    BY <1>2, <2>2
  <2> QED  BY <1>0, <2>1, <2>2, PostSteps DEF Post
<1>7. \A q \in Posts : q # c =>
        postPc'[q] = postPc[q] /\ inputsOf'[q] = inputsOf[q] /\ modelOf'[q] = modelOf[q] /\ read'[q] = read[q]
  BY <1>0, PostSteps DEF Post
<1>8. \A v : Key(v)' = Key(v)
  BY DEF Key
<1> QED  BY <1>1, <1>3, <1>4, <1>5, <1>6, <1>7, <1>8 DEF NamesInv

-----------------------------------------------------------------------------
(* The whole                                                               *)

LEMMA NamingNext == NamingInv /\ [Next]_vars => NamingInv'
<1> SUFFICES ASSUME NamingInv, [Next]_vars PROVE NamingInv'
  OBVIOUS
<1>1. BaseInv' /\ TypeOK /\ TypeOK' /\ AgesInv /\ (Tidy => NamesInv /\ CurrentIsComplete)
  BY BaseNext DEF NamingInv, BaseInv
<1>2. RegistryTypeOK /\ ListTypeOK /\ ReplaceInv /\ UploadInv
  BY DEF NamingInv, BaseInv, TypeOK
<1>3. ASSUME NEW p \in Publishers, Publish(p) PROVE NamingInv'
  <2>1. Start(p) \/ PublisherStep(p) \/ Fail(p)
    BY <1>3 DEF Publish, Train
  <2>2. Noted /\ UNCHANGED <<cacheVars, postVars>>
    BY <1>3 DEF Publish
  <2>3. Grown
    BY <1>2, <2>1, PublishGrows
  <2> QED  BY <1>1, <2>2, <2>3, AgesPublish, NamesGrown DEF NamingInv, cacheVars
<1>4. ASSUME ListStep, UNCHANGED resolverVars PROVE NamingInv'
  <2>1. Grown /\ UNCHANGED pointer
    BY <1>2, <1>4, ListTyped
  <2>2. AgesInv'
    BY <1>1, <1>4, <2>1 DEF AgesInv, resolverVars, cacheVars, postVars, Storing
  <2> QED  BY <1>1, <1>4, <2>1, <2>2, NamesGrown DEF NamingInv, resolverVars, cacheVars
<1>5. ASSUME NEW c \in Posts, Post(c) PROVE NamingInv'
  BY <1>1, <1>5, AgesPost, NamesPost DEF NamingInv
<1>6. ASSUME Clock PROVE NamingInv'
  <2>1. AgesInv'
    BY <1>1, <1>6, AgesClock
  <2>2. NamesInv => NamesInv'
    BY <1>6 DEF Clock, Tick, registryVars, NamesInv, Complete, Key
  <2> QED  BY <1>1, <2>1, <2>2 DEF NamingInv
<1>7. ASSUME UNCHANGED vars PROVE NamingInv'
  <2>1. AgesInv' /\ (NamesInv => NamesInv')
    BY <1>1, <1>7 DEF vars, registryVars, resolverVars, cacheVars, postVars, AgesInv, NamesInv, Storing, Complete, Key
  <2> QED  BY <1>1, <2>1 DEF NamingInv
<1> QED  BY <1>3, <1>4, <1>5, <1>6, <1>7 DEF Next, MarkTrained, UpdateTrained, ListStep

(* What is cached, read or named is of its own key, was current no longer  *)
(* ago than its age and a read, and is there in full.                      *)
THEOREM CachesAgree == Spec => []NamingInv
<1>1. Init => NamingInv
  BY BaseInit, AgesInit, NamesInit DEF NamingInv
<1> QED  BY <1>1, NamingNext, PTL DEF Spec

(* A job's inputs version and bundle are there in full, and the bundle is  *)
(* of its own varloc, whatever an instance has cached since when.          *)
THEOREM JobsArePublished == Tidy => (Spec => []JobsNamePublished)
<1> SUFFICES ASSUME Tidy PROVE Spec => []JobsNamePublished
  OBVIOUS
<1>1. NamingInv => JobsNamePublished
  <2> SUFFICES ASSUME NamesInv, NEW c \in Posts, postPc[c] = "named"
               PROVE  /\ Complete(inputsOf[c])
                      /\ modelOf[c] # NoVersion => Complete(modelOf[c]) /\ VarlocOf[modelOf[c]] = VarlocAsked[c]
    BY DEF NamingInv, JobsNamePublished
  <2>1. VarlocAsked[c] # "inputs"
    BY PostsAssumption, VersionsAssumption
  <2> QED  BY <2>1 DEF NamesInv, Key
<1> QED  BY <1>1, CachesAgree, PTL

(* However slow a POST is to store what it read, and whatever it stores it *)
(* over, resolve returns no version gone for the TTL and a read.           *)
THEOREM JobsAreFresh == Spec => FreshEnough
<1>1. NamingInv /\ [Next]_vars =>
        [\A c \in Posts, v \in Versions :
           \/ inputsOf'[c] = v /\ inputsOf[c] # v
           \/ modelOf'[c] = v /\ modelOf[c] # v
           => gone[v] < TTL + ReadTime]_vars
  <2> SUFFICES ASSUME NamingInv, [Next]_vars, NEW c \in Posts, NEW v \in Versions,
                      \/ inputsOf'[c] = v /\ inputsOf[c] # v
                      \/ modelOf'[c] = v /\ modelOf[c] # v
               PROVE  gone[v] < TTL + ReadTime
    OBVIOUS
  <2>1. TypeOK /\ AgesInv /\ ResolversTypeOK
    BY DEF NamingInv, BaseInv, TypeOK
  <2>2. inputsOf' # inputsOf \/ modelOf' # modelOf
    OBVIOUS
  <2>3. PICK q \in Posts : Post(q)
    BY <2>2 DEF Next, Publish, MarkTrained, UpdateTrained, Clock, Tick, vars, resolverVars, postVars
  <2>4. q = c
    BY <2>1, <2>3, PostSteps DEF Post
  <2>5. Resolved(c, v)
    BY <2>1, <2>3, <2>4, PostSteps DEF Post
  <2> QED  BY <2>1, <2>5, ResolvedTyped
<1> QED  BY <1>1, CachesAgree, PTL DEF Spec, FreshEnough

=============================================================================
