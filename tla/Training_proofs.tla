--------------------------- MODULE Training_proofs ---------------------------
(***************************************************************************)
(* Proofs about Training: what a later run starts from is definite, and a  *)
(* run that ends by itself has saved the last epoch, whichever name the    *)
(* heap sends to eviction; and what the heap keeps, so that the best       *)
(* checkpoint is never evicted.                                            *)
(***************************************************************************)
EXTENDS Training, SequenceTheorems, FiniteSetTheorems, TLAPS

FileNames == [loss : Nat \cup {NaN}, epoch : Nat, run : Nat]

\* What the proof needs of types; the heap may be anything.
FilesOK ==
    /\ epoch \in Epochs
    /\ loss \in Nat \cup {NaN}
    /\ kills \in Nat
    /\ models \subseteq FileNames

\* The highest epoch exists, also after any evictions.
HasLatest(files) == \E f \in files : \A g \in files : g.epoch <= f.epoch
AllHaveLatest == \A files \in SUBSET models : files # {} => HasLatest(files)

\* Before the model is saved all epochs there are lower; behind that the only
\* other one is the file just saved.
Current == File(loss, epoch)
Below ==
    /\ pc \in {"epoch", "optim", "model"} => \A f \in models : f.epoch < epoch
    /\ pc \in {"evict", "evict_optim", "log", "final_optim", "final_model"} =>
         \A f \in models : f.epoch < epoch \/ f = Current

Saving ==
    /\ pc \in {"model", "final_model"} => Current \in optims
    /\ pc = "evict_optim" => \A f \in models : ~SameName(f, Worst)
    /\ pc \in {"final_optim", "final_model"} => epoch = NumEpochs - 1

\* The inductive invariant.
IInv == FilesOK /\ AllHaveLatest /\ Below /\ Saving /\ ResumePaired

-----------------------------------------------------------------------------
\* File and its name.
LEMMA FileType ==
    ASSUME NEW l \in Nat \cup {NaN}, NEW e \in Nat, kills \in Nat
    PROVE  /\ File(l, e) \in FileNames
           /\ File(l, e).epoch = e
<1>1. Rounded(l) \in Nat \cup {NaN}
  BY DEF Rounded, NaN
<1> QED
  BY <1>1 DEF File, FileNames

\* A set of files in which one is not below the others keeps its latest.
LEMMA LatestAfterPut ==
    ASSUME IInv, NEW f \in FileNames, \A g \in models : g.epoch <= f.epoch
    PROVE  \A files \in SUBSET Put(models, f) : files # {} => HasLatest(files)
<1> SUFFICES ASSUME NEW files \in SUBSET Put(models, f), files # {}
             PROVE  HasLatest(files)
  OBVIOUS
<1>1. files \subseteq models \cup {f}
  BY DEF Put
<1>2. CASE f \in files
  BY <1>1, <1>2 DEF HasLatest, FileNames
<1>3. CASE f \notin files
  BY <1>1, <1>3 DEF IInv, AllHaveLatest
<1> QED
  BY <1>2, <1>3

\* Where a run resumes: above every epoch on disk.
LEMMA ResumesAbove ==
    ASSUME IInv
    PROVE  /\ ResumeEpoch(models) \in Nat
           /\ \A f \in models : f.epoch < ResumeEpoch(models)
           /\ models # {} => FindLatest(models) \in models
<1>1. CASE models = {}
  BY <1>1 DEF ResumeEpoch
<1>2. CASE models # {}
  <2>1. HasLatest(models)
    BY <1>2 DEF IInv, AllHaveLatest
  <2>2. /\ FindLatest(models) \in models
        /\ \A g \in models : g.epoch <= FindLatest(models).epoch
    BY <1>2, <2>1 DEF HasLatest, FindLatest
  <2>3. ResumeEpoch(models) = FindLatest(models).epoch + 1
    BY <1>2 DEF ResumeEpoch
  <2> QED
    BY <2>2, <2>3 DEF IInv, FilesOK, FileNames
<1> QED
  BY <1>1, <1>2

-----------------------------------------------------------------------------
LEMMA InitIInv == Init => IInv
BY TrainingAssumption
   DEF Init, IInv, FilesOK, AllHaveLatest, Below, Saving, ResumePaired, Epochs, FileNames

LEMMA NextIInv == IInv /\ [Next]_vars => IInv'
<1> SUFFICES ASSUME IInv, [Next]_vars PROVE IInv'
  OBVIOUS
<1> USE TrainingAssumption
<1>0. /\ epoch \in Nat /\ epoch \in Int /\ NumEpochs \in Nat
      /\ Current \in FileNames /\ Current.epoch = epoch
  BY FileType DEF IInv, FilesOK, Epochs, Current
<1>1. CASE Start
  <2>1. FilesOK'
    BY <1>1, ResumesAbove DEF Start, disk, IInv, FilesOK, Epochs, FileNames
  <2>2. Below'
    BY <1>1, ResumesAbove DEF Start, disk, Below
  <2> QED
    BY <1>1, <2>1, <2>2 DEF Start, disk, IInv, AllHaveLatest, Saving, ResumePaired, HasLatest
<1>2. CASE TrainEpoch
  <2>1. FilesOK'
    BY <1>2 DEF TrainEpoch, disk, IInv, FilesOK
  <2> QED
    BY <1>2, <2>1 DEF TrainEpoch, disk, IInv, AllHaveLatest, Below, Saving, ResumePaired, HasLatest
<1>3. CASE SaveOptim
  <2>1. FilesOK' /\ AllHaveLatest' /\ Below'
    BY <1>3 DEF SaveOptim, IInv, FilesOK, AllHaveLatest, Below, Current, File, HasLatest
  <2>2. Current \in optims' /\ Current' = Current
    BY <1>3 DEF SaveOptim, Put, Current, File
  <2>3. Saving'
    BY <1>3, <2>2 DEF SaveOptim, IInv, Saving
  <2>4. \A f \in models : SameName(f, Current) => f = Current
    BY <1>0, <1>3 DEF SaveOptim, IInv, Below, SameName, FilesOK, FileNames
  <2>5. models \subseteq optims'
    BY <2>2, <2>4, <1>3 DEF SaveOptim, Put, SameName, Current, IInv, ResumePaired
  <2> QED
    BY <1>3, <2>1, <2>3, <2>5 DEF SaveOptim, IInv, ResumePaired
<1>4. CASE SaveModel \/ FinalModel
  <2>1. /\ models' = Put(models, Current) /\ UNCHANGED <<epoch, loss, kills, optims>>
        /\ pc \in {"model", "final_model"} /\ pc' \in {"evict", "log", "idle"}
    BY <1>4 DEF SaveModel, FinalModel, Current
  <2>2. Current' = Current
    BY <2>1 DEF Current, File
  <2>3. \A g \in models : g.epoch < epoch \/ g = Current
    BY <2>1 DEF IInv, Below
  <2>4. \A g \in models : g.epoch <= Current.epoch
    BY <1>0, <2>3 DEF IInv, FilesOK, FileNames
  <2>5. AllHaveLatest'
    BY <1>0, <2>1, <2>4, LatestAfterPut DEF AllHaveLatest, HasLatest
  <2>6. FilesOK'
    BY <1>0, <2>1 DEF IInv, FilesOK, Put
  <2>7. Below' /\ Saving'
    BY <2>1, <2>2, <2>3 DEF Below, Saving, Put
  <2>8. models' \subseteq optims'
    BY <2>1 DEF IInv, Saving, ResumePaired, Put
  <2>9. \A f, g \in models' : f.epoch = g.epoch => f = g
    BY <1>0, <2>1, <2>3 DEF IInv, ResumePaired, Put, FilesOK, FileNames
  <2> QED
    BY <2>5, <2>6, <2>7, <2>8, <2>9 DEF IInv, ResumePaired
<1>5. CASE EvictModel
  <2>1. /\ models' \subseteq models /\ \A f \in models' : ~SameName(f, Worst)
        /\ UNCHANGED <<epoch, loss, heap, kills, optims>>
        /\ pc = "evict" /\ pc' = "evict_optim"
    BY <1>5 DEF EvictModel, Unlink, SameName
  <2>2. Worst' = Worst /\ Current' = Current
    BY <2>1 DEF Worst, Current, File
  <2>3. FilesOK' /\ AllHaveLatest' /\ Below' /\ ResumePaired'
    BY <2>1, <2>2 DEF IInv, FilesOK, AllHaveLatest, Below, ResumePaired, HasLatest
  <2>4. Saving'
    BY <2>1, <2>2 DEF Saving, SameName
  <2> QED
    BY <2>3, <2>4 DEF IInv
<1>6. CASE EvictOptim
  <2>1. /\ UNCHANGED <<epoch, loss, models, kills>>
        /\ pc = "evict_optim" /\ pc' = "log" /\ optims' = Unlink(optims, Worst)
    BY <1>6 DEF EvictOptim
  <2>2. models \subseteq optims'
    BY <2>1 DEF IInv, Saving, ResumePaired, Unlink, SameName
  <2> QED
    BY <2>1, <2>2
    DEF IInv, FilesOK, AllHaveLatest, Below, Saving, ResumePaired, HasLatest, Current, File
<1>7. CASE AppendLog
  <2>1. /\ UNCHANGED <<loss, models, optims, kills>>
        /\ pc = "log"
        /\ \/ epoch + 1 < NumEpochs /\ pc' = "epoch" /\ epoch' = epoch + 1
           \/ epoch + 1 >= NumEpochs /\ pc' = "final_optim" /\ epoch' = epoch
    BY <1>0, <1>7 DEF AppendLog
  <2>2. FilesOK' /\ AllHaveLatest' /\ ResumePaired'
    BY <1>0, <2>1 DEF IInv, FilesOK, AllHaveLatest, ResumePaired, HasLatest, Epochs
  <2>3. \A f \in models : f.epoch <= epoch
    BY <1>0, <2>1 DEF IInv, Below, FilesOK, FileNames
  <2>4. Below'
    <3>1. CASE pc' = "epoch"
      BY <1>0, <2>1, <2>3, <3>1 DEF Below, IInv, FilesOK, FileNames
    <3>2. CASE pc' = "final_optim"
      BY <2>1, <3>2 DEF Below, IInv, Current, File
    <3> QED
      BY <2>1, <3>1, <3>2
  <2>5. Saving'
    BY <1>0, <2>1 DEF Saving, IInv, FilesOK, Epochs
  <2> QED
    BY <2>2, <2>4, <2>5 DEF IInv
<1>8. CASE Kill
  BY <1>8 DEF Kill, disk, IInv, FilesOK, AllHaveLatest, Below, Saving, ResumePaired, HasLatest
<1>9. CASE UNCHANGED vars
  BY <1>9 DEF vars, IInv, FilesOK, AllHaveLatest, Below, Saving, ResumePaired, HasLatest,
              Current, File, Worst, SameName
<1> QED
  BY <1>1, <1>2, <1>3, <1>4, <1>5, <1>6, <1>7, <1>8, <1>9 DEF Next

-----------------------------------------------------------------------------
\* The inductive invariant holds of every training, with any number of epochs,
\* losses (NaN too) and kills.
THEOREM TrainingInvariant == Spec => []IInv
<1>1. Init => IInv
  BY InitIInv
<1>2. IInv /\ [Next]_vars => IInv'
  BY NextIInv
<1> QED
  BY <1>1, <1>2, PTL DEF Spec

\* What a later run starts from (train.py, find_latest_checkpoint) is definite
\* and has its optimizer state beside it, wherever earlier runs were killed.
THEOREM ResumeIsDefinite == Spec => []ResumePaired
<1>1. IInv => ResumePaired
  BY DEF IInv
<1> QED
  BY <1>1, TrainingInvariant, PTL

\* A run that ends by itself leaves a checkpoint of the last epoch, which is
\* what update_trained.sh looks for.
THEOREM RunsEndTrained == Spec => EndsTrained
<1> DEFINE Trained == pc # "idle" /\ pc' = "idle" /\ kills' = kills
                        => \E f \in models' : f.epoch = NumEpochs - 1
<1>1. IInv /\ [Next]_vars => [Trained]_vars
  <2> SUFFICES ASSUME IInv, Next, pc # "idle", pc' = "idle", kills' = kills
               PROVE  \E f \in models' : f.epoch = NumEpochs - 1
    OBVIOUS
  <2>1. kills \in Nat
    BY DEF IInv, FilesOK
  <2>2. FinalModel
    BY <2>1 DEF Next, Start, TrainEpoch, SaveOptim, SaveModel, EvictModel, EvictOptim,
                AppendLog, Kill
  <2>3. File(loss, epoch) \in models' /\ epoch = NumEpochs - 1
    BY <2>2 DEF FinalModel, Put, IInv, Saving
  <2>4. File(loss, epoch).epoch = epoch
    BY DEF File
  <2> QED
    BY <2>3, <2>4
<1>2. Spec => [][Trained]_vars
  BY <1>1, TrainingInvariant, PTL DEF Spec
<1> QED
  BY <1>2 DEF EndsTrained

-----------------------------------------------------------------------------
\* The heap

Entries == [loss : Nat \cup {NaN}, epoch : Epochs]

\* The heap of heapq: no entry is less than its parent.
Ordered(h) == \A k \in 2 .. Len(h) : ~Less(h[k], h[k \div 2])
OrderedBut(h, i) == \A k \in 2 .. Len(h) : k # i => ~Less(h[k], h[k \div 2])
Childless(h, i) == i + i > Len(h)
Distinct(h) == \A j, k \in 1 .. Len(h) : h[j].epoch = h[k].epoch => j = k
Numbers(h) == \A k \in 1 .. Len(h) : h[k].loss # NaN

\* What exchanging entries leaves of g in h.
Shuffled(h, g) ==
    /\ h \in Seq(Entries) /\ Len(h) = Len(g)
    /\ \A k \in 1 .. Len(h) : \E j \in 1 .. Len(g) : h[k] = g[j]
    /\ Distinct(g) => Distinct(h)

LEMMA SwapFacts ==
    ASSUME NEW h \in Seq(Entries), NEW i \in 1 .. Len(h), NEW j \in 1 .. Len(h)
    PROVE  /\ Shuffled(Swap(h, i, j), h)
           /\ \A k \in 1 .. Len(h) :
                Swap(h, i, j)[k] = IF k = j THEN h[i] ELSE IF k = i THEN h[j] ELSE h[k]
<1> DEFINE once == [h EXCEPT ![i] = h[j]]
<1>1. h[i] \in Entries /\ h[j] \in Entries
  OBVIOUS
<1>2. /\ once \in Seq(Entries) /\ Len(once) = Len(h)
      /\ \A k \in 1 .. Len(h) : once[k] = IF k = i THEN h[j] ELSE h[k]
  BY <1>1, ExceptSeq
<1>3. Swap(h, i, j) = [once EXCEPT ![j] = h[i]]
  BY DEF Swap
<1>4. /\ Swap(h, i, j) \in Seq(Entries) /\ Len(Swap(h, i, j)) = Len(h)
      /\ \A k \in 1 .. Len(h) : Swap(h, i, j)[k] = IF k = j THEN h[i] ELSE once[k]
  <2> HIDE DEF once
  <2> QED BY <1>1, <1>2, <1>3, ExceptSeq
<1>5. \A k \in 1 .. Len(h) :
         Swap(h, i, j)[k] = IF k = j THEN h[i] ELSE IF k = i THEN h[j] ELSE h[k]
  BY <1>2, <1>4
<1>6. Distinct(h) => Distinct(Swap(h, i, j))
  BY <1>4, <1>5 DEF Distinct
<1> QED
  BY <1>4, <1>5, <1>6 DEF Shuffled

LEMMA RiseFacts ==
    ASSUME NEW h \in Seq(Entries), NEW i \in 1 .. Len(h), i <= 4
    PROVE  Shuffled(Rise(h, i), h)
<1> DEFINE once == Swap(h, i, i \div 2)
<1>1. CASE ~Rises(h, i)
  BY <1>1 DEF Rise, Shuffled
<1>2. CASE Rises(h, i)
  <2>1. i > 1 /\ i \div 2 \in 1 .. Len(h)
    BY <1>2 DEF Rises
  <2>2. Shuffled(once, h)
    BY <2>1, SwapFacts
  <2>3. CASE ~Rises(once, i \div 2)
    BY <1>2, <2>2, <2>3 DEF Rise
  <2>4. CASE Rises(once, i \div 2)
    <3>1. i = 4
      BY <2>1, <2>4 DEF Rises
    <3>2. Shuffled(Swap(once, 2, 1), once)
      <4>1. once \in Seq(Entries) /\ 1 \in 1 .. Len(once) /\ 2 \in 1 .. Len(once)
        BY <2>2, <3>1 DEF Shuffled
      <4> HIDE DEF once
      <4> QED
        BY <4>1, SwapFacts
    <3>3. Shuffled(Swap(once, 2, 1), h)
      BY <2>2, <3>2 DEF Shuffled
    <3> QED
      BY <1>2, <2>4, <3>1, <3>3 DEF Rise
  <2> QED
    BY <2>3, <2>4
<1> QED
  BY <1>1, <1>2

LEMMA PushFacts ==
    ASSUME NEW h \in Seq(Entries), Len(h) <= 3, NEW x \in Entries
    PROVE  /\ Shuffled(Push(h, x), Append(h, x))
           /\ Len(Append(h, x)) = Len(h) + 1 /\ Append(h, x) \in Seq(Entries)
           /\ \A k \in 1 .. Len(h) : Append(h, x)[k] = h[k]
           /\ Append(h, x)[Len(h) + 1] = x
<1>1. /\ Append(h, x) \in Seq(Entries) /\ Len(Append(h, x)) = Len(h) + 1
      /\ \A k \in 1 .. Len(h) : Append(h, x)[k] = h[k]
      /\ Append(h, x)[Len(h) + 1] = x
  OBVIOUS
<1>2. Len(h) + 1 \in 1 .. Len(Append(h, x)) /\ Len(h) + 1 <= 4
  BY <1>1, LenProperties
<1> QED
  BY <1>1, <1>2, RiseFacts DEF Push

LEMMA NumberEntries ==
    ASSUME NEW h \in Seq(Entries), Numbers(h)
    PROVE  \A k \in 1 .. Len(h) : h[k].loss \in Nat /\ h[k].epoch \in Nat
<1> SUFFICES ASSUME NEW k \in 1 .. Len(h)
             PROVE  h[k].loss \in Nat /\ h[k].epoch \in Nat
  OBVIOUS
<1>1. h[k] \in Entries
  OBVIOUS
<1>2. h[k].loss # NaN
  BY DEF Numbers
<1>3. Epochs \subseteq Nat
  BY TrainingAssumption DEF Epochs
<1> QED
  BY <1>1, <1>2, <1>3 DEF Entries

\* A step up restores the order of the whole heap.
LEMMA RiseOrders ==
    ASSUME NEW h \in Seq(Entries), NEW n \in 1 .. 4, Len(h) = n, NEW i \in 1 .. n,
           Numbers(h),
           Childless(h, i), Distinct(h), OrderedBut(h, i)
    PROVE  Ordered(Rise(h, i))
<1> DEFINE once == Swap(h, i, i \div 2)
<1>0. \A k \in 1 .. Len(h) : h[k].loss \in Nat /\ h[k].epoch \in Nat
  BY NumberEntries
<1>1. CASE ~Rises(h, i)
  <2>1. Rise(h, i) = h /\ ~(i > 1 /\ Less(h[i], h[i \div 2]))
    BY <1>1 DEF Rise, Rises
  <2>2. \A k \in 2 .. Len(h) : ~Less(h[k], h[k \div 2])
    BY <2>1 DEF OrderedBut
  <2> QED
    BY <2>1, <2>2 DEF Ordered
<1>2. CASE Rises(h, i)
  <2>1. i > 1 /\ i \div 2 \in 1 .. Len(h) /\ Less(h[i], h[i \div 2]) /\ i # i \div 2
    BY <1>2 DEF Rises
  <2>a. Shuffled(once, h)
    BY <2>1, SwapFacts
  <2>2. /\ once \in Seq(Entries) /\ Len(once) = Len(h)
        /\ \A k \in 1 .. Len(h) :
             once[k] = IF k = i \div 2 THEN h[i] ELSE IF k = i THEN h[i \div 2] ELSE h[k]
    <3>1. \A k \in 1 .. Len(h) :
             once[k] = IF k = i \div 2 THEN h[i] ELSE IF k = i THEN h[i \div 2] ELSE h[k]
      BY <2>1, SwapFacts
    <3> QED
      BY <2>a, <3>1 DEF Shuffled
  <2>b. Rises(once, i \div 2) <=> i \div 2 > 1 /\ Less(once[i \div 2], once[(i \div 2) \div 2])
    BY DEF Rises
  <2>c. Rise(h, i) = IF Rises(once, i \div 2) THEN Swap(once, i \div 2, i \div 4) ELSE once
    BY <1>2 DEF Rise
  <2> HIDE DEF once
  <2>3. CASE i = 4
    <3>0. Len(h) = 4 /\ i \div 2 = 2 /\ (i \div 2) \div 2 = 1 /\ i \div 4 = 1
      <4>1. Len(h) = 4
        BY <2>3
      <4> QED
        BY <2>3, <4>1
    <3>1. once[1] = h[1] /\ once[2] = h[4] /\ once[3] = h[3] /\ once[4] = h[2]
      BY <2>2, <3>0, <2>3
    <3>2. Less(h[4], h[2]) /\ ~Less(h[3], h[1]) /\ ~Less(h[2], h[1])
      BY <2>1, <2>3, <3>0 DEF OrderedBut
    <3>3. CASE ~Less(h[4], h[1])
      <4>1. Rise(h, i) = once
        BY <2>b, <2>c, <3>0, <3>1, <3>3
      <4>2. ~Less(once[2], once[1]) /\ ~Less(once[3], once[1]) /\ ~Less(once[4], once[2])
        BY <1>0, <3>0, <3>1, <3>2, <3>3 DEF Less
      <4> QED
        BY <4>1, <4>2, <2>2, <3>0 DEF Ordered
    <3>4. CASE Less(h[4], h[1])
      <4>1. Rise(h, i) = Swap(once, 2, 1)
        BY <2>b, <2>c, <3>0, <3>1, <3>4
      <4> DEFINE twice == Swap(once, 2, 1)
      <4>2. /\ Len(twice) = 4
            /\ twice[1] = h[4] /\ twice[2] = h[1] /\ twice[3] = h[3] /\ twice[4] = h[2]
        <5>1. Len(once) = 4 /\ 1 \in 1 .. Len(once) /\ 2 \in 1 .. Len(once)
          BY <2>2, <3>0
        <5>2. Shuffled(twice, once) /\ \A k \in 1 .. Len(once) :
                 twice[k] = IF k = 1 THEN once[2] ELSE IF k = 2 THEN once[1] ELSE once[k]
          <6>1. once \in Seq(Entries)
            BY <2>2
          <6>2. \A a, b \in 1 .. Len(once) : Shuffled(Swap(once, a, b), once)
            BY <6>1, SwapFacts
          <6>3. \A k \in 1 .. Len(once) :
                 twice[k] = IF k = 1 THEN once[2] ELSE IF k = 2 THEN once[1] ELSE once[k]
            <7>1. \A a, b \in 1 .. Len(once) : \A k \in 1 .. Len(once) :
                     Swap(once, a, b)[k] = IF k = b THEN once[a] ELSE IF k = a THEN once[b] ELSE once[k]
              BY <6>1, SwapFacts
            <7> QED
              BY <7>1, <5>1
          <6> QED
            BY <5>1, <6>2, <6>3
        <5> HIDE DEF twice
        <5> QED
          BY <5>1, <5>2, <3>1 DEF Shuffled
      <4>3. ~Less(twice[2], twice[1]) /\ ~Less(twice[3], twice[1]) /\ ~Less(twice[4], twice[2])
        <5>1. \A k \in 1 .. 4 : h[k].loss \in Nat /\ h[k].epoch \in Nat
          BY <1>0, <3>0
        <5>2. ~Less(h[1], h[4]) /\ ~Less(h[3], h[4]) /\ ~Less(h[2], h[1])
          BY <5>1, <3>2, <3>4, SMTT(40) DEF Less
        <5> HIDE DEF twice
        <5> QED
          BY <5>2, <4>2
      <4> QED
        BY <4>1, <4>2, <4>3 DEF Ordered
    <3> QED
      BY <3>3, <3>4
  <2>4. CASE i # 4
    <3>0. i \in {2, 3} /\ i \div 2 = 1 /\ Len(h) \in 2 .. 4
      <4>1. i \in {2, 3} /\ Len(h) \in 2 .. 4
        BY <2>1, <2>4 DEF Childless
      <4> QED
        BY <4>1
    <3>1. Rise(h, i) = once
      BY <2>b, <2>c, <3>0
    <3>2. \A k \in 2 .. Len(h) : ~Less(once[k], once[k \div 2])
      <4>1. CASE i = 3
        <5>1. once[1] = h[3] /\ once[2] = h[2] /\ once[3] = h[1]
              /\ (Len(h) = 4 => once[4] = h[4])
          BY <2>2, <3>0, <4>1
        <5>2. Len(h) >= 3 /\ Less(h[3], h[1]) /\ ~Less(h[2], h[1])
          BY <2>1, <3>0, <4>1 DEF OrderedBut
        <5>3. Len(h) = 4 => ~Less(h[4], h[2])
          BY <4>1 DEF OrderedBut
        <5>4. ~Less(h[2], h[3]) /\ ~Less(h[1], h[3])
          BY <5>2, <1>0, <3>0, SMTT(40) DEF Less
        <5>5. /\ \A k \in 2 .. Len(h) : k = 2 \/ k = 3 \/ (k = 4 /\ Len(h) = 4)
              /\ 2 \div 2 = 1 /\ 3 \div 2 = 1 /\ 4 \div 2 = 2
          BY <3>0
        <5>6. ~Less(once[2], once[1]) /\ ~Less(once[3], once[1])
              /\ (Len(h) = 4 => ~Less(once[4], once[2]))
          BY <5>1, <5>3, <5>4
        <5> QED
          BY <5>5, <5>6
      <4>2. CASE i = 2
        <5>1. once[1] = h[2] /\ once[2] = h[1] /\ (Len(h) = 3 => once[3] = h[3])
          BY <2>2, <3>0, <4>2
        <5>2. Len(h) \in {2, 3} /\ Less(h[2], h[1])
          BY <2>1, <3>0, <4>2 DEF Childless
        <5>3. Len(h) = 3 => ~Less(h[3], h[1])
          BY <4>2 DEF OrderedBut
        <5>4. ~Less(h[1], h[2]) /\ (Len(h) = 3 => ~Less(h[3], h[2]))
          BY <5>2, <5>3, <1>0, <3>0 DEF Less
        <5>5. \A k \in 2 .. Len(h) : k \in {2, 3} /\ 2 \div 2 = 1 /\ 3 \div 2 = 1
          BY <5>2
        <5> QED
          BY <5>1, <5>2, <5>4, <5>5
      <4> QED
        BY <3>0, <4>1, <4>2
    <3> QED
      BY <2>2, <3>1, <3>2 DEF Ordered
  <2> QED
    BY <2>3, <2>4
<1> QED
  BY <1>1, <1>2

LEMMA PushOrders ==
    ASSUME NEW h \in Seq(Entries), Len(h) <= 3, NEW x \in Entries,
           Ordered(h), Numbers(h), x.loss # NaN, Distinct(Append(h, x))
    PROVE  Ordered(Push(h, x))
<1> DEFINE g == Append(h, x)
<1>1. /\ g \in Seq(Entries) /\ Len(g) = Len(h) + 1 /\ Len(h) \in Nat
      /\ \A k \in 1 .. Len(h) : g[k] = h[k]
      /\ g[Len(h) + 1] = x
  BY PushFacts, LenProperties
<1> HIDE DEF g
<1>2. Numbers(g)
  BY <1>1 DEF Numbers
<1>3. OrderedBut(g, Len(g))
  BY <1>1 DEF Ordered, OrderedBut
<1>4. Distinct(g)
  BY DEF g
<1>5. Len(g) \in 1 .. 4 /\ Len(g) \in 1 .. Len(g) /\ Childless(g, Len(g))
  BY <1>1 DEF Childless
<1>6. Ordered(Rise(g, Len(g)))
  BY <1>1, <1>2, <1>3, <1>4, <1>5, RiseOrders
<1> QED
  BY <1>1, <1>6 DEF Push, g

\* In a heap of four the root is worst; popping it leaves the other three.
LEMMA PopFacts ==
    ASSUME NEW h \in Seq(Entries), Len(h) = 4
    PROVE  /\ PopWorst(h) \in Seq(Entries) /\ Len(PopWorst(h)) = 3
           /\ \A k \in 1 .. 3 : \E j \in 2 .. 4 : PopWorst(h)[k] = h[j]
           /\ Distinct(h) => Distinct(PopWorst(h))
           /\ Ordered(h) /\ Numbers(h) /\ Distinct(h) => Ordered(PopWorst(h))
<1> DEFINE child == IF Less(h[2], h[3]) THEN 2 ELSE 3
           cut == SubSeq(h, 1, 3)
           one == [cut EXCEPT ![1] = h[child]]
           g == [one EXCEPT ![child] = h[4]]
<1>1. child \in {2, 3} /\ PopWorst(h) = Rise(g, child)
  BY DEF PopWorst
<1>2. h[2] \in Entries /\ h[3] \in Entries /\ h[4] \in Entries /\ h[1] \in Entries
  <2>1. \A k \in 1 .. Len(h) : h[k] \in Entries
    BY ElementOfSeq
  <2> QED
    BY <2>1
<1>3. cut \in Seq(Entries) /\ Len(cut) = 3 /\ cut[1] = h[1] /\ cut[2] = h[2] /\ cut[3] = h[3]
  <2>1. \A k \in 1 .. 3 : h[k] \in Entries
    BY <1>2
  <2>2. 1 \in 1 .. Len(h) + 1 /\ 3 \in 0 .. Len(h)
    OBVIOUS
  <2> QED
    BY <2>1, <2>2, SubSeqProperties
<1>4. /\ one \in Seq(Entries) /\ Len(one) = 3
      /\ one[1] = h[child] /\ one[2] = h[2] /\ one[3] = h[3]
  <2> HIDE DEF child, cut
  <2> QED
    BY <1>1, <1>2, <1>3, ExceptSeq
<1>5. /\ g \in Seq(Entries) /\ Len(g) = 3
      /\ g[1] = h[child] /\ g[child] = h[4] /\ \A k \in {2, 3} : k # child => g[k] = h[k]
  <2> HIDE DEF child, one
  <2> QED
    BY <1>1, <1>2, <1>4, ExceptSeq
<1>6. Shuffled(Rise(g, child), g)
  <2> HIDE DEF g, child, one, cut
  <2>1. child \in 1 .. Len(g) /\ Len(g) <= 4
    BY <1>1, <1>5
  <2>2. g \in Seq(Entries)
    BY <1>5
  <2> QED
    BY <2>1, <2>2, RiseFacts
<1>7. \A k \in 1 .. 3 : \E j \in 2 .. 4 : g[k] = h[j]
  <2> HIDE DEF g, child
  <2> QED
    BY <1>1, <1>5
<1>8. Distinct(h) => Distinct(g)
  <2> HIDE DEF g, child
  <2> QED
    BY <1>1, <1>5 DEF Distinct
<1>9. ASSUME Ordered(h), Numbers(h), Distinct(h) PROVE Ordered(Rise(g, child))
  <2>1. Numbers(g)
    <3> HIDE DEF g, child
    <3> QED BY <1>5, <1>7, <1>9 DEF Numbers
  <2>2. \A k \in 1 .. 4 : h[k].loss \in Nat /\ h[k].epoch \in Nat
    BY <1>9, NumberEntries
  <2>3. ~Less(h[5 - child], h[child])
    BY <2>2 DEF Less
  <2>4. \A k \in 2 .. 3 : k # child => ~Less(g[k], g[k \div 2])
    <3>1. \A k \in 2 .. 3 : k # child => k = 5 - child /\ k \div 2 = 1
      BY <1>1
    <3> HIDE DEF g, child
    <3> QED
      BY <1>1, <1>5, <2>3, <3>1
  <2>5. child \in 1 .. 3 /\ Len(g) = 3 /\ 3 \in 1 .. 4 /\ Childless(g, child) /\ Distinct(g)
    <3> HIDE DEF g, child
    <3> QED BY <1>1, <1>5, <1>8, <1>9 DEF Childless
  <2>6. OrderedBut(g, child)
    <3> HIDE DEF g, child
    <3> QED BY <1>5, <2>4 DEF OrderedBut
  <2> HIDE DEF g, child
  <2> QED
    BY <1>5, <2>1, <2>5, <2>6, RiseOrders
<1> HIDE DEF g, child
<1> QED
  BY <1>1, <1>5, <1>6, <1>7, <1>8, <1>9 DEF Shuffled

LEMMA RootIsWorst ==
    ASSUME NEW h \in Seq(Entries), Len(h) = 4, Ordered(h), Numbers(h)
    PROVE  \A k \in 1 .. 4 : h[k].loss <= h[1].loss
<1>1. \A k \in 1 .. 4 : h[k].loss \in Nat /\ h[k].epoch \in Nat
  BY NumberEntries
<1>2. ~Less(h[2], h[1]) /\ ~Less(h[3], h[1]) /\ ~Less(h[4], h[2])
  <2>1. 2 \div 2 = 1 /\ 3 \div 2 = 1 /\ 4 \div 2 = 2
    OBVIOUS
  <2> QED
    BY <2>1 DEF Ordered
<1> QED
  BY <1>1, <1>2 DEF Less, Numbers

-----------------------------------------------------------------------------
\* Types, whatever the losses are

HeapSize == IF pc \in {"evict", "evict_optim"} THEN Len(heap) = 4 ELSE Len(heap) <= 3

LEMMA NewFile ==
    ASSUME NEW l \in Nat \cup {NaN}, NEW e \in Epochs, kills \in Nat
    PROVE  File(l, e) \in [loss : Nat \cup {NaN}, epoch : Epochs, run : Nat]
<1>1. Rounded(l) \in Nat \cup {NaN}
  BY DEF Rounded, NaN
<1> QED
  BY <1>1 DEF File

LEMMA TypesInit == Init => TypeOK /\ HeapSize
<1> SUFFICES ASSUME Init PROVE TypeOK /\ HeapSize
  OBVIOUS
<1>1. <<>> \in Seq(Entries) /\ Len(<<>>) = 0
  BY EmptySeq
<1>2. 0 \in Epochs /\ 0 \in 0 .. MaxKills /\ 0 \in Nat
  BY TrainingAssumption DEF Epochs
<1> QED
  BY <1>1, <1>2 DEF Init, TypeOK, HeapSize, Entries

LEMMA TypesNext ==
    ASSUME IInv, TypeOK, HeapSize, [Next]_vars
    PROVE  TypeOK' /\ HeapSize'
<1>0. /\ epoch \in Nat /\ NumEpochs \in Nat \ {0} /\ kills \in Nat /\ MaxKills \in Nat
      /\ heap \in Seq(Entries) /\ <<>> \in Seq(Entries) /\ Len(<<>>) = 0
      /\ loss \in Nat \cup {NaN} /\ epoch \in Epochs
      /\ File(loss, epoch) \in [loss : Nat \cup {NaN}, epoch : Epochs, run : Nat]
  BY TrainingAssumption, EmptySeq, NewFile DEF TypeOK, Entries, Epochs
<1>1. CASE Start
  <2>1. ResumeEpoch(models) \in Epochs
    BY <1>0, <1>1, ResumesAbove DEF Start, Epochs
  <2>2. loss' \in Nat \cup {NaN}
    BY <1>1, ResumesAbove DEF Start, TypeOK
  <2> QED
    BY <1>0, <1>1, <2>1, <2>2 DEF Start, disk, TypeOK, HeapSize, Entries
<1>2. CASE TrainEpoch
  <2>1. loss' \in Nat \cup {NaN}
    BY <1>2, TrainingAssumption DEF TrainEpoch
  <2> QED
    BY <1>2, <2>1 DEF TrainEpoch, disk, TypeOK, HeapSize
<1>3. CASE SaveOptim
  <2>1. optims' \subseteq [loss : Nat \cup {NaN}, epoch : Epochs, run : Nat]
    BY <1>0, <1>3 DEF SaveOptim, Put, TypeOK
  <2> QED
    BY <1>3, <2>1 DEF SaveOptim, TypeOK, HeapSize
<1>4. CASE SaveModel
  <2> DEFINE x == [loss |-> loss, epoch |-> epoch]
  <2>1. x \in Entries
    BY <1>0 DEF Entries
  <2>2. Len(heap) <= 3
    BY <1>4 DEF SaveModel, HeapSize
  <2>3. Push(heap, x) \in Seq(Entries) /\ Len(Push(heap, x)) = Len(heap) + 1
    BY <1>0, <2>1, <2>2, PushFacts DEF Shuffled
  <2>4. heap' = Push(heap, x)
    BY <1>4 DEF SaveModel
  <2>5. models' \subseteq [loss : Nat \cup {NaN}, epoch : Epochs, run : Nat]
    BY <1>0, <1>4 DEF SaveModel, Put, TypeOK
  <2>6. best' \in Nat \cup {NaN}
    <3>1. Rounded(loss) \in Nat \cup {NaN}
      BY <1>0 DEF Rounded, NaN
    <3> QED
      BY <1>4, <3>1 DEF SaveModel, Lower, TypeOK
  <2>7. HeapSize'
    <3>1. Len(heap) \in Nat
      BY <1>0, LenProperties
    <3>2. Len(heap') = Len(heap) + 1
      BY <2>3, <2>4
    <3>3. IF Len(heap') > 3 THEN pc' = "evict" ELSE pc' = "log"
      BY <1>4 DEF SaveModel
    <3> QED
      BY <2>2, <3>1, <3>2, <3>3 DEF HeapSize
  <2>8. heap' \in Seq(Entries)
    BY <2>3, <2>4
  <2>9. TypeOK'
    BY <1>4, <2>5, <2>6, <2>8 DEF SaveModel, TypeOK, Entries
  <2> QED
    BY <2>7, <2>9
<1>5. CASE EvictModel
  BY <1>5 DEF EvictModel, Unlink, TypeOK, HeapSize
<1>6. CASE EvictOptim
  <2>1. Len(heap) = 4
    BY <1>6 DEF EvictOptim, HeapSize
  <2>2. heap' \in Seq(Entries) /\ Len(heap') = 3
    BY <1>0, <1>6, <2>1, PopFacts DEF EvictOptim
  <2> QED
    BY <1>6, <2>2 DEF EvictOptim, Unlink, TypeOK, HeapSize, Entries
<1>7. CASE AppendLog
  <2>1. epoch' \in Epochs
    BY <1>0, <1>7 DEF AppendLog, Epochs
  <2> QED
    BY <1>0, <1>7, <2>1 DEF AppendLog, TypeOK, HeapSize
<1>8. CASE FinalModel
  <2>1. models' \subseteq [loss : Nat \cup {NaN}, epoch : Epochs, run : Nat]
    BY <1>0, <1>8 DEF FinalModel, Put, TypeOK
  <2> QED
    BY <1>0, <1>8, <2>1 DEF FinalModel, TypeOK, HeapSize, Entries
<1>9. CASE Kill
  <2>1. kills' \in 0 .. MaxKills
    BY <1>0, <1>9 DEF Kill
  <2> QED
    BY <1>0, <1>9, <2>1 DEF Kill, disk, TypeOK, HeapSize, Entries
<1>10. CASE UNCHANGED vars
  BY <1>10 DEF vars, TypeOK, HeapSize
<1> QED
  BY <1>1, <1>2, <1>3, <1>4, <1>5, <1>6, <1>7, <1>8, <1>9, <1>10 DEF Next

\* Types of every training: the heap of train_top3 holds at most four entries.
THEOREM TrainingTypes == Spec => []TypeOK
<1>1. Init => TypeOK /\ HeapSize
  BY TypesInit
<1>2. IInv /\ TypeOK /\ HeapSize /\ [Next]_vars => TypeOK' /\ HeapSize'
  BY TypesNext
<1> QED
  BY <1>1, <1>2, TrainingInvariant, PTL DEF Spec

-----------------------------------------------------------------------------
\* The best checkpoint, where no loss is NaN

\* The heap orders what this run has saved, epoch by epoch.
HeapOK == Ordered(heap) /\ Distinct(heap) /\ Numbers(heap)

HeapEpochs ==
    \A k \in 1 .. Len(heap) :
        /\ heap[k].epoch <= epoch
        /\ pc \in {"epoch", "optim", "model"} => heap[k].epoch < epoch

\* Every entry has its file, until the worst one's is removed.
Saved(k) == File(heap[k].loss, heap[k].epoch) \in models
HeapFiles ==
    \A k \in 1 .. Len(heap) : (pc = "evict_optim" /\ k = 1) \/ Saved(k)

\* best is the lowest loss in a name that is still there.
BestOK ==
    /\ loss # NaN
    /\ best = NaN => models = {}
    /\ best # NaN => \E f \in models : f.loss = best
    /\ \A f \in models : f.loss # NaN /\ best <= f.loss
    /\ pc \in {"evict", "evict_optim", "log", "final_optim", "final_model"} =>
         best # NaN /\ best <= Rounded(loss)

BInv == TypeOK /\ HeapSize /\ HeapOK /\ HeapEpochs /\ HeapFiles /\ BestOK

\* Every nonempty set of naturals has a least element: the initial segments
\* below its elements are finite sets, which inclusion orders well.
LEMMA LeastNat ==
    ASSUME NEW S \in SUBSET Nat, S # {}
    PROVE  \E m \in S : \A k \in S : m <= k
<1> DEFINE T == {1 .. n : n \in S}
<1>1. IsWellFoundedOn(StrictSubsetOrdering(Nat), FiniteSubsetsOf(Nat))
  BY FS_StrictSubsetOrderingWellFounded
<1>2. T \subseteq FiniteSubsetsOf(Nat)
  <2>1. \A n \in S : IsFiniteSet(1 .. n)
    BY FS_Interval
  <2>2. \A n \in S : 1 .. n \in SUBSET Nat
    OBVIOUS
  <2> QED
    BY <2>1, <2>2 DEF FiniteSubsetsOf
<1>3. T # {}
  OBVIOUS
<1>4. PICK x \in T : \A y \in T : <<y, x>> \notin StrictSubsetOrdering(Nat)
  <2> HIDE DEF T
  <2> QED
    BY <1>1, <1>2, <1>3, WFMin
<1>5. PICK m \in S : x = 1 .. m
  BY <1>4
<1>6. ASSUME NEW k \in S, k < m PROVE FALSE
  <2>1. /\ 1 .. k \in T /\ 1 .. k \subseteq 1 .. m
        /\ 1 .. k \in SUBSET Nat /\ 1 .. m \in SUBSET Nat
    BY <1>6
  <2>2. m \in 1 .. m /\ m \notin 1 .. k
    BY <1>6
  <2>3. <<1 .. k, 1 .. m>> \in StrictSubsetOrdering(Nat)
    BY <2>1, <2>2 DEF StrictSubsetOrdering
  <2> QED
    BY <1>4, <1>5, <2>1, <2>3
<1> QED
  BY <1>6

Scored(files) == {f \in files : f.loss # NaN}
First(f, files) ==
    \A g \in Scored(files) : \/ f.loss < g.loss
                             \/ f.loss = g.loss /\ f.epoch <= g.epoch

\* find_best_checkpoint finds the lowest loss.
LEMMA FindsBest ==
    ASSUME TypeOK, BestOK, best # NaN
    PROVE  models # {} /\ FindBest(models).loss = best
<1> DEFINE Good == {f \in models : f.loss = best}
           S == {f.epoch : f \in Good}
<1>1. /\ \A f \in models : f.loss \in Nat /\ f.epoch \in Nat /\ best <= f.loss
      /\ best \in Nat
  BY TrainingAssumption DEF TypeOK, BestOK, Epochs
<1>2. Good # {} /\ S \in SUBSET Nat /\ S # {}
  BY <1>1 DEF BestOK
<1>3. PICK m \in S : \A k \in S : m <= k
  <2> HIDE DEF S
  <2> QED
    BY <1>2, LeastNat
<1>4. PICK f \in Good : \A g \in Good : f.epoch <= g.epoch
  BY <1>3
<1>5. f \in models /\ f.loss = best
  BY <1>4
<1>6. Scored(models) = models
  BY DEF BestOK, Scored
<1>7. \A g \in models : \/ f.loss < g.loss
                        \/ f.loss = g.loss /\ f.epoch <= g.epoch
  <2>1. \A g \in models : g.loss = best => f.epoch <= g.epoch
    BY <1>4
  <2>2. \A g \in models : best < g.loss \/ (best = g.loss /\ f.epoch <= g.epoch)
    BY <1>1, <2>1
  <2> QED
    BY <1>5, <2>2
<1>8. f \in Scored(models) /\ First(f, models)
  BY <1>5, <1>6, <1>7 DEF First
<1>9. FindBest(models) \in Scored(models) /\ First(FindBest(models), models)
  BY <1>8 DEF FindBest, Scored, First
<1>10. FindBest(models) \in models /\ FindBest(models).loss <= f.loss
  <2>1. FindBest(models) \in models
    BY <1>6, <1>9
  <2>2. FindBest(models).loss < f.loss \/ FindBest(models).loss = f.loss
    BY <1>8, <1>9 DEF First
  <2> QED
    BY <1>1, <1>5, <2>1, <2>2
<1> QED
  BY <1>1, <1>5, <1>10

LEMMA BestInit == Init => BInv
<1> SUFFICES ASSUME Init PROVE BInv
  OBVIOUS
<1>1. TypeOK /\ HeapSize
  BY TypesInit
<1>2. heap = <<>> /\ Len(heap) = 0 /\ models = {} /\ pc = "idle" /\ loss = 0 /\ best = NaN
  BY EmptySeq DEF Init
<1> QED
  BY <1>1, <1>2
  DEF BInv, HeapOK, Ordered, Distinct, Numbers, HeapEpochs, HeapFiles, BestOK, NaN

\* Saving, by a run in the loop or behind it.
LEMMA BestSaved ==
    ASSUME IInv, BInv, models' = Put(models, Current),
           \/ best' = best /\ best # NaN /\ best <= Rounded(loss)
           \/ best' = Lower(Rounded(loss), best),
           loss' = loss
    PROVE  /\ \E f \in models' : f.loss = best'
           /\ \A f \in models' : f.loss # NaN /\ best' <= f.loss
           /\ best' # NaN /\ best' <= Rounded(loss)
<1>1. Current.loss = Rounded(loss) /\ Rounded(loss) \in Nat /\ loss \in Nat
  BY DEF BInv, BestOK, TypeOK, Rounded, NaN, Current, File
<1>2. best \in Nat \/ best = -1
  BY DEF BInv, TypeOK, NaN
<1>3. /\ best' = best \/ best' = Rounded(loss)
      /\ best' \in Nat /\ best' <= Rounded(loss)
      /\ best # NaN => best' <= best
  BY <1>1, <1>2 DEF Lower, NaN
<1>4. \A f \in models : f.loss \in Nat /\ best <= f.loss
  BY DEF BInv, TypeOK, BestOK
<1>5. \A f \in models' : f \in models \/ f = Current
  BY DEF Put
<1>6. \A f \in models' : f.loss \in Nat /\ best' <= f.loss
  <2> SUFFICES ASSUME NEW f \in models' PROVE f.loss \in Nat /\ best' <= f.loss
    OBVIOUS
  <2>1. CASE f = Current
    BY <1>1, <1>3, <2>1
  <2>2. CASE f \in models
    <3>1. best # NaN
      BY <2>2 DEF BInv, BestOK
    <3> QED
      BY <1>2, <1>3, <1>4, <2>2, <3>1 DEF NaN
  <2> QED
    BY <1>5, <2>1, <2>2
<1>7. \E f \in models' : f.loss = best'
  <2>1. Current \in models'
    BY DEF Put
  <2>2. CASE best' = Rounded(loss)
    BY <1>1, <2>1, <2>2
  <2>3. CASE best' # Rounded(loss)
    <3>1. PICK f \in models : f.loss = best
      BY <1>2, <1>3, <2>3 DEF BInv, BestOK, NaN
    <3>2. best' = best
      BY <1>3, <2>3
    <3>3. f.loss # Current.loss
      BY <1>1, <2>3, <3>1, <3>2
    <3>4. f \in models'
      BY <3>1, <3>3 DEF Put, SameName
    <3> QED
      BY <3>1, <3>2, <3>4
  <2> QED
    BY <2>2, <2>3
<1> QED
  BY <1>3, <1>6, <1>7 DEF NaN

\* Files other than the one just saved keep their names and stay.
LEMMA StaysSaved ==
    ASSUME IInv, BInv, models' = Put(models, Current), UNCHANGED kills,
           NEW k \in 1 .. Len(heap), Saved(k)
    PROVE  File(heap[k].loss, heap[k].epoch) \in models'
<1> DEFINE f == File(heap[k].loss, heap[k].epoch)
<1>1. f \in models
  BY DEF Saved
<1>2. SameName(f, Current) => f = Current
  <2>1. f.epoch = heap[k].epoch /\ Current.epoch = epoch
    BY DEF File, Current
  <2>2. f.loss = Rounded(heap[k].loss) /\ f.run = kills /\ Current.loss = Rounded(loss)
        /\ Current.run = kills
    BY DEF File, Current
  <2> QED
    BY <2>1, <2>2 DEF SameName, File, Current
<1> HIDE DEF f
<1>3. f \in Put(models, Current)
  BY <1>1, <1>2 DEF Put, SameName
<1> QED
  BY <1>3 DEF f

LEMMA BestNext ==
    ASSUME NaN \notin Losses, IInv, BInv, [Next]_vars
    PROVE  BInv'
<1>0. /\ TypeOK' /\ HeapSize'
      /\ epoch \in Nat /\ NumEpochs \in Nat \ {0} /\ kills \in Nat
      /\ heap \in Seq(Entries) /\ Len(heap) \in Nat
      /\ loss \in Nat /\ epoch \in Epochs
      /\ \A k \in 1 .. Len(heap) : heap[k] \in Entries
      /\ \A f \in models : f.loss \in Nat
  <2>1. TypeOK' /\ HeapSize'
    BY TypesNext DEF BInv
  <2>2. heap \in Seq(Entries) /\ Len(heap) \in Nat
    BY LenProperties DEF BInv, TypeOK, Entries
  <2>3. \A k \in 1 .. Len(heap) : heap[k] \in Entries
    BY <2>2, ElementOfSeq
  <2> QED
    BY <2>1, <2>2, <2>3, TrainingAssumption DEF BInv, TypeOK, Epochs, BestOK
<1>1. CASE Start
  <2>1. Len(heap') = 0 /\ heap' = <<>>
    BY <1>1, EmptySeq DEF Start
  <2>2. loss' # NaN
    BY <1>0, <1>1, ResumesAbove DEF Start, NaN
  <2>3. BestOK'
    BY <1>1, <2>2 DEF Start, disk, BInv, BestOK
  <2> QED
    BY <1>0, <2>1, <2>3
    DEF BInv, HeapOK, Ordered, Distinct, Numbers, HeapEpochs, HeapFiles
<1>2. CASE TrainEpoch
  <2>1. loss' # NaN
    BY <1>0, <1>2 DEF TrainEpoch, NaN
  <2>2. /\ UNCHANGED <<heap, epoch, models, kills, best>>
        /\ pc = "epoch" /\ pc' = "optim"
    BY <1>2 DEF TrainEpoch, disk
  <2>3. HeapOK' /\ HeapEpochs'
    BY <2>2 DEF BInv, HeapOK, Ordered, Distinct, Numbers, HeapEpochs
  <2>4. HeapFiles'
    BY <2>2 DEF BInv, HeapFiles, Saved, File
  <2>5. BestOK'
    BY <2>1, <2>2 DEF BInv, BestOK
  <2> QED
    BY <1>0, <2>3, <2>4, <2>5 DEF BInv
<1>3. CASE SaveOptim
  <2>2. /\ UNCHANGED <<heap, epoch, models, kills, best, loss>>
        /\ \/ pc = "optim" /\ pc' = "model"
           \/ pc = "final_optim" /\ pc' = "final_model"
    BY <1>3 DEF SaveOptim
  <2>3. HeapOK' /\ HeapEpochs'
    BY <2>2 DEF BInv, HeapOK, Ordered, Distinct, Numbers, HeapEpochs
  <2>4. HeapFiles'
    BY <2>2 DEF BInv, HeapFiles, Saved, File
  <2>5. BestOK'
    BY <2>2 DEF BInv, BestOK
  <2> QED
    BY <1>0, <2>3, <2>4, <2>5 DEF BInv
<1>4. CASE SaveModel
  <2> DEFINE x == [loss |-> loss, epoch |-> epoch]
             g == Append(heap, x)
  <2>1. /\ UNCHANGED <<epoch, loss, kills>> /\ pc = "model" /\ pc' \in {"evict", "log"}
        /\ models' = Put(models, Current) /\ heap' = Push(heap, x)
        /\ best' = Lower(Rounded(loss), best)
    BY <1>4 DEF SaveModel, Current
  <2>2. x \in Entries /\ x.loss # NaN /\ x.loss = loss /\ x.epoch = epoch
    BY <1>0 DEF Entries, NaN
  <2>3. Len(heap) <= 3
    BY <2>1 DEF BInv, HeapSize
  <2>4. /\ Shuffled(heap', g) /\ Len(g) = Len(heap) + 1 /\ g \in Seq(Entries)
        /\ \A k \in 1 .. Len(heap) : g[k] = heap[k]
        /\ g[Len(heap) + 1] = x
    BY <1>0, <2>1, <2>2, <2>3, PushFacts
  <2>5. Distinct(g)
    <3>1. \A k \in 1 .. Len(heap) : heap[k].epoch < epoch /\ heap[k].epoch \in Nat
      BY <1>0, <2>1 DEF BInv, HeapEpochs, Entries, Epochs
    <3>2. \A k \in 1 .. Len(g) : k \in 1 .. Len(heap) \/ k = Len(heap) + 1
      BY <1>0, <2>4
    <3> HIDE DEF g, x
    <3> QED
      BY <1>0, <2>2, <2>4, <3>1, <3>2 DEF BInv, HeapOK, Distinct
  <2>6. Ordered(heap')
    BY <1>0, <2>1, <2>2, <2>3, <2>5, PushOrders DEF BInv, HeapOK
  <2>7. \A k \in 1 .. Len(heap') : \/ \E j \in 1 .. Len(heap) : heap'[k] = heap[j]
                                   \/ heap'[k] = x
    <3>1. \A k \in 1 .. Len(g) : k \in 1 .. Len(heap) \/ k = Len(heap) + 1
      BY <1>0, <2>4
    <3> HIDE DEF g, x
    <3> QED
      BY <2>4, <3>1 DEF Shuffled
  <2>8. HeapOK'
    <3> HIDE DEF g, x
    <3> QED
      BY <2>2, <2>4, <2>5, <2>6, <2>7 DEF Shuffled, HeapOK, Numbers, BInv
  <2>9. HeapEpochs'
    <3> HIDE DEF g, x
    <3> QED
      BY <1>0, <2>1, <2>2, <2>7 DEF HeapEpochs, BInv
  <2>10. HeapFiles'
    <3>1. \A k \in 1 .. Len(heap) : File(heap[k].loss, heap[k].epoch) \in models'
      BY <2>1, StaysSaved DEF BInv, HeapFiles
    <3>2. File(x.loss, x.epoch) \in models'
      BY <2>1, <2>2 DEF Put, Current
    <3> HIDE DEF g, x
    <3>3. \A k \in 1 .. Len(heap') : File(heap'[k].loss, heap'[k].epoch) \in models'
      BY <2>7, <3>1, <3>2
    <3> QED
      BY <2>1, <3>3 DEF HeapFiles, Saved, File
  <2>11. BestOK'
    BY <1>0, <2>1, BestSaved DEF BestOK, BInv
  <2> QED
    BY <1>0, <2>8, <2>9, <2>10, <2>11 DEF BInv
<1>5. CASE EvictModel
  <2>1. /\ UNCHANGED <<heap, epoch, kills, best, loss>>
        /\ pc = "evict" /\ pc' = "evict_optim"
        /\ models' = Unlink(models, Worst)
    BY <1>5 DEF EvictModel
  <2>2. Len(heap) = 4
    BY <2>1 DEF BInv, HeapSize
  <2>3. HeapOK' /\ HeapEpochs'
    BY <2>1 DEF BInv, HeapOK, Ordered, Distinct, Numbers, HeapEpochs
  <2>4. \A k \in 2 .. 4 : File(heap[k].loss, heap[k].epoch) \in models'
    <3> SUFFICES ASSUME NEW k \in 2 .. 4
                 PROVE  File(heap[k].loss, heap[k].epoch) \in models'
      OBVIOUS
    <3>1. heap[k].epoch # heap[1].epoch
      BY <2>2 DEF BInv, HeapOK, Distinct
    <3>2. ~SameName(File(heap[k].loss, heap[k].epoch), Worst)
      BY <3>1 DEF SameName, File, Worst
    <3>3. File(heap[k].loss, heap[k].epoch) \in models
      BY <2>1, <2>2 DEF BInv, HeapFiles, Saved
    <3> QED
      BY <2>1, <3>2, <3>3 DEF Unlink, SameName
  <2>5. HeapFiles'
    BY <2>1, <2>2, <2>4 DEF HeapFiles, Saved, File
  <2>6. models' \subseteq models
    BY <2>1 DEF Unlink
  <2>7. best # NaN /\ best \in Nat /\ best <= Rounded(loss)
    BY <2>1 DEF BInv, TypeOK, BestOK
  <2>8. \E f \in models' : f.loss = best
    <3>1. PICK f \in models : f.loss = best
      BY <2>7 DEF BInv, BestOK
    <3>2. CASE f \in models'
      BY <3>1, <3>2
    <3>3. CASE f \notin models'
      <4>1. SameName(f, Worst)
        BY <2>1, <3>1, <3>3 DEF Unlink, SameName
      <4>2. Rounded(heap[1].loss) = best
        BY <3>1, <4>1 DEF SameName, Worst, File
      <4> DEFINE f2 == File(heap[2].loss, heap[2].epoch)
      <4>3. f2 \in models' /\ f2.loss = Rounded(heap[2].loss)
        BY <2>4 DEF File
      <4>4. heap[2].loss \in Nat /\ heap[1].loss \in Nat /\ heap[2].loss <= heap[1].loss
        BY <1>0, <2>2, RootIsWorst, NumberEntries DEF BInv, HeapOK
      <4>5. f2.loss <= best
        BY <4>2, <4>3, <4>4 DEF Rounded, NaN
      <4>6. best <= f2.loss /\ f2.loss \in Nat
        BY <1>0, <2>6, <4>3 DEF BInv, BestOK
      <4> HIDE DEF f2
      <4> QED
        BY <2>7, <4>3, <4>5, <4>6
    <3> QED
      BY <3>2, <3>3
  <2>9. BestOK'
    BY <2>1, <2>6, <2>7, <2>8 DEF BInv, BestOK
  <2> QED
    BY <1>0, <2>3, <2>5, <2>9 DEF BInv
<1>6. CASE EvictOptim
  <2>1. /\ UNCHANGED <<models, epoch, kills, best, loss>>
        /\ pc = "evict_optim" /\ pc' = "log"
        /\ heap' = PopWorst(heap)
    BY <1>6 DEF EvictOptim
  <2>2. Len(heap) = 4
    BY <2>1 DEF BInv, HeapSize
  <2>3. /\ Len(heap') = 3 /\ Distinct(heap') /\ Ordered(heap')
        /\ \A k \in 1 .. 3 : \E j \in 2 .. 4 : heap'[k] = heap[j]
    BY <1>0, <2>1, <2>2, PopFacts DEF BInv, HeapOK
  <2>4. HeapOK'
    BY <2>2, <2>3 DEF BInv, HeapOK, Numbers
  <2>5. HeapEpochs'
    BY <2>1, <2>2, <2>3 DEF BInv, HeapEpochs
  <2>6. HeapFiles'
    <3>1. \A j \in 2 .. 4 : File(heap[j].loss, heap[j].epoch) \in models
      BY <2>1, <2>2 DEF BInv, HeapFiles, Saved
    <3>2. \A k \in 1 .. 3 : File(heap'[k].loss, heap'[k].epoch) \in models
      BY <2>3, <3>1
    <3> QED
      BY <2>1, <2>3, <3>2 DEF HeapFiles, Saved, File
  <2>7. BestOK'
    BY <2>1 DEF BInv, BestOK
  <2> QED
    BY <1>0, <2>4, <2>5, <2>6, <2>7 DEF BInv
<1>7. CASE AppendLog
  <2>1. /\ UNCHANGED <<heap, models, kills, best, loss>>
        /\ pc = "log"
        /\ \/ pc' = "epoch" /\ epoch' = epoch + 1
           \/ pc' = "final_optim" /\ epoch' = epoch
    BY <1>7 DEF AppendLog
  <2>2. HeapOK'
    BY <2>1 DEF BInv, HeapOK, Ordered, Distinct, Numbers
  <2>3. HeapEpochs'
    <3>1. \A k \in 1 .. Len(heap) : heap[k].epoch \in Nat /\ heap[k].epoch <= epoch
      BY <1>0 DEF BInv, HeapEpochs, Entries, Epochs
    <3> QED
      BY <1>0, <2>1, <3>1 DEF HeapEpochs
  <2>4. HeapFiles'
    BY <2>1 DEF BInv, HeapFiles, Saved, File
  <2>5. BestOK'
    BY <2>1 DEF BInv, BestOK
  <2> QED
    BY <1>0, <2>2, <2>3, <2>4, <2>5 DEF BInv
<1>8. CASE FinalModel
  <2>1. /\ UNCHANGED <<epoch, loss, kills, best>> /\ pc = "final_model" /\ pc' = "idle"
        /\ models' = Put(models, Current) /\ heap' = <<>>
    BY <1>8 DEF FinalModel, Current
  <2>2. best' = best /\ best # NaN /\ best <= Rounded(loss)
    BY <2>1 DEF BInv, BestOK
  <2>3. BestOK'
    BY <1>0, <2>1, <2>2, BestSaved DEF BestOK, BInv
  <2>4. Len(heap') = 0
    BY <2>1, EmptySeq
  <2> QED
    BY <1>0, <2>1, <2>3, <2>4
    DEF BInv, HeapOK, Ordered, Distinct, Numbers, HeapEpochs, HeapFiles
<1>9. CASE Kill
  <2>1. Len(heap') = 0 /\ heap' = <<>> /\ UNCHANGED <<loss, models, best>> /\ pc' = "idle"
    BY <1>9, EmptySeq DEF Kill, disk
  <2>2. BestOK'
    BY <2>1 DEF BInv, BestOK
  <2> QED
    BY <1>0, <2>1, <2>2
    DEF BInv, HeapOK, Ordered, Distinct, Numbers, HeapEpochs, HeapFiles
<1>10. CASE UNCHANGED vars
  <2>1. UNCHANGED <<pc, heap, epoch, models, kills, best, loss>>
    BY <1>10 DEF vars
  <2>2. HeapOK' /\ HeapEpochs'
    BY <2>1 DEF BInv, HeapOK, Ordered, Distinct, Numbers, HeapEpochs
  <2>3. HeapFiles'
    BY <2>1 DEF BInv, HeapFiles, Saved, File
  <2>4. BestOK'
    BY <2>1 DEF BInv, BestOK
  <2> QED
    BY <1>0, <2>2, <2>3, <2>4 DEF BInv
<1> QED
  BY <1>1, <1>2, <1>3, <1>4, <1>5, <1>6, <1>7, <1>8, <1>9, <1>10 DEF Next

\* The lowest loss that any run saved stays on disk and is what
\* find_best_checkpoint returns, however many epochs, kills and restarts there
\* were; a NaN has no place in the heap's order, so no loss may be one.
THEOREM BestCheckpointSurvives == NaN \notin Losses => (Spec => []BestSurvives)
<1> SUFFICES ASSUME NaN \notin Losses PROVE Spec => []BestSurvives
  OBVIOUS
<1>1. Init => BInv
  BY BestInit
<1>2. IInv /\ BInv /\ [Next]_vars => BInv'
  BY BestNext
<1>3. BInv => BestSurvives
  BY FindsBest DEF BInv, BestSurvives
<1> QED
  BY <1>1, <1>2, <1>3, TrainingInvariant, PTL DEF Spec

=============================================================================
