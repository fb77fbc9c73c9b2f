-------------------------- MODULE WorkQueue_proofs --------------------------
(***************************************************************************)
(* The work queue keeps one worker per varloc and implements TaskBoard,    *)
(* for any numbers of workers, marks and lines and wherever they die,      *)
(* until a live holder's lock is broken; and patient waiters break none    *)
(* while nobody has died in the section.                                   *)
(***************************************************************************)
EXTENDS WorkQueue, FiniteSetTheorems, TLAPS

(* OneWorkerPerLine without its premise *)
WorkersApart ==
  \A v, w \in Workers : Engaged(v) /\ Engaged(w) /\ line[v] = line[w] => v = w

(* what holds until a live holder's lock is broken *)
LockInv == TypeOK /\ MutualExclusion /\ ClaimedLines /\ WorkersApart

(* what holds of the types also after that *)
Typed ==
  /\ TypeOK
  /\ \A m \in Marks : pc[m] \notin {"marking", "dead"} => edit[m] # "claim"

NobodyFell == \A q \in Procs : pc[q] # "fallen"

LEMMA LockTyped == LockInv => Typed
BY DEF LockInv, Typed, ClaimedLines, Intent, Procs

LEMMA EmptiedFact == DOMAIN Emptied = {} /\ Emptied \notin Whole /\ Emptied # NoFile
BY LinesAssumption, NoFileAssumption DEF Emptied, Whole

(* Picking a pending line. *)
LEMMA PickFact ==
  ASSUME Typed, NEW p \in Procs, PickPending(p)
  PROVE  \/ /\ line' = [line EXCEPT ![p] = 0]
            /\ pc' = [pc EXCEPT ![p] = "unlocking"]
         \/ \E l \in Lines : /\ queue \in Whole /\ queue[l].status = "pending"
                             /\ line' = [line EXCEPT ![p] = l]
                             /\ pc' = [pc EXCEPT ![p] = "drafting"]
<1>1. CASE FirstPending(queue) = {}
  BY <1>1 DEF PickPending, Goto
<1>2. CASE FirstPending(queue) # {}
  <2>1. PICK l \in FirstPending(queue) : /\ line' = [line EXCEPT ![p] = l]
                                         /\ pc' = [pc EXCEPT ![p] = "drafting"]
    BY <1>2 DEF PickPending, Goto
  <2>2. l \in DOMAIN queue /\ queue[l].status = "pending"
    BY <2>1 DEF FirstPending
  <2>3. queue \in Whole /\ l \in Lines
    BY <2>2, EmptiedFact DEF Typed, TypeOK, Whole
  <2> QED BY <2>1, <2>2, <2>3
<1> QED BY <1>1, <1>2

(* An edit of a line leaves an entry. *)
LEMMA RewrittenType ==
  ASSUME NEW e \in Entries, NEW p \in Procs, NEW do,
         do \in {"claim", "ok", "failed", "skip", "pending"}, do = "claim" => p \in Workers
  PROVE  Rewritten(e, do, p) \in Entries
BY DEF Rewritten, Entries, Statuses

(* A draft is the queue with one line rewritten, or empty like the queue. *)
LEMMA DraftFact ==
  ASSUME Typed, NEW p \in Procs, Draft(p)
  PROVE  \/ queue = Emptied /\ tmp' = Emptied
         \/ /\ queue \in Whole /\ tmp' \in Whole
            /\ \A l \in Lines : tmp'[l] = IF l = line[p] THEN Rewritten(queue[l], edit[p], p)
                                                         ELSE queue[l]
<1>1. CASE queue = Emptied
  BY <1>1, EmptiedFact DEF Draft, Emptied
<1>2. CASE queue \in Whole
  <2>1. DOMAIN queue = Lines /\ \A l \in Lines : queue[l] \in Entries
    BY <1>2 DEF Whole
  <2>2. edit[p] \in {"claim", "ok", "failed", "skip", "pending"}
    BY DEF Typed, TypeOK
  <2>3. edit[p] = "claim" => p \in Workers
    BY DEF Typed, Draft, Procs
  <2>4. \A l \in Lines : Rewritten(queue[l], edit[p], p) \in Entries
    BY <2>1, <2>2, <2>3, RewrittenType
  <2> QED BY <1>2, <2>1, <2>4 DEF Draft, Whole
<1> QED BY <1>1, <1>2 DEF Typed, TypeOK

(* A copy finds its draft. *)
LEMMA CopyFact ==
  ASSUME LockInv, NEW p \in Procs, Copy(p)
  PROVE  /\ pc[p] = "copying" /\ queue' = tmp /\ tmp # NoFile
         /\ pc' = [pc EXCEPT ![p] = "removing"]
BY DEF Copy, LockInv, ClaimedLines, Copying, Goto

LEMMA InitInv == Init => LockInv
<1> SUFFICES ASSUME Init PROVE LockInv
  OBVIOUS
<1> USE ProcsAssumption, LinesAssumption, PatienceAssumption DEF Init, Procs
<1>1. TypeOK
  <2>1. queue \in Whole /\ tmp = NoFile
    BY DEF Whole, Entries, Statuses
  <2>2. pc \in [Procs -> Pcs]
    BY DEF Pcs, Section, Ended
  <2>3. /\ lockdir \in BOOLEAN
        /\ edit \in [Procs -> {"claim", "ok", "failed", "skip", "pending"}]
        /\ line \in [Procs -> Lines \cup {0}]
        /\ overrun \in BOOLEAN
    OBVIOUS
  <2>4. waited \in [Procs -> 0..Patience] /\ polls \in [Procs -> 0..SectionPolls]
    OBVIOUS
  <2> QED BY <2>1, <2>2, <2>3, <2>4 DEF TypeOK
<1>2. MutualExclusion /\ Inside = {} /\ Copying = {}
  BY DEF MutualExclusion, Inside, Section, Copying
<1>3. \A w \in Workers : ~Engaged(w)
  BY DEF Engaged
<1>4. \A p \in Procs : Intent(p)
  BY DEF Intent
<1>5. ClaimedLines
  BY <1>2, <1>3, <1>4 DEF ClaimedLines
<1> QED BY <1>1, <1>2, <1>3, <1>5 DEF LockInv, WorkersApart

(* Steps keep the types. *)
LEMMA StepTyped ==
  ASSUME Typed, NEW p \in Procs, Step(p) \/ Kill(p)
  PROVE  Typed'
<1> USE PatienceAssumption, ProcsAssumption DEF Typed, TypeOK, Goto, files, lockVars, Procs
<1>0. /\ Pcs = {"marking", "locking", "refused", "working"} \cup Section \cup Ended
      /\ Section = {"picking", "drafting", "truncating", "copying", "removing", "unlocking"}
      /\ Ended = {"done", "notfound", "dead", "fallen"}
  BY DEF Pcs, Section, Ended
<1> USE <1>0
<1>1. CASE Acquire(p) BY <1>1 DEF Acquire
<1>2. CASE Refused(p) BY <1>2 DEF Refused
<1>3. CASE Sleep(p) BY <1>3 DEF Sleep
<1>4. CASE BreakLock(p)
  <2>1. waited' \in [Procs -> 0..Patience] /\ overrun' \in BOOLEAN
    BY <1>4 DEF BreakLock
  <2> QED BY <1>4, <2>1 DEF BreakLock
<1>5. CASE PickPending(p) BY <1>5, PickFact DEF PickPending
<1>6. CASE Draft(p) BY <1>6, DraftFact DEF Draft
<1>7. CASE Truncate(p) BY <1>7 DEF Truncate
<1>8. CASE Copy(p) BY <1>8 DEF Copy
<1>9. CASE Remove(p) BY <1>9 DEF Remove
<1>10. CASE Unlock(p) BY <1>10 DEF Unlock
<1>11. CASE Work(p) BY <1>11 DEF Work
<1>12. CASE Mark(p)
  <2>1. PICK l \in Lines, do \in MarkEdits :
          /\ line' = [line EXCEPT ![p] = l]
          /\ edit' = [edit EXCEPT ![p] = do]
          /\ pc' \in {[pc EXCEPT ![p] = "locking"], [pc EXCEPT ![p] = "notfound"]}
    BY <1>12 DEF Mark
  <2>2. do \in {"skip", "pending"} BY ProcsAssumption
  <2> QED BY <1>12, <2>1, <2>2 DEF Mark
<1>13. CASE Kill(p) BY <1>13 DEF Kill
<1> QED BY <1>1, <1>2, <1>3, <1>4, <1>5, <1>6, <1>7, <1>8, <1>9, <1>10, <1>11, <1>12, <1>13 DEF Step

(* Who is in the section after a step. *)
LEMMA StepMutex ==
  ASSUME LockInv, NEW p \in Procs, Step(p) \/ Kill(p), ~overrun'
  PROVE  MutualExclusion'
<1> USE DEF LockInv, TypeOK, MutualExclusion, Inside, Section, Goto, files, lockVars
<1>1. CASE Acquire(p) BY <1>1 DEF Acquire
<1>2. CASE Refused(p) BY <1>2 DEF Refused
<1>3. CASE Sleep(p) BY <1>3 DEF Sleep
<1>4. CASE BreakLock(p) BY <1>4 DEF BreakLock
<1>5. CASE PickPending(p) BY <1>5 DEF PickPending
<1>6. CASE Draft(p) BY <1>6 DEF Draft
<1>7. CASE Truncate(p) BY <1>7 DEF Truncate
<1>8. CASE Copy(p) BY <1>8, CopyFact DEF Copy
<1>9. CASE Remove(p) BY <1>9 DEF Remove
<1>10. CASE Unlock(p) BY <1>10 DEF Unlock
<1>11. CASE Work(p) BY <1>11 DEF Work
<1>12. CASE Mark(p) BY <1>12 DEF Mark
<1>13. CASE Kill(p) BY <1>13 DEF Kill, Ended
<1> QED BY <1>1, <1>2, <1>3, <1>4, <1>5, <1>6, <1>7, <1>8, <1>9, <1>10, <1>11, <1>12, <1>13 DEF Step

(* A step leaves the other processes where they are. *)
LEMMA Others ==
  ASSUME Typed, NEW p \in Procs, Step(p) \/ Kill(p), NEW q \in Procs, q # p
  PROVE  pc'[q] = pc[q] /\ edit'[q] = edit[q] /\ line'[q] = line[q]
<1> USE DEF Typed, TypeOK, Goto
<1>1. CASE Acquire(p) BY <1>1 DEF Acquire
<1>2. CASE Refused(p) BY <1>2 DEF Refused
<1>3. CASE Sleep(p) BY <1>3 DEF Sleep
<1>4. CASE BreakLock(p) BY <1>4 DEF BreakLock
<1>5. CASE PickPending(p) BY <1>5, PickFact DEF PickPending
<1>6. CASE Draft(p) BY <1>6 DEF Draft
<1>7. CASE Truncate(p) BY <1>7 DEF Truncate
<1>8. CASE Copy(p) BY <1>8 DEF Copy
<1>9. CASE Remove(p) BY <1>9 DEF Remove
<1>10. CASE Unlock(p) BY <1>10 DEF Unlock
<1>11. CASE Work(p) BY <1>11 DEF Work
<1>12. CASE Mark(p) BY <1>12 DEF Mark
<1>13. CASE Kill(p) BY <1>13 DEF Kill
<1> QED BY <1>1, <1>2, <1>3, <1>4, <1>5, <1>6, <1>7, <1>8, <1>9, <1>10, <1>11, <1>12, <1>13 DEF Step

(* Only a process in the section touches the files, and it is alone there. *)
LEMMA FilesFact ==
  ASSUME LockInv, NEW p \in Procs, Step(p) \/ Kill(p)
  PROVE  \/ UNCHANGED files
         \/ /\ Inside = {p}
            /\ Draft(p) \/ Truncate(p) \/ Copy(p) \/ Remove(p)
<1>1. CASE Draft(p) \/ Truncate(p) \/ Copy(p) \/ Remove(p)
  <2>1. p \in Inside
    BY <1>1 DEF Draft, Truncate, Copy, Remove, Inside, Section
  <2>2. \A q \in Inside : q = p
    BY <2>1 DEF LockInv, MutualExclusion
  <2> QED BY <1>1, <2>1, <2>2
<1>2. CASE ~(Draft(p) \/ Truncate(p) \/ Copy(p) \/ Remove(p))
  <2>1. \/ Acquire(p) \/ Refused(p) \/ Sleep(p) \/ BreakLock(p) \/ PickPending(p)
        \/ Unlock(p) \/ Work(p) \/ Mark(p) \/ Kill(p)
    BY <1>2 DEF Step
  <2> USE DEF files, lockVars
  <2>2. Acquire(p) \/ Refused(p) \/ Sleep(p) \/ BreakLock(p) => UNCHANGED <<queue, tmp>>
    BY DEF Acquire, Refused, Sleep, BreakLock
  <2>3. PickPending(p) \/ Work(p) => UNCHANGED <<queue, tmp>>
    BY DEF PickPending, Work
  <2>4. Unlock(p) \/ Kill(p) => UNCHANGED <<queue, tmp>>
    BY DEF Unlock, Kill
  <2>5. Mark(p) => UNCHANGED <<queue, tmp>>
    BY DEF Mark
  <2> QED BY <2>1, <2>2, <2>3, <2>4, <2>5
<1> QED BY <1>1, <1>2

(* The intent of the process that steps. *)
LEMMA StepIntent ==
  ASSUME LockInv, NEW p \in Procs, Step(p) \/ Kill(p)
  PROVE  Intent(p)'
<1> USE ProcsAssumption, LinesAssumption DEF LockInv, TypeOK, ClaimedLines, Intent, Goto, files, lockVars, Procs
<1>1. CASE Acquire(p) BY <1>1 DEF Acquire
<1>2. CASE Refused(p) BY <1>2 DEF Refused
<1>3. CASE Sleep(p) BY <1>3 DEF Sleep
<1>4. CASE BreakLock(p) BY <1>4 DEF BreakLock
<1>5. CASE PickPending(p)
  <2>1. UNCHANGED <<queue, edit>> /\ pc[p] = "picking"
    BY <1>5 DEF PickPending
  <2>2. CASE /\ line' = [line EXCEPT ![p] = 0]
             /\ pc' = [pc EXCEPT ![p] = "unlocking"]
    BY <2>1, <2>2
  <2>3. ASSUME NEW l \in Lines, queue \in Whole, queue[l].status = "pending",
               line' = [line EXCEPT ![p] = l],
               pc' = [pc EXCEPT ![p] = "drafting"]
        PROVE  Intent(p)'
    BY <2>1, <2>3, EmptiedFact
  <2> QED BY <1>5, <2>2, <2>3, PickFact, LockTyped
<1>6. CASE Draft(p) BY <1>6 DEF Draft
<1>7. CASE Truncate(p) BY <1>7 DEF Truncate
<1>8. CASE Copy(p) BY <1>8, CopyFact DEF Copy
<1>9. CASE Remove(p) BY <1>9 DEF Remove
<1>10. CASE Unlock(p) BY <1>10 DEF Unlock
<1>11. CASE Work(p) BY <1>11 DEF Work
<1>12. CASE Mark(p) BY <1>12 DEF Mark
<1>13. CASE Kill(p) BY <1>13 DEF Kill, Ended, Section
<1> QED BY <1>1, <1>2, <1>3, <1>4, <1>5, <1>6, <1>7, <1>8, <1>9, <1>10, <1>11, <1>12, <1>13 DEF Step

(* A step that leaves the files alone engages nobody and starts no copy. *)
LEMMA Quiet ==
  ASSUME LockInv, NEW p \in Procs, Step(p) \/ Kill(p), UNCHANGED files,
         ~(Draft(p) \/ Truncate(p) \/ Copy(p) \/ Remove(p)),
         Engaged(p)'
  PROVE  Engaged(p) /\ line'[p] = line[p] /\ p \notin Copying /\ p \notin Copying'
<1> USE ProcsAssumption DEF LockInv, TypeOK, ClaimedLines, Intent, Goto, Engaged, Copying, Procs
<1>1. CASE Acquire(p) BY <1>1 DEF Acquire
<1>2. CASE Refused(p) BY <1>2 DEF Refused
<1>3. CASE Sleep(p) BY <1>3 DEF Sleep
<1>4. CASE BreakLock(p) BY <1>4 DEF BreakLock
<1>5. CASE PickPending(p) BY <1>5, PickFact, LockTyped DEF PickPending
<1>10. CASE Unlock(p) BY <1>10 DEF Unlock
<1>11. CASE Work(p) BY <1>11 DEF Work
<1>12. CASE Mark(p) BY <1>12 DEF Mark
<1>13. CASE Kill(p) BY <1>13 DEF Kill, Ended
<1> QED BY <1>1, <1>2, <1>3, <1>4, <1>5, <1>10, <1>11, <1>12, <1>13 DEF Step

(* A draft keeps what is claimed, and writes a claim down. *)
LEMMA DraftKeeps ==
  ASSUME LockInv, NEW p \in Procs, Draft(p), NEW w \in Workers, Engaged(w)'
  PROVE  Owns(w, tmp)'
<1> USE DEF LockInv, TypeOK, ClaimedLines, Goto
<1>1. pc[p] = "drafting" /\ pc' = [pc EXCEPT ![p] = "truncating"] /\ line' = line /\ edit' = edit
  BY DEF Draft
<1>2. Inside = {p} /\ Copying = {}
  BY <1>1 DEF MutualExclusion, Inside, Section, Copying
<1>3. w \in Procs /\ line[w] \in Lines
  BY <1>1 DEF Engaged, Procs
<1>4. CASE queue = Emptied
  <2>1. tmp' = Emptied
    BY <1>4, DraftFact, LockTyped, EmptiedFact
  <2> QED BY <1>1, <2>1 DEF Owns, Emptied
<1>5. CASE queue # Emptied
  <2>1. queue \in Whole /\ tmp' \in Whole
        /\ tmp'[line[w]] = IF line[w] = line[p] THEN Rewritten(queue[line[w]], edit[p], p)
                                               ELSE queue[line[w]]
    BY <1>3, <1>5, DraftFact, LockTyped
  <2>2. CASE w = p
    <3>1. edit[p] = "claim"
      BY <1>1, <2>2, <1>3 DEF Engaged
    <3>2. queue[line[p]].status = "pending"
      BY <1>1, <3>1 DEF Intent
    <3> QED BY <1>1, <2>1, <2>2, <3>1, <3>2 DEF Rewritten, Owns
  <2>3. CASE w # p
    <3>1. Engaged(w) /\ w \notin Copying
      BY <1>1, <1>2, <1>3, <2>3 DEF Engaged
    <3>2. queue[line[w]] = [status |-> "running", job |-> w]
      BY <1>5, <3>1 DEF Held, Owns
    <3>3. CASE line[w] # line[p]
      BY <1>1, <2>1, <3>2, <3>3 DEF Owns
    <3>4. CASE line[w] = line[p]
      <4>1. edit[p] # "claim"
        BY <1>1, <3>2, <3>4 DEF Intent
      <4>2. edit[p] \notin {"ok", "failed"}
        <5> SUFFICES ASSUME edit[p] \in {"ok", "failed"} PROVE FALSE
          OBVIOUS
        <5>1. p \in Workers
          BY ProcsAssumption DEF Intent, Procs
        <5>2. Engaged(p)
          BY <1>1, <1>3, <3>4, <5>1, LinesAssumption DEF Engaged
        <5> QED BY <2>3, <3>1, <3>4, <5>1, <5>2 DEF WorkersApart
      <4>3. Rewritten(queue[line[w]], edit[p], p) = queue[line[w]]
        BY <3>2, <4>1, <4>2 DEF Rewritten
      <4> QED BY <1>1, <2>1, <3>2, <3>4, <4>3 DEF Owns
    <3> QED BY <3>3, <3>4
  <2> QED BY <2>2, <2>3
<1> QED BY <1>4, <1>5

(* Who is between truncating and copying after a step. *)
LEMMA CopyingFact ==
  ASSUME LockInv, NEW p \in Procs, Step(p) \/ Kill(p)
  PROVE  /\ Draft(p) => Copying = {} /\ Copying' = {p}
         /\ Truncate(p) => Copying = {p} /\ Copying' = {p}
         /\ Copy(p) => Copying = {p} /\ Copying' = {}
         /\ Remove(p) => Copying' = {}
         /\ ~(Draft(p) \/ Truncate(p) \/ Copy(p) \/ Remove(p)) => Copying' \subseteq Copying
<1> USE DEF LockInv, TypeOK, Goto
<1>1. Draft(p) \/ Truncate(p) \/ Copy(p) \/ Remove(p) => \A q \in Procs : q # p => pc[q] \notin Section
  BY DEF Draft, Truncate, Copy, Remove, MutualExclusion, Inside, Section
<1>2. \A q \in Procs : q # p => pc'[q] = pc[q]
  BY Others, LockTyped
<1>3. Draft(p) => Copying = {} /\ Copying' = {p}
  BY <1>1, <1>2 DEF Draft, Copying, Section
<1>4. Truncate(p) => Copying = {p} /\ Copying' = {p}
  BY <1>1, <1>2 DEF Truncate, Copying, Section
<1>5. Copy(p) => Copying = {p} /\ Copying' = {}
  BY <1>1, <1>2, CopyFact DEF Copying, Section
<1>6. Remove(p) => Copying' = {}
  BY <1>1, <1>2 DEF Remove, Copying, Section
<1>7. ASSUME ~(Draft(p) \/ Truncate(p) \/ Copy(p) \/ Remove(p))
      PROVE  Copying' \subseteq Copying
  <2>1. pc'[p] \notin {"truncating", "copying"}
    <3>1. CASE Acquire(p) \/ Refused(p) \/ Sleep(p) \/ BreakLock(p)
      BY <3>1 DEF Acquire, Refused, Sleep, BreakLock
    <3>2. CASE PickPending(p) \/ Work(p)
      BY <3>2 DEF PickPending, Work
    <3>3. CASE Unlock(p) \/ Kill(p)
      BY <3>3 DEF Unlock, Kill
    <3>4. CASE Mark(p)
      BY <3>4 DEF Mark
    <3> QED BY <1>7, <3>1, <3>2, <3>3, <3>4 DEF Step
  <2> QED BY <1>2, <2>1 DEF Copying
<1> QED BY <1>3, <1>4, <1>5, <1>6, <1>7

(* Who is engaged after a step was so before, except by a draft. *)
LEMMA EngagedFact ==
  ASSUME LockInv, NEW p \in Procs, Step(p) \/ Kill(p), NEW w \in Workers, Engaged(w)', ~Draft(p)
  PROVE  Engaged(w) /\ line'[w] = line[w]
<1>1. CASE w # p
  BY <1>1, Others, LockTyped DEF Engaged, Procs
<1>2. CASE w = p /\ (Truncate(p) \/ Copy(p) \/ Remove(p))
  BY <1>2 DEF Truncate, Copy, Remove, Engaged, Goto, LockInv, TypeOK
<1>3. CASE w = p /\ ~(Truncate(p) \/ Copy(p) \/ Remove(p))
  BY <1>3, FilesFact, Quiet
<1> QED BY <1>1, <1>2, <1>3

(* Claimed lines are as they should be after a step. *)
LEMMA StepClaims ==
  ASSUME LockInv, NEW p \in Procs, Step(p) \/ Kill(p)
  PROVE  ClaimedLines'
<1>1. Copying' # {} => tmp' # NoFile
  <2>1. CASE ~(Draft(p) \/ Truncate(p) \/ Copy(p) \/ Remove(p))
    BY <2>1, FilesFact, CopyingFact DEF LockInv, ClaimedLines, files
  <2>2. CASE Draft(p)
    BY <2>2, DraftFact, LockTyped, NoFileAssumption
  <2>3. CASE Truncate(p) \/ Copy(p) \/ Remove(p)
    BY <2>3, CopyingFact DEF Truncate, LockInv, ClaimedLines
  <2> QED BY <2>1, <2>2, <2>3
<1>2. ASSUME NEW q \in Procs PROVE Intent(q)'
  <2>1. CASE q = p
    BY <2>1, StepIntent
  <2>2. CASE q # p
    <3>1. pc'[q] = pc[q] /\ edit'[q] = edit[q] /\ line'[q] = line[q]
      BY <2>2, Others, LockTyped
    <3>2. pc[q] = "drafting" => queue' = queue
      BY <2>2, FilesFact DEF Inside, Section, files
    <3> QED BY <3>1, <3>2 DEF Intent, LockInv, ClaimedLines
  <2> QED BY <2>1, <2>2
<1>3. ASSUME NEW w \in Workers, Engaged(w)' PROVE Held(w)'
  <2>1. CASE Draft(p)
    <3>1. Owns(w, tmp)'
      BY <1>3, <2>1, DraftKeeps
    <3>2. CASE w = p
      BY <2>1, <3>1, <3>2, CopyingFact DEF Held
    <3>3. CASE w # p
      <4>1. Engaged(w) /\ line'[w] = line[w] /\ w \notin Copying /\ queue' = queue
        BY <1>3, <2>1, <3>3, Others, LockTyped, CopyingFact DEF Engaged, Procs, Draft
      <4> QED BY <3>1, <4>1 DEF Held, Owns, LockInv, ClaimedLines
    <3> QED BY <3>2, <3>3
  <2>2. CASE ~Draft(p)
    <3>1. Engaged(w) /\ line'[w] = line[w]
      BY <1>3, <2>2, EngagedFact
    <3>2. Held(w)
      BY <3>1 DEF LockInv, ClaimedLines
    <3>3. CASE Truncate(p)
      BY <3>1, <3>2, <3>3, CopyingFact DEF Truncate, Held, Owns
    <3>4. CASE Copy(p)
      BY <3>1, <3>2, <3>4, CopyFact, CopyingFact DEF Copy, Held, Owns, LockInv, ClaimedLines
    <3>5. CASE Remove(p)
      <4>1. w \notin Copying
        BY <3>5, CopyingFact DEF Remove, Inside, Section, Copying, LockInv, MutualExclusion
      <4> QED BY <3>1, <3>2, <3>5, <4>1, CopyingFact DEF Remove, Held, Owns
    <3>6. CASE ~(Draft(p) \/ Truncate(p) \/ Copy(p) \/ Remove(p))
      <4>1. queue' = queue /\ tmp' = tmp /\ Copying' \subseteq Copying
        BY <3>6, FilesFact, CopyingFact DEF files
      <4>2. w \notin Copying' => w \notin Copying
        <5>1. CASE w = p
          BY <1>3, <3>6, <5>1, Quiet, FilesFact
        <5>2. CASE w # p
          BY <5>2, Others, LockTyped DEF Copying, Procs
        <5> QED BY <5>1, <5>2
      <4> QED BY <3>1, <3>2, <4>1, <4>2 DEF Held, Owns
    <3> QED BY <2>2, <3>3, <3>4, <3>5, <3>6
  <2> QED BY <2>1, <2>2
<1> QED BY <1>1, <1>2, <1>3 DEF ClaimedLines

(* No two workers are engaged on a line after a step. *)
LEMMA StepOne ==
  ASSUME LockInv, NEW p \in Procs, Step(p) \/ Kill(p)
  PROVE  WorkersApart'
<1> SUFFICES ASSUME NEW v \in Workers, NEW w \in Workers, Engaged(v)', Engaged(w)',
                    line'[v] = line'[w], v # w
             PROVE  FALSE
  BY DEF WorkersApart
<1>1. CASE ~Draft(p)
  BY <1>1, EngagedFact DEF LockInv, WorkersApart
<1>2. ASSUME Draft(p), NEW x \in Workers, Engaged(x)', x # p, p \in Workers,
             Engaged(p)', line'[x] = line'[p]
      PROVE  FALSE
  <2>1. Engaged(x) /\ line[x] = line[p] /\ x \notin Copying
    BY <1>2, Others, LockTyped, CopyingFact DEF Engaged, Procs, Draft
  <2>2. pc[p] = "drafting" /\ edit[p] = "claim"
    BY <1>2 DEF Draft, Engaged, Goto, LockInv, TypeOK
  <2>3. queue # Emptied /\ queue[line[p]].status = "pending"
    BY <2>2 DEF LockInv, ClaimedLines, Intent
  <2>4. queue[line[p]] = [status |-> "running", job |-> x]
    BY <2>1, <2>3 DEF LockInv, ClaimedLines, Held, Owns
  <2> QED BY <2>3, <2>4
<1>3. CASE Draft(p) /\ v # p /\ w # p
  BY <1>3, Others, LockTyped DEF Engaged, Procs, LockInv, WorkersApart
<1> QED BY <1>1, <1>2, <1>3

-----------------------------------------------------------------------------
(* The queue file shows the board until it is lost.                        *)

Running(w) == [status |-> "running", job |-> w]

(* w's line is running on the board and w knows it *)
Holding(w) ==
  \/ edit[w] = "claim" /\ pc[w] \in {"copying", "removing", "unlocking", "working"}
  \/ edit[w] \in {"ok", "failed"} /\ pc[w] \in {"locking", "refused", "drafting", "truncating"}

(* the draft is still that of the queue, and p may make the change *)
Drafted(p) ==
  /\ queue \in Whole /\ line[p] \in Lines
  /\ tmp = [l \in Lines |-> IF l = line[p] THEN Rewritten(queue[l], edit[p], p) ELSE queue[l]]
  /\ edit[p] = "claim" => p \in Workers /\ queue[line[p]].status = "pending"
  /\ edit[p] \in {"ok", "failed"} => p \in Workers /\ queue[line[p]] = Running(p)

PendingIsFree == \A l \in Lines : Shown[l].status = "pending" => Shown[l].job = NoJob

RunningIsHeld ==
  \A w \in Workers, l \in Lines :
    Shown[l] = Running(w) => pc[w] \in {"dead", "fallen"} \/ (line[w] = l /\ Holding(w))

BoardInv ==
  /\ Shown \in Whole
  /\ \A p \in Procs : pc[p] = "copying" => queue = Emptied
  /\ queue = Emptied => \E p \in Procs : pc[p] \in {"copying", "fallen"}
  /\ \A p \in Procs : pc[p] = "truncating" => Drafted(p)
  /\ PendingIsFree
  /\ RunningIsHeld

LEMMA ShownFact ==
  ASSUME LockInv, BoardInv
  PROVE  /\ queue # Emptied => Shown = queue /\ queue \in Whole
         /\ queue = Emptied => Shown = tmp /\ tmp \in Whole /\ tmp # NoFile
BY EmptiedFact, NoFileAssumption DEF LockInv, TypeOK, BoardInv, Shown

LEMMA InitBoard == Init => BoardInv /\ Shown = [l \in Lines |-> [status |-> "pending", job |-> NoJob]]
<1> SUFFICES ASSUME Init PROVE BoardInv /\ Shown = [l \in Lines |-> [status |-> "pending", job |-> NoJob]]
  OBVIOUS
<1>1. queue \in Whole /\ tmp = NoFile
  BY DEF Init, Whole, Entries, Statuses
<1>2. Shown = queue /\ queue # Emptied
  BY <1>1, EmptiedFact DEF Shown
<1>3. \A p \in Procs : pc[p] \notin {"copying", "truncating"}
  BY DEF Init
<1>4. PendingIsFree /\ RunningIsHeld
  BY <1>2 DEF PendingIsFree, RunningIsHeld, Running, Init
<1> QED BY <1>1, <1>2, <1>3, <1>4 DEF BoardInv, Init

(* A worker that holds a line keeps it, or dies, in a step that leaves the *)
(* files alone.                                                            *)
LEMMA QuietHolds ==
  ASSUME LockInv, NEW p \in Workers, Step(p) \/ Kill(p),
         ~(Draft(p) \/ Truncate(p) \/ Copy(p) \/ Remove(p)),
         line[p] \in Lines, Holding(p)
  PROVE  pc'[p] \in {"dead", "fallen"} \/ (line'[p] = line[p] /\ Holding(p)')
<1> USE ProcsAssumption, LinesAssumption DEF LockInv, TypeOK, Goto, Holding, Procs
<1>1. CASE Acquire(p) BY <1>1 DEF Acquire
<1>2. CASE Refused(p) BY <1>2 DEF Refused
<1>3. CASE Sleep(p) BY <1>3 DEF Sleep
<1>4. CASE BreakLock(p) BY <1>4 DEF BreakLock
<1>5. CASE PickPending(p) BY <1>5 DEF PickPending
<1>10. CASE Unlock(p) BY <1>10 DEF Unlock
<1>11. CASE Work(p)
  <2>1. pc[p] = "working" /\ edit'[p] \in {"ok", "failed"} /\ pc'[p] = "locking" /\ line' = line
    BY <1>11 DEF Work
  <2> QED BY <2>1
<1>12. CASE Mark(p) BY <1>12 DEF Mark
<1>13. CASE Kill(p) BY <1>13 DEF Kill
<1> QED BY <1>1, <1>2, <1>3, <1>4, <1>5, <1>10, <1>11, <1>12, <1>13 DEF Step

(* Who truncates and who copies after a step that leaves the files alone. *)
LEMMA QuietPlace ==
  ASSUME LockInv, NEW p \in Procs, Step(p) \/ Kill(p),
         ~(Draft(p) \/ Truncate(p) \/ Copy(p) \/ Remove(p))
  PROVE  /\ pc[p] = "copying" => pc'[p] = "fallen"
         /\ pc[p] # "fallen" /\ pc'[p] \notin {"truncating", "copying"}
<1> USE DEF LockInv, TypeOK, Goto
<1>1. CASE Acquire(p) BY <1>1 DEF Acquire
<1>2. CASE Refused(p) BY <1>2 DEF Refused
<1>3. CASE Sleep(p) BY <1>3 DEF Sleep
<1>4. CASE BreakLock(p) BY <1>4 DEF BreakLock
<1>5. CASE PickPending(p) BY <1>5 DEF PickPending
<1>10. CASE Unlock(p) BY <1>10 DEF Unlock
<1>11. CASE Work(p) BY <1>11 DEF Work
<1>12. CASE Mark(p) BY <1>12 DEF Mark
<1>13. CASE Kill(p) BY <1>13 DEF Kill, Section, Ended
<1> QED BY <1>1, <1>2, <1>3, <1>4, <1>5, <1>10, <1>11, <1>12, <1>13 DEF Step

LEMMA QuietBoard ==
  ASSUME LockInv, BoardInv, NEW p \in Procs, Step(p) \/ Kill(p),
         ~(Draft(p) \/ Truncate(p) \/ Copy(p) \/ Remove(p))
  PROVE  BoardInv' /\ Shown' = Shown
<1>1. queue' = queue /\ tmp' = tmp /\ Shown' = Shown
  BY FilesFact DEF files, Shown
<1>2. /\ \A q \in Procs : pc'[q] = "copying" => queue' = Emptied
      /\ queue' = Emptied => \E q \in Procs : pc'[q] \in {"copying", "fallen"}
  BY <1>1, Others, LockTyped, QuietPlace DEF BoardInv
<1>3. ASSUME NEW q \in Procs, pc'[q] = "truncating" PROVE Drafted(q)'
  <2>1. q # p /\ pc'[q] = pc[q] /\ edit'[q] = edit[q] /\ line'[q] = line[q]
    BY <1>3, Others, LockTyped, QuietPlace
  <2> QED BY <1>1, <1>3, <2>1 DEF BoardInv, Drafted
<1>4. RunningIsHeld'
  <2> SUFFICES ASSUME NEW w \in Workers, NEW l \in Lines, Shown[l] = Running(w)
               PROVE  pc'[w] \in {"dead", "fallen"} \/ (line'[w] = l /\ Holding(w)')
    BY <1>1 DEF RunningIsHeld, Running
  <2>1. pc[w] \in {"dead", "fallen"} \/ (line[w] = l /\ Holding(w))
    BY DEF BoardInv, RunningIsHeld
  <2>2. CASE w # p
    BY <2>1, <2>2, Others, LockTyped DEF Holding, Procs
  <2>3. CASE w = p /\ pc[p] \notin {"dead", "fallen"}
    BY <2>1, <2>3, QuietHolds
  <2>4. pc[p] \notin {"dead", "fallen"}
    <3>1. CASE Kill(p)
      BY <3>1 DEF Kill, Ended
    <3>2. CASE Step(p)
      BY <3>2 DEF Step, Acquire, Refused, Sleep, BreakLock, PickPending, Draft, Truncate, Copy,
                  Remove, Unlock, Work, Mark
    <3> QED BY <3>1, <3>2
  <2> QED BY <2>2, <2>3, <2>4
<1> QED BY <1>1, <1>2, <1>3, <1>4 DEF BoardInv, PendingIsFree

(* The rewriting of a line: what a draft, the truncation, the copy and the *)
(* removal of the draft do to the board.                                   *)
LEMMA DraftBoard ==
  ASSUME LockInv, BoardInv, NEW p \in Procs, Step(p), Draft(p), Shown' # Emptied
  PROVE  BoardInv' /\ Shown' = Shown
<1> USE DEF Goto
<1>1. /\ pc[p] = "drafting" /\ pc' = [pc EXCEPT ![p] = "truncating"]
      /\ queue' = queue /\ line' = line /\ edit' = edit
  BY DEF Draft
<1>2. Inside = {p}
  BY FilesFact, <1>1 DEF LockInv, MutualExclusion, Inside, Section
<1>3. \A q \in Procs : pc[q] # "copying" /\ pc'[q] # "copying" /\ (pc'[q] = "truncating" => q = p)
  BY <1>1, <1>2 DEF Inside, Section, LockInv, TypeOK
<1>4. queue # Emptied
  <2> SUFFICES ASSUME queue = Emptied PROVE FALSE
    OBVIOUS
  <2>1. tmp' = Emptied /\ queue' = Emptied
    BY <1>1, DraftFact, LockTyped, EmptiedFact
  <2> QED BY <2>1 DEF Shown
<1>5. queue \in Whole /\ Shown = queue /\ Shown' = queue
  BY <1>1, <1>4, ShownFact DEF Shown
<1>6. Drafted(p)'
  <2>1. line[p] \in Lines
    BY <1>1, LinesAssumption DEF LockInv, TypeOK, ClaimedLines, Intent
  <2>2. DOMAIN queue = Lines
    BY <1>5 DEF Whole
  <2>3. tmp' = [l \in Lines |-> IF l = line[p] THEN Rewritten(queue[l], edit[p], p) ELSE queue[l]]
    BY <2>2 DEF Draft
  <2>4. edit[p] = "claim" => p \in Workers /\ queue[line[p]].status = "pending"
    BY <1>1 DEF LockInv, ClaimedLines, Intent, Procs
  <2>5. ASSUME edit[p] \in {"ok", "failed"} PROVE p \in Workers /\ queue[line[p]] = Running(p)
    <3>1. p \in Workers
      BY <2>5, ProcsAssumption DEF LockInv, ClaimedLines, Intent, Procs
    <3>2. Engaged(p)
      BY <1>1, <2>1, <2>5, <3>1, LinesAssumption DEF Engaged
    <3>3. p \notin Copying
      BY <1>1 DEF Copying
    <3> QED BY <1>4, <3>1, <3>2, <3>3 DEF LockInv, ClaimedLines, Held, Owns, Running
  <2> QED BY <1>1, <1>5, <2>1, <2>3, <2>4, <2>5 DEF Drafted
<1>7. RunningIsHeld'
  BY <1>1, <1>5 DEF BoardInv, RunningIsHeld, Holding, Running, LockInv, TypeOK
<1> QED BY <1>1, <1>3, <1>4, <1>5, <1>6, <1>7 DEF BoardInv, PendingIsFree

LEMMA CopyBoard ==
  ASSUME LockInv, BoardInv, NEW p \in Procs, Step(p), Copy(p) \/ Remove(p), Shown' # Emptied
  PROVE  BoardInv' /\ Shown' = Shown
<1> USE DEF Goto
<1>1. pc[p] \in {"copying", "removing"} /\ pc'[p] \in {"removing", "unlocking"}
      /\ line' = line /\ edit' = edit
      /\ pc' = [pc EXCEPT ![p] = IF pc[p] = "copying" THEN "removing" ELSE "unlocking"]
  BY CopyFact DEF Copy, Remove, LockInv, TypeOK
<1>2. Inside = {p}
  BY FilesFact, <1>1 DEF LockInv, MutualExclusion, Inside, Section
<1>3. \A q \in Procs : /\ pc'[q] \notin {"copying", "truncating"}
                       /\ pc[q] = "copying" => q = p
  BY <1>1, <1>2 DEF Inside, Section, LockInv, TypeOK
<1>4. CASE Copy(p)
  <2>1. queue = Emptied /\ pc[p] = "copying"
    BY <1>4 DEF Copy, BoardInv
  <2>2. Shown = tmp /\ tmp \in Whole /\ tmp # NoFile
    BY <2>1, ShownFact
  <2>3. queue' = tmp /\ queue' # Emptied /\ Shown' = tmp
    BY <1>4, <2>2, EmptiedFact DEF Copy, Shown
  <2>4. RunningIsHeld'
    BY <1>1, <2>1, <2>2, <2>3 DEF BoardInv, RunningIsHeld, Holding, Running, LockInv, TypeOK
  <2> QED BY <1>3, <2>2, <2>3, <2>4 DEF BoardInv, PendingIsFree
<1>5. CASE Remove(p)
  <2>1. pc[p] = "removing" /\ queue' = queue
    BY <1>5 DEF Remove
  <2>2. queue # Emptied
    BY <1>5, <2>1 DEF Remove, Shown
  <2>3. Shown = queue /\ queue \in Whole /\ Shown' = queue
    BY <2>1, <2>2, ShownFact DEF Shown
  <2>4. RunningIsHeld'
    BY <1>1, <2>1, <2>3 DEF BoardInv, RunningIsHeld, Holding, Running, LockInv, TypeOK
  <2> QED BY <1>3, <2>1, <2>2, <2>3, <2>4 DEF BoardInv, PendingIsFree
<1> QED BY <1>4, <1>5

LEMMA TruncateBoard ==
  ASSUME LockInv, BoardInv, NEW p \in Procs, Step(p), Truncate(p)
  PROVE  BoardInv'
<1> USE DEF Goto
<1>1. /\ pc[p] = "truncating" /\ pc' = [pc EXCEPT ![p] = "copying"]
      /\ queue' = Emptied /\ tmp' = tmp /\ line' = line /\ edit' = edit
  BY DEF Truncate
<1>2. Inside = {p}
  BY FilesFact, <1>1 DEF LockInv, MutualExclusion, Inside, Section
<1>3. pc'[p] = "copying" /\ \A q \in Procs : pc'[q] # "truncating"
  BY <1>1, <1>2 DEF Inside, Section, LockInv, TypeOK
<1>4. Drafted(p)
  BY <1>1 DEF BoardInv
<1>5. queue # Emptied /\ Shown = queue
  BY <1>4, EmptiedFact DEF Drafted, Shown
<1>6. /\ tmp \in Whole /\ tmp # NoFile /\ Shown' = tmp
      /\ \A l \in Lines : tmp[l] = IF l = line[p] THEN Rewritten(queue[l], edit[p], p) ELSE queue[l]
  <2>1. \A l \in Lines : queue[l] \in Entries
    BY <1>4 DEF Drafted, Whole
  <2>2. \A l \in Lines : l = line[p] => Rewritten(queue[l], edit[p], p) \in Entries
    BY <1>4, <2>1, RewrittenType DEF Drafted, LockInv, TypeOK
  <2>3. tmp \in Whole
    BY <1>4, <2>1, <2>2 DEF Drafted, Whole
  <2> QED BY <1>1, <1>4, <2>3, NoFileAssumption DEF Drafted, Shown
<1>7. PendingIsFree'
  BY <1>4, <1>5, <1>6 DEF PendingIsFree, BoardInv, Rewritten, Drafted, LockInv, TypeOK
<1>8. RunningIsHeld'
  <2> SUFFICES ASSUME NEW w \in Workers, NEW l \in Lines, tmp[l] = Running(w)
               PROVE  pc'[w] \in {"dead", "fallen"} \/ (line'[w] = l /\ Holding(w)')
    BY <1>6 DEF RunningIsHeld, Running
  <2>1. queue[l] = Running(w) => pc[w] \in {"dead", "fallen"} \/ (line[w] = l /\ Holding(w))
    BY <1>5 DEF BoardInv, RunningIsHeld
  <2>2. CASE l # line[p]
    <3>1. queue[l] = Running(w)
      BY <1>6, <2>2
    <3>2. w # p
      BY <1>1, <2>1, <2>2, <3>1
    <3> QED BY <2>1, <3>1, <3>2, Others, LockTyped DEF Holding, Procs
  <2>3. CASE l = line[p]
    <3>0. Rewritten(queue[l], edit[p], p) = Running(w) /\ Running(w).status = "running"
      BY <1>6, <2>3 DEF Running
    <3>1. edit[p] \notin {"ok", "failed"}
      BY <3>0 DEF Rewritten
    <3>2. CASE edit[p] = "claim"
      <4>1. w = p
        BY <1>4, <1>6, <2>3, <3>2 DEF Drafted, Rewritten, Running
      <4> QED BY <1>1, <1>3, <2>3, <3>2, <4>1 DEF Holding
    <3>3. CASE edit[p] \in {"skip", "pending"}
      <4>1. queue[l] = Running(w)
        BY <3>0, <3>3 DEF Rewritten
      <4>2. w # p
        BY <3>3 DEF LockInv, ClaimedLines, Intent, Procs
      <4> QED BY <2>1, <4>1, <4>2, Others, LockTyped DEF Holding, Procs
    <3> QED BY <3>1, <3>2, <3>3 DEF LockInv, TypeOK
  <2> QED BY <2>2, <2>3
<1> QED BY <1>1, <1>3, <1>6, <1>7, <1>8 DEF BoardInv

(* Truncating the queue is the step of the board. *)
LEMMA TruncateStep ==
  ASSUME LockInv, BoardInv, NEW p \in Procs, Truncate(p)
  PROVE  Shown' = Shown \/ \E l \in Lines : Board!Change(l)
<1>1. pc[p] = "truncating" /\ queue' = Emptied /\ tmp' = tmp
  BY DEF Truncate
<1>2. Drafted(p)
  BY <1>1 DEF BoardInv
<1> DEFINE l == line[p]
<1>3. /\ queue \in Whole /\ l \in Lines /\ DOMAIN queue = Lines
      /\ queue[l] \in Entries
  BY <1>2 DEF Drafted, Whole
<1>4. /\ tmp = [queue EXCEPT ![l] = Rewritten(queue[l], edit[p], p)]
      /\ Shown = queue /\ Shown' = tmp
  <2>1. tmp = [queue EXCEPT ![l] = Rewritten(queue[l], edit[p], p)]
    BY <1>2, <1>3 DEF Drafted
  <2>2. queue # Emptied /\ Shown = queue
    BY <1>3, EmptiedFact DEF Shown
  <2>3. tmp # NoFile
    BY <1>1 DEF LockInv, ClaimedLines, Copying
  <2> QED BY <1>1, <2>1, <2>2, <2>3 DEF Shown
<1>5. Rewritten(queue[l], edit[p], p) = queue[l] => Shown' = Shown
  BY <1>3, <1>4 DEF Whole
<1>6. /\ Board!Claim(p, l) <=> /\ Shown[l].status = "pending"
                               /\ \A k \in Lines : Shown[k] # Running(p)
                               /\ Shown' = [Shown EXCEPT ![l] = Running(p)]
      /\ Board!Finish(p, l) <=> /\ Shown[l] = Running(p)
                                /\ \E result \in {"ok", "failed"} :
                                     Shown' = [Shown EXCEPT ![l].status = result]
      /\ Board!Skip(l) <=> /\ Shown[l].status = "pending"
                           /\ Shown' = [Shown EXCEPT ![l].status = "skip"]
      /\ Board!Requeue(l) <=> /\ Shown[l].status \in {"ok", "failed", "skip"}
                              /\ Shown' = [Shown EXCEPT ![l] = [status |-> "pending", job |-> NoJob]]
  BY DEF Board!Claim, Board!Finish, Board!Skip, Board!Requeue, Board!Running, Board!Pending, Running
<1>7. CASE edit[p] = "claim"
  <2>1. p \in Workers /\ queue[l].status = "pending"
    BY <1>2, <1>7 DEF Drafted
  <2>2. \A k \in Lines : Shown[k] # Running(p)
    BY <1>1, <1>7, <2>1 DEF BoardInv, RunningIsHeld, Holding
  <2>3. Shown' = [Shown EXCEPT ![l] = Running(p)]
    BY <1>4, <1>7, <2>1 DEF Rewritten, Running
  <2> QED BY <1>3, <1>4, <1>6, <2>1, <2>2, <2>3 DEF Board!Change
<1>8. CASE edit[p] \in {"ok", "failed"}
  <2>1. p \in Workers /\ queue[l] = Running(p)
    BY <1>2, <1>8 DEF Drafted
  <2>2. Rewritten(queue[l], edit[p], p) = [queue[l] EXCEPT !.status = edit[p]]
    BY <1>8, <2>1 DEF Rewritten, Running
  <2>3. Shown' = [Shown EXCEPT ![l].status = edit[p]]
    BY <1>4, <2>2
  <2> QED BY <1>3, <1>4, <1>6, <1>8, <2>1, <2>3 DEF Board!Change
<1>9. CASE edit[p] = "skip"
  <2>1. CASE queue[l].status = "pending"
    <3>1. Rewritten(queue[l], edit[p], p) = [queue[l] EXCEPT !.status = "skip"]
      BY <1>3, <1>9, <2>1 DEF Rewritten, Entries
    <3>2. Shown' = [Shown EXCEPT ![l].status = "skip"]
      BY <1>4, <3>1
    <3>3. Board!Skip(l)
      BY <1>4, <1>6, <2>1, <3>2
    <3> QED BY <1>3, <3>3 DEF Board!Change
  <2>2. CASE queue[l].status # "pending"
    BY <1>5, <1>9, <2>2 DEF Rewritten
  <2> QED BY <2>1, <2>2
<1>10. CASE edit[p] = "pending"
  <2>1. CASE queue[l].status = "running"
    BY <1>5, <1>10, <2>1 DEF Rewritten
  <2>2. CASE queue[l].status = "pending"
    <3>1. queue[l].job = NoJob
      BY <1>3, <1>4, <2>2 DEF BoardInv, PendingIsFree
    <3>2. Rewritten(queue[l], edit[p], p) = queue[l]
      BY <1>3, <1>10, <2>2, <3>1 DEF Rewritten, Entries
    <3> QED BY <1>5, <3>2
  <2>3. CASE queue[l].status \in {"ok", "failed", "skip"}
    <3>1. Shown' = [Shown EXCEPT ![l] = [status |-> "pending", job |-> NoJob]]
      BY <1>4, <1>10, <2>3 DEF Rewritten
    <3>2. Board!Requeue(l)
      BY <1>4, <1>6, <2>3, <3>1
    <3> QED BY <1>3, <3>2 DEF Board!Change
  <2> QED BY <1>3, <2>1, <2>2, <2>3 DEF Entries, Statuses
<1> QED BY <1>7, <1>8, <1>9, <1>10 DEF LockInv, TypeOK

-----------------------------------------------------------------------------
(* No waiter runs out of patience: each turn for which the lock is taken   *)
(* is left, being taken, or over, and a waiter has been refused at most    *)
(* SectionPolls times in every one that is over.                           *)

FoundNone(w) == pc[w] = "unlocking" /\ edit[w] = "claim" /\ line[w] = 0

Claims   == {l \in Lines : Shown[l].status = "pending"} \X {"claim"}
Finishes == {l \in Lines : Shown[l].status \in {"pending", "running"}} \X {"finish"}
Looks    == {w \in Workers : pc[w] \notin Ended /\ ~FoundNone(w)} \X {"look"}
Edits    == {m \in Marks : pc[m] \in {"marking", "locking", "refused", "drafting", "truncating"}}
              \X {"edit", "reclaim", "refinish"}

TurnsLeft == Claims \cup Finishes \cup Looks \cup Edits

(* the holder has used its turn *)
TurnUsed == \E p \in Procs : pc[p] \in {"copying", "removing", "unlocking"}

TurnsOver == Cardinality(Turns) - Cardinality(TurnsLeft) - (IF TurnUsed THEN 1 ELSE 0)

Refusals(p) == waited[p] + (IF pc[p] = "refused" THEN 1 ELSE 0)

PatienceLasts ==
  /\ lockdir => Inside # {}
  /\ \A p \in Procs :
       Refusals(p) <= SectionPolls * TurnsOver + (IF Inside = {} THEN 0 ELSE polls[p])

Inv == LockInv /\ BoardInv /\ PatienceLasts

(* Arithmetic of the bound. *)
LEMMA Times ==
  ASSUME NEW x \in Int, NEW y \in Int, x <= y
  PROVE  /\ SectionPolls * x \in Int /\ SectionPolls * y \in Int
         /\ SectionPolls * x <= SectionPolls * y
         /\ SectionPolls * (x + 1) = SectionPolls * x + SectionPolls
BY PatienceAssumption, Z3

LEMMA Finite ==
  /\ IsFiniteSet(Turns) /\ Cardinality(Turns) \in Nat
  /\ IsFiniteSet(TurnsLeft) /\ Cardinality(TurnsLeft) \in Nat
  /\ Cardinality(TurnsLeft) <= Cardinality(Turns)
  /\ TurnsOver \in Int
<1>1. IsFiniteSet(Lines) /\ IsFiniteSet(Workers) /\ IsFiniteSet(Marks)
  BY LinesAssumption, ProcsAssumption, FS_Subset DEF Procs
<1>2. /\ IsFiniteSet({"claim", "finish"}) /\ IsFiniteSet({"look"})
      /\ IsFiniteSet({"edit", "reclaim", "refinish"})
  <2>1. IsFiniteSet({"look"}) /\ IsFiniteSet({"edit"}) /\ IsFiniteSet({"claim"})
    BY FS_Singleton
  <2>2. {"claim", "finish"} = {"claim"} \cup {"finish"} /\ {"edit", "reclaim"} = {"edit"} \cup {"reclaim"}
        /\ {"edit", "reclaim", "refinish"} = {"edit", "reclaim"} \cup {"refinish"}
    OBVIOUS
  <2>3. IsFiniteSet({"claim"} \cup {"finish"}) /\ IsFiniteSet({"edit"} \cup {"reclaim"})
    BY <2>1, FS_AddElement
  <2>4. IsFiniteSet({"edit", "reclaim"} \cup {"refinish"})
    BY <2>2, <2>3, FS_AddElement
  <2> QED BY <2>1, <2>2, <2>3, <2>4
<1>3. /\ IsFiniteSet(Lines \X {"claim", "finish"}) /\ IsFiniteSet(Workers \X {"look"})
      /\ IsFiniteSet(Marks \X {"edit", "reclaim", "refinish"})
  BY <1>1, <1>2, FS_Product
<1>4. IsFiniteSet(Turns)
  BY <1>3, FS_Union DEF Turns
<1>5. TurnsLeft \subseteq Turns
  BY DEF TurnsLeft, Turns, Claims, Finishes, Looks, Edits
<1>6. IsFiniteSet(TurnsLeft)
  BY <1>4, <1>5, FS_Subset
<1>7. Cardinality(Turns) \in Nat /\ Cardinality(TurnsLeft) \in Nat
  BY <1>4, <1>6, FS_CardinalityType
<1>8. Cardinality(TurnsLeft) <= Cardinality(Turns)
  BY <1>4, <1>5, FS_Subset
<1> QED BY <1>4, <1>6, <1>7, <1>8 DEF TurnsOver

(* One element less, and three less with two new ones. *)
LEMMA OneLess ==
  ASSUME NEW S, IsFiniteSet(S), NEW T, NEW a \in S, T \subseteq S \ {a}
  PROVE  Cardinality(T) <= Cardinality(S) - 1
<1>1. IsFiniteSet(S \ {a}) /\ Cardinality(S \ {a}) = Cardinality(S) - 1
  BY FS_RemoveElement
<1> QED BY <1>1, FS_Subset

LEMMA ThreeForTwo ==
  ASSUME NEW S, IsFiniteSet(S), NEW T, NEW a \in S, NEW b \in S, NEW c \in S,
         a # b, a # c, b # c, NEW d, NEW e, T \subseteq ((S \ {a, b, c}) \cup {d, e})
  PROVE  Cardinality(T) <= Cardinality(S) - 1
<1>1. IsFiniteSet(S \ {a}) /\ Cardinality(S \ {a}) = Cardinality(S) - 1
  BY FS_RemoveElement
<1>2. IsFiniteSet((S \ {a}) \ {b}) /\ Cardinality((S \ {a}) \ {b}) = Cardinality(S \ {a}) - 1
  <2>1. b \in S \ {a}
    OBVIOUS
  <2> QED BY <1>1, <2>1, FS_RemoveElement
<1> DEFINE R == ((S \ {a}) \ {b}) \ {c}
<1>3. IsFiniteSet(R) /\ Cardinality(R) = Cardinality((S \ {a}) \ {b}) - 1
  <2>1. c \in (S \ {a}) \ {b}
    OBVIOUS
  <2> QED BY <1>2, <2>1, FS_RemoveElement
<1>4. R = S \ {a, b, c}
  OBVIOUS
<1> HIDE DEF R
<1>5. IsFiniteSet(R \cup {d}) /\ Cardinality(R \cup {d}) \in {Cardinality(R), Cardinality(R) + 1}
  BY <1>3, FS_AddElement
<1>6. /\ IsFiniteSet((R \cup {d}) \cup {e})
      /\ Cardinality((R \cup {d}) \cup {e}) \in {Cardinality(R \cup {d}), Cardinality(R \cup {d}) + 1}
  BY <1>5, FS_AddElement
<1>7. T \subseteq (R \cup {d}) \cup {e}
  BY <1>4
<1>8. Cardinality(T) <= Cardinality((R \cup {d}) \cup {e})
  BY <1>6, <1>7, FS_Subset
<1>9. IsFiniteSet(T)
  BY <1>6, <1>7, FS_Subset
<1>10. Cardinality(S) \in Nat /\ Cardinality(R) \in Nat /\ Cardinality(T) \in Nat
  BY <1>3, <1>9, FS_CardinalityType
<1> QED BY <1>1, <1>2, <1>3, <1>5, <1>6, <1>8, <1>10

LEMMA InitWaits == Init => PatienceLasts
<1> SUFFICES ASSUME Init PROVE PatienceLasts
  OBVIOUS
<1>1. Inside = {} /\ ~TurnUsed /\ lockdir = FALSE
  BY DEF Init, Inside, Section, TurnUsed
<1>2. \A p \in Procs : Refusals(p) = 0
  BY DEF Init, Refusals
<1>3. TurnsOver \in Int /\ 0 <= TurnsOver
  BY <1>1, Finite DEF TurnsOver
<1>4. 0 <= SectionPolls * TurnsOver /\ SectionPolls * TurnsOver \in Int
  BY <1>3, Times, PatienceAssumption
<1> QED BY <1>1, <1>2, <1>4 DEF PatienceLasts

(* A lock is never broken. *)
LEMMA NoBreak ==
  ASSUME Patient, Inv, NEW p \in Procs
  PROVE  ~BreakLock(p)
<1> SUFFICES ASSUME BreakLock(p) PROVE FALSE
  OBVIOUS
<1>1. pc[p] = "refused" /\ Patience <= waited[p]
  BY PatienceAssumption DEF BreakLock, Inv, LockInv, TypeOK
<1>2. /\ waited[p] \in Nat /\ Patience \in Nat /\ SectionPolls \in Nat
      /\ polls[p] \in Nat /\ polls[p] <= SectionPolls
  BY PatienceAssumption DEF Inv, LockInv, TypeOK
<1>3. waited[p] + 1 <= SectionPolls * TurnsOver + (IF Inside = {} THEN 0 ELSE polls[p])
  BY <1>1 DEF Inv, PatienceLasts, Refusals
<1> DEFINE T == Cardinality(Turns)
<1>4. T \in Nat /\ TurnsOver \in Int /\ TurnsOver <= T /\ Patience >= SectionPolls * T
  BY Finite DEF TurnsOver, Patient
<1>5. CASE Inside = {}
  <2>1. SectionPolls * TurnsOver <= SectionPolls * T /\ SectionPolls * TurnsOver \in Int
        /\ SectionPolls * T \in Int
    BY <1>4, Times
  <2> QED BY <1>1, <1>2, <1>3, <1>4, <1>5, <2>1
<1>6. CASE Inside # {}
  <2>1. PICK q \in Procs : pc[q] \in Section
    BY <1>6 DEF Inside
  <2>2. TurnUsed \/ Cardinality(TurnsLeft) >= 1
    <3>1. CASE pc[q] \in {"copying", "removing", "unlocking"}
      BY <3>1 DEF TurnUsed
    <3>2. CASE pc[q] \in {"picking", "drafting", "truncating"}
      <4>1. q \in Workers => <<q, "look">> \in TurnsLeft
        BY <3>2 DEF TurnsLeft, Looks, Ended, FoundNone
      <4>2. q \in Marks => <<q, "edit">> \in TurnsLeft
        BY <3>2 DEF TurnsLeft, Edits, Inv, LockInv, ClaimedLines, Intent
      <4>3. TurnsLeft # {}
        BY <4>1, <4>2 DEF Procs
      <4> QED BY <4>3, Finite, FS_EmptySet
    <3> QED BY <2>1, <3>1, <3>2 DEF Section
  <2>3. TurnsOver + 1 <= T
    BY <2>2, Finite DEF TurnsOver
  <2>4. /\ SectionPolls * TurnsOver + SectionPolls <= SectionPolls * T
        /\ SectionPolls * TurnsOver \in Int /\ SectionPolls * T \in Int
    <3>1. TurnsOver + 1 \in Int /\ T \in Int
      BY <1>4
    <3>2. SectionPolls * (TurnsOver + 1) <= SectionPolls * T /\ SectionPolls * T \in Int
      BY <2>3, <3>1, Times
    <3>3. SectionPolls * (TurnsOver + 1) = SectionPolls * TurnsOver + SectionPolls
          /\ SectionPolls * TurnsOver \in Int
      BY <1>4, Times
    <3> QED BY <3>2, <3>3
  <2> QED BY <1>1, <1>2, <1>3, <1>4, <1>6, <2>4
<1> QED BY <1>5, <1>6

(* Where a step takes its process. *)
LEMMA Place ==
  ASSUME LockInv, NEW p \in Procs, Step(p) \/ Kill(p)
  PROVE  /\ pc[p] \notin Ended
         /\ p \in Workers => pc'[p] \in Ended \/ FoundNone(p)' \/ ~FoundNone(p)
         /\ p \in Marks /\ pc'[p] \in {"marking", "locking", "refused", "drafting", "truncating"}
              => pc[p] \in {"marking", "locking", "refused", "drafting", "truncating"}
         /\ pc'[p] \in {"copying", "removing", "unlocking"}
              => Truncate(p) \/ PickPending(p) \/ pc[p] \in {"copying", "removing", "unlocking"}
<1> USE ProcsAssumption DEF LockInv, TypeOK, ClaimedLines, Intent, Goto, FoundNone, Procs
<1>0. Ended = {"done", "notfound", "dead", "fallen"}
  BY DEF Ended
<1> USE <1>0
<1>1. CASE Acquire(p) BY <1>1 DEF Acquire
<1>2. CASE Refused(p) BY <1>2 DEF Refused
<1>3. CASE Sleep(p) BY <1>3 DEF Sleep
<1>4. CASE BreakLock(p) BY <1>4 DEF BreakLock
<1>5. CASE PickPending(p) BY <1>5 DEF PickPending
<1>6. CASE Draft(p) BY <1>6 DEF Draft
<1>7. CASE Truncate(p) BY <1>7 DEF Truncate
<1>8. CASE Copy(p) BY <1>8, CopyFact
<1>9. CASE Remove(p) BY <1>9 DEF Remove
<1>10. CASE Unlock(p) BY <1>10 DEF Unlock
<1>11. CASE Work(p) BY <1>11 DEF Work
<1>12. CASE Mark(p) BY <1>12 DEF Mark
<1>13. CASE Kill(p) BY <1>13 DEF Kill
<1> QED BY <1>1, <1>2, <1>3, <1>4, <1>5, <1>6, <1>7, <1>8, <1>9, <1>10, <1>11, <1>12, <1>13 DEF Step

(* No turn comes back while the board stays. *)
LEMMA TurnsStay ==
  ASSUME LockInv, NEW p \in Procs, Step(p) \/ Kill(p)
  PROVE  /\ Looks' \subseteq Looks /\ Edits' \subseteq Edits
         /\ Shown' = Shown => TurnsLeft' \subseteq TurnsLeft
<1>1. Looks' \subseteq Looks
  <2> SUFFICES ASSUME NEW w \in Workers, pc'[w] \notin Ended, ~FoundNone(w)'
               PROVE  pc[w] \notin Ended /\ ~FoundNone(w)
    BY DEF Looks
  <2>1. CASE w = p
    BY <2>1, Place
  <2>2. CASE w # p
    BY <2>2, Others, LockTyped DEF FoundNone, Procs
  <2> QED BY <2>1, <2>2
<1>2. Edits' \subseteq Edits
  <2> SUFFICES ASSUME NEW m \in Marks,
                      pc'[m] \in {"marking", "locking", "refused", "drafting", "truncating"}
               PROVE  pc[m] \in {"marking", "locking", "refused", "drafting", "truncating"}
    BY DEF Edits
  <2> QED BY Place, Others, LockTyped DEF Procs
<1>3. Shown' = Shown => Claims' = Claims /\ Finishes' = Finishes
  BY DEF Claims, Finishes
<1> QED BY <1>1, <1>2, <1>3 DEF TurnsLeft

(* Truncating the queue uses a turn. *)
LEMMA TruncateTurn ==
  ASSUME Inv, NEW p \in Procs, Step(p), Truncate(p)
  PROVE  Cardinality(TurnsLeft') <= Cardinality(TurnsLeft) - 1
<1>1. pc[p] = "truncating" /\ pc' = [pc EXCEPT ![p] = "copying"] /\ queue' = Emptied /\ tmp' = tmp
  BY DEF Truncate, Goto
<1>2. Drafted(p)
  BY <1>1 DEF Inv, BoardInv
<1>3. PICK l \in Lines : l = line[p]
  BY <1>2 DEF Drafted
<1>4. /\ Shown = queue /\ Shown' = tmp /\ queue \in Whole
      /\ \A k \in Lines : tmp[k] = IF k = l THEN Rewritten(queue[l], edit[p], p) ELSE queue[k]
  <2>1. queue # Emptied /\ tmp # NoFile
    BY <1>1, <1>2, EmptiedFact DEF Drafted, Inv, LockInv, ClaimedLines, Copying
  <2> QED BY <1>1, <1>2, <1>3, <2>1 DEF Drafted, Shown
<1>5. Looks' \subseteq Looks /\ Edits' \subseteq Edits
  BY TurnsStay DEF Inv
<1>6. queue[l] \in Entries
  BY <1>4 DEF Whole
<1> DEFINE was == queue[l]
           is == Rewritten(queue[l], edit[p], p)
<1>7. /\ \A k \in Lines : k # l => (<<k, "claim">> \in Claims' <=> <<k, "claim">> \in Claims)
      /\ \A k \in Lines : k # l => (<<k, "finish">> \in Finishes' <=> <<k, "finish">> \in Finishes)
      /\ <<l, "claim">> \in Claims <=> was.status = "pending"
      /\ <<l, "claim">> \in Claims' <=> is.status = "pending"
      /\ <<l, "finish">> \in Finishes <=> was.status \in {"pending", "running"}
      /\ <<l, "finish">> \in Finishes' <=> is.status \in {"pending", "running"}
  BY <1>4 DEF Claims, Finishes
<1>8. Claims' \subseteq Lines \X {"claim"} /\ Finishes' \subseteq Lines \X {"finish"}
  BY DEF Claims, Finishes
<1> HIDE DEF was, is
<1>9. /\ was.status \in Statuses
      /\ edit[p] = "claim" => was.status = "pending" /\ is.status = "running"
      /\ edit[p] \in {"ok", "failed"} => was.status = "running" /\ is.status = edit[p]
      /\ edit[p] = "skip" => is.status = was.status \/ (was.status = "pending" /\ is.status = "skip")
  BY <1>2, <1>3, <1>6 DEF was, is, Rewritten, Drafted, Running, Entries
<1>10. CASE edit[p] = "claim"
  <2>1. <<l, "claim">> \in TurnsLeft /\ TurnsLeft' \subseteq TurnsLeft \ {<<l, "claim">>}
    <3>1. Claims' \subseteq Claims \ {<<l, "claim">>} /\ <<l, "claim">> \in Claims
      BY <1>7, <1>8, <1>9, <1>10
    <3>2. Finishes' \subseteq Finishes
      BY <1>7, <1>8, <1>9, <1>10
    <3>3. <<l, "claim">> \notin Finishes' \cup Looks' \cup Edits'
      BY DEF Finishes, Looks, Edits
    <3> QED BY <1>5, <3>1, <3>2, <3>3 DEF TurnsLeft
  <2> QED BY <2>1, OneLess, Finite
<1>11. CASE edit[p] \in {"ok", "failed"}
  <2>1. <<l, "finish">> \in TurnsLeft /\ TurnsLeft' \subseteq TurnsLeft \ {<<l, "finish">>}
    <3>1. Claims' \subseteq Claims
      BY <1>7, <1>8, <1>9, <1>11
    <3>2. Finishes' \subseteq Finishes \ {<<l, "finish">>} /\ <<l, "finish">> \in Finishes
      BY <1>7, <1>8, <1>9, <1>11
    <3>3. <<l, "finish">> \notin Claims' \cup Looks' \cup Edits'
      BY DEF Claims, Looks, Edits
    <3> QED BY <1>5, <3>1, <3>2, <3>3 DEF TurnsLeft
  <2> QED BY <2>1, OneLess, Finite
<1>12. CASE edit[p] \in {"skip", "pending"}
  <2>1. p \in Marks
    BY <1>12 DEF Inv, LockInv, ClaimedLines, Intent, Procs
  <2>2. /\ <<p, "edit">> \in Edits /\ <<p, "reclaim">> \in Edits /\ <<p, "refinish">> \in Edits
        /\ Edits' \subseteq Edits \ {<<p, "edit">>, <<p, "reclaim">>, <<p, "refinish">>}
    <3>1. pc'[p] = "copying"
      BY <1>1 DEF Inv, LockInv, TypeOK
    <3>2. /\ <<p, "edit">> \notin Edits' /\ <<p, "reclaim">> \notin Edits'
          /\ <<p, "refinish">> \notin Edits'
      BY <3>1 DEF Edits
    <3> QED BY <1>1, <1>5, <2>1, <3>2 DEF Edits
  <2>3. Claims' \subseteq Claims \cup {<<l, "claim">>} /\ Finishes' \subseteq Finishes \cup {<<l, "finish">>}
    BY <1>7, <1>8
  <2>4. /\ <<p, "edit">> \notin Claims' \cup Finishes' \cup Looks'
        /\ <<p, "reclaim">> \notin Claims' \cup Finishes' \cup Looks'
        /\ <<p, "refinish">> \notin Claims' \cup Finishes' \cup Looks'
    BY DEF Claims, Finishes, Looks
  <2>5. TurnsLeft' \subseteq ((TurnsLeft \ {<<p, "edit">>, <<p, "reclaim">>, <<p, "refinish">>})
                              \cup {<<l, "claim">>, <<l, "finish">>})
    BY <1>5, <2>2, <2>3, <2>4 DEF TurnsLeft
  <2>6. <<p, "edit">> \in TurnsLeft /\ <<p, "reclaim">> \in TurnsLeft /\ <<p, "refinish">> \in TurnsLeft
    BY <2>2 DEF TurnsLeft
  <2>7. <<p, "edit">> # <<p, "reclaim">> /\ <<p, "edit">> # <<p, "refinish">>
        /\ <<p, "reclaim">> # <<p, "refinish">>
    OBVIOUS
  <2> QED BY <2>5, <2>6, <2>7, ThreeForTwo, Finite
<1> QED BY <1>10, <1>11, <1>12 DEF Inv, LockInv, TypeOK

(* While nobody falls the board is not lost. *)
LEMMA ShownStays ==
  ASSUME LockInv, BoardInv, NobodyFell, NEW p \in Procs, Step(p) \/ Kill(p)
  PROVE  Shown' # Emptied
<1>1. Shown \in Whole
  BY DEF BoardInv
<1>2. CASE ~(Draft(p) \/ Truncate(p) \/ Copy(p) \/ Remove(p))
  BY <1>1, <1>2, QuietBoard, EmptiedFact
<1>3. CASE Truncate(p) \/ Copy(p)
  <2>1. CASE Truncate(p)
    <3>1. BoardInv'
      BY <2>1, TruncateBoard DEF Step
    <3> QED BY <3>1, EmptiedFact DEF BoardInv
  <2>2. CASE Copy(p)
    <3>1. pc[p] = "copying" /\ queue' = tmp
      BY <2>2, CopyFact
    <3>2. queue = Emptied
      BY <3>1 DEF BoardInv
    <3>3. tmp \in Whole
      BY <3>2, ShownFact
    <3> QED BY <3>1, <3>3, EmptiedFact DEF Shown
  <2> QED BY <1>3, <2>1, <2>2
<1>4. CASE Draft(p) \/ Remove(p)
  <2>1. Inside = {p} /\ pc[p] # "copying"
    BY <1>4, FilesFact DEF Draft, Remove, Inside, Section, LockInv, MutualExclusion
  <2>2. \A q \in Procs : pc[q] # "copying"
    BY <2>1 DEF Inside, Section
  <2>3. queue # Emptied
    BY <2>2 DEF BoardInv, NobodyFell
  <2> QED BY <1>4, <2>3 DEF Draft, Remove, Shown
<1> QED BY <1>2, <1>3, <1>4

(* Turns only end, and releasing the lock ends one. *)
LEMMA TurnsStep ==
  ASSUME Inv, NobodyFell, NEW p \in Procs, Step(p) \/ Kill(p), NobodyFell'
  PROVE  /\ TurnsOver \in Int /\ TurnsOver' \in Int /\ TurnsOver <= TurnsOver'
         /\ Unlock(p) => TurnsOver + 1 <= TurnsOver'
<1> DEFINE N == Cardinality(TurnsLeft)
           M == Cardinality(TurnsLeft')
<1>1. /\ Cardinality(Turns) \in Nat /\ N \in Nat /\ M \in Nat
      /\ IsFiniteSet(TurnsLeft) /\ IsFiniteSet(TurnsLeft')
  <2>1. Cardinality(Turns) \in Nat /\ N \in Nat /\ IsFiniteSet(TurnsLeft)
    BY Finite
  <2>2. IsFiniteSet(TurnsLeft')
    <3>1. TurnsLeft' \subseteq Turns
      BY DEF TurnsLeft, Turns, Claims, Finishes, Looks, Edits
    <3> QED BY <3>1, Finite, FS_Subset
  <2> QED BY <2>1, <2>2, FS_CardinalityType
<1>2. TurnsOver = Cardinality(Turns) - N - (IF TurnUsed THEN 1 ELSE 0)
      /\ TurnsOver' = Cardinality(Turns) - M - (IF TurnUsed' THEN 1 ELSE 0)
  BY DEF TurnsOver
<1> HIDE DEF N, M
<1>3. ASSUME TurnsLeft' \subseteq TurnsLeft PROVE M <= N
  BY <1>1, <1>3, FS_Subset DEF N, M
<1>4. CASE Truncate(p)
  <2>1. Step(p) /\ ~Unlock(p)
    BY <1>4 DEF Step, Truncate, Unlock
  <2>2. M <= N - 1
    BY <1>4, <2>1, TruncateTurn DEF N, M
  <2> QED BY <1>1, <1>2, <2>1, <2>2
<1>5. CASE ~Truncate(p)
  <2>1. Shown' = Shown
    BY <1>5, ShownStays, QuietBoard, DraftBoard, CopyBoard DEF Inv, Step
  <2>2. TurnsLeft' \subseteq TurnsLeft
    BY <2>1, TurnsStay DEF Inv
  <2>3. M <= N
    BY <1>3, <2>2
  <2>4. CASE PickPending(p)
    <3>1. pc[p] = "picking" /\ ~Unlock(p)
      BY <2>4 DEF PickPending, Unlock
    <3>2. CASE pc'[p] = "drafting"
      <4>1. ~TurnUsed'
        <5> SUFFICES ASSUME NEW q \in Procs PROVE pc'[q] \notin {"copying", "removing", "unlocking"}
          BY DEF TurnUsed
        <5>1. CASE q = p BY <3>2, <5>1
        <5>2. CASE q # p
          <6>1. pc'[q] = pc[q] /\ pc[q] \notin Section
            BY <3>1, <5>2, Others, LockTyped DEF Inv, LockInv, MutualExclusion, Inside, Section
          <6> QED BY <6>1 DEF Section
        <5> QED BY <5>1, <5>2
      <4> QED BY <1>1, <1>2, <2>3, <3>1, <4>1
    <3>3. CASE pc'[p] # "drafting"
      <4>1. /\ line' = [line EXCEPT ![p] = 0] /\ pc' = [pc EXCEPT ![p] = "unlocking"] /\ edit' = edit
            /\ p \in Workers /\ edit[p] = "claim"
        <5>1. line' = [line EXCEPT ![p] = 0] /\ pc' = [pc EXCEPT ![p] = "unlocking"]
          <6>1. pc' = [pc EXCEPT ![p] = "drafting"] => pc'[p] = "drafting"
            BY DEF Inv, LockInv, TypeOK
          <6> QED BY <2>4, <3>3, <6>1, PickFact, LockTyped DEF Inv
        <5>2. edit' = edit
          BY <2>4 DEF PickPending
        <5>3. p \in Workers /\ edit[p] = "claim"
          BY <3>1 DEF Inv, LockInv, ClaimedLines, Intent, Procs
        <5> QED BY <5>1, <5>2, <5>3
      <4>2. FoundNone(p)' /\ ~FoundNone(p) /\ pc[p] \notin Ended
        BY <3>1, <4>1, Place DEF FoundNone, Inv, LockInv, TypeOK
      <4>3. <<p, "look">> \in TurnsLeft
        BY <4>1, <4>2 DEF TurnsLeft, Looks
      <4>4. <<p, "look">> \notin TurnsLeft'
        BY <4>2 DEF TurnsLeft, Looks, Claims, Finishes, Edits
      <4>5. M <= N - 1
        BY <1>1, <2>2, <4>3, <4>4, OneLess DEF N, M
      <4> QED BY <1>1, <1>2, <3>1, <4>5
    <3> QED BY <3>2, <3>3
  <2>5. CASE Unlock(p)
    <3>1. pc[p] = "unlocking" /\ pc'[p] \notin {"copying", "removing", "unlocking"}
      BY <2>5 DEF Unlock, Goto, Inv, LockInv, TypeOK
    <3>2. TurnUsed
      BY <3>1 DEF TurnUsed
    <3>3. ~TurnUsed'
      <4> SUFFICES ASSUME NEW q \in Procs PROVE pc'[q] \notin {"copying", "removing", "unlocking"}
        BY DEF TurnUsed
      <4>1. CASE q # p
        <5>1. pc'[q] = pc[q] /\ pc[q] \notin Section
          BY <3>1, <4>1, Others, LockTyped DEF Inv, LockInv, MutualExclusion, Inside, Section
        <5> QED BY <5>1 DEF Section
      <4> QED BY <3>1, <4>1
    <3> QED BY <1>1, <1>2, <2>3, <3>2, <3>3
  <2>6. CASE ~PickPending(p) /\ ~Unlock(p)
    <3>1. TurnUsed' => TurnUsed
      BY <1>5, <2>6, Place, Others, LockTyped DEF TurnUsed, Inv
    <3> QED BY <1>1, <1>2, <2>3, <2>6, <3>1
  <2> QED BY <2>4, <2>5, <2>6
<1> QED BY <1>4, <1>5

(* Nobody's patience runs out in a step. *)
LEMMA StepWaits ==
  ASSUME Patient, Inv, NobodyFell, NEW p \in Procs, Step(p) \/ Kill(p), NobodyFell'
  PROVE  PatienceLasts'
<1> DEFINE B == SectionPolls * TurnsOver
           C == SectionPolls * TurnsOver'
<1>1. B \in Int /\ C \in Int /\ B <= C
  BY TurnsStep, Times
<1>2. Unlock(p) => B + SectionPolls <= C
  <2> SUFFICES ASSUME Unlock(p) PROVE B + SectionPolls <= C
    OBVIOUS
  <2>1. TurnsOver \in Int /\ TurnsOver + 1 \in Int /\ TurnsOver' \in Int /\ TurnsOver + 1 <= TurnsOver'
    BY TurnsStep
  <2>2. SectionPolls * (TurnsOver + 1) <= C
    BY <2>1, Times
  <2>3. SectionPolls * (TurnsOver + 1) = B + SectionPolls
    BY <2>1, Times
  <2> QED BY <2>2, <2>3
<1> HIDE DEF B, C
<1>3. /\ lockdir => Inside # {}
      /\ \A q \in Procs : Refusals(q) <= B + (IF Inside = {} THEN 0 ELSE polls[q])
  BY DEF Inv, PatienceLasts, B
<1>4. \A q \in Procs : /\ waited[q] \in Nat /\ polls[q] \in Nat /\ polls[q] <= SectionPolls
                       /\ SectionPolls \in Nat
  BY PatienceAssumption DEF Inv, LockInv, TypeOK
<1>5. ~BreakLock(p)
  BY NoBreak
<1> SUFFICES /\ lockdir' => Inside' # {}
             /\ \A q \in Procs : Refusals(q)' <= C + (IF Inside' = {} THEN 0 ELSE polls'[q])
  BY DEF PatienceLasts, C
<1>6. \A q \in Procs : q # p => pc'[q] = pc[q]
  BY Others, LockTyped DEF Inv
<1>7. pc \in [Procs -> Pcs] /\ waited \in [Procs -> 0..Patience] /\ polls \in [Procs -> 0..SectionPolls]
  BY DEF Inv, LockInv, TypeOK
<1>8. (Inside # {} => lockdir) /\ \A q, r \in Inside : q = r
  BY DEF Inv, LockInv, MutualExclusion
<1>9. CASE Acquire(p)
  <2>1. /\ lockdir = FALSE /\ waited' = [waited EXCEPT ![p] = 0] /\ polls' = [q \in Procs |-> 0]
        /\ pc'[p] \in {"picking", "drafting"}
    BY <1>7, <1>9 DEF Acquire, Goto
  <2>2. Inside = {} /\ Inside' # {}
    BY <1>8, <2>1 DEF Inside, Section
  <2>3. \A q \in Procs : Refusals(q) <= B /\ Refusals(q) \in Nat
    <3>1. \A q \in Procs : Refusals(q) \in Nat
      BY <1>4 DEF Refusals
    <3>2. \A q \in Procs : Refusals(q) <= B + 0
      BY <1>3, <2>2
    <3> QED BY <1>1, <3>1, <3>2
  <2>4. \A q \in Procs : Refusals(q)' \in {0, Refusals(q)}
    BY <1>6, <1>7, <2>1 DEF Refusals
  <2>5. \A q \in Procs : polls'[q] = 0
    BY <2>1
  <2> QED BY <1>1, <2>2, <2>3, <2>4, <2>5
<1>10. CASE Refused(p)
  <2>1. lockdir /\ Inside # {} /\ lockdir' = lockdir /\ waited' = waited
        /\ polls' = [polls EXCEPT ![p] = @ + 1] /\ pc[p] = "locking" /\ pc' = [pc EXCEPT ![p] = "refused"]
    BY <1>3, <1>10 DEF Refused, Goto
  <2>2. Inside' = Inside
    BY <1>7, <2>1 DEF Inside, Section
  <2>3. Refusals(p)' = Refusals(p) + 1 /\ Refusals(p) \in Nat /\ polls'[p] = polls[p] + 1
    BY <1>4, <1>7, <2>1 DEF Refusals
  <2>4. \A q \in Procs : q # p => Refusals(q)' = Refusals(q) /\ polls'[q] = polls[q] /\ Refusals(q) \in Nat
    BY <1>4, <1>6, <1>7, <2>1 DEF Refusals
  <2> QED BY <1>1, <1>3, <1>4, <2>1, <2>2, <2>3, <2>4
<1>11. CASE Sleep(p)
  <2>1. lockdir' = lockdir /\ polls' = polls /\ waited' = [waited EXCEPT ![p] = @ + 1]
        /\ pc[p] = "refused" /\ pc' = [pc EXCEPT ![p] = "locking"]
    BY <1>11 DEF Sleep, Goto
  <2>2. Inside' = Inside
    BY <1>7, <2>1 DEF Inside, Section
  <2>3. \A q \in Procs : Refusals(q)' = Refusals(q) /\ Refusals(q) \in Nat
    BY <1>4, <1>6, <1>7, <2>1 DEF Refusals
  <2> QED BY <1>1, <1>3, <1>4, <2>1, <2>2, <2>3
<1>12. CASE PickPending(p) \/ Draft(p) \/ Truncate(p) \/ Copy(p) \/ Remove(p)
  <2>1. UNCHANGED lockVars
    BY <1>12 DEF PickPending, Draft, Truncate, Copy, Remove
  <2>2. pc[p] \in Section /\ pc'[p] \in Section
    <3>1. CASE PickPending(p) BY <1>7, <3>1 DEF PickPending, Goto, Section
    <3>2. CASE Draft(p) BY <1>7, <3>2 DEF Draft, Goto, Section
    <3>3. CASE Truncate(p) BY <1>7, <3>3 DEF Truncate, Goto, Section
    <3>4. CASE Copy(p) BY <1>7, <3>4, CopyFact DEF Inv, Section
    <3>5. CASE Remove(p) BY <1>7, <3>5 DEF Remove, Goto, Section
    <3> QED BY <1>12, <3>1, <3>2, <3>3, <3>4, <3>5
  <2>3. Inside' = Inside
    BY <1>6, <2>2 DEF Inside
  <2>4. \A q \in Procs : Refusals(q)' = Refusals(q) /\ Refusals(q) \in Nat
    BY <1>4, <1>6, <2>1, <2>2 DEF Refusals, lockVars, Section
  <2> QED BY <1>1, <1>3, <1>4, <2>1, <2>3, <2>4 DEF lockVars
<1>13. CASE Unlock(p)
  <2>1. /\ lockdir' = FALSE /\ waited' = waited /\ polls' = polls /\ pc[p] = "unlocking"
        /\ pc'[p] \in {"done", "working", "locking"}
    BY <1>7, <1>13 DEF Unlock, Goto
  <2>2. Inside # {} /\ Inside' = {}
    BY <1>6, <1>8, <2>1 DEF Inside, Section
  <2>3. \A q \in Procs : Refusals(q)' = Refusals(q) /\ Refusals(q) \in Nat
    BY <1>4, <1>6, <2>1 DEF Refusals
  <2> QED BY <1>1, <1>2, <1>3, <1>4, <1>13, <2>1, <2>2, <2>3
<1>14. CASE Work(p) \/ Mark(p) \/ Kill(p)
  <2>1. UNCHANGED lockVars
    BY <1>14 DEF Work, Mark, Kill
  <2>2. pc[p] \notin Section /\ pc'[p] \notin Section /\ pc'[p] # "refused"
    <3>1. CASE Work(p) BY <1>7, <3>1 DEF Work, Goto, Section
    <3>2. CASE Mark(p) BY <1>7, <3>2 DEF Mark, Goto, Section
    <3>3. CASE Kill(p) BY <1>7, <3>3 DEF Kill, Goto, Section, NobodyFell
    <3> QED BY <1>14, <3>1, <3>2, <3>3
  <2>3. Inside' = Inside
    BY <1>6, <2>2 DEF Inside
  <2>4. \A q \in Procs : Refusals(q)' <= Refusals(q) /\ Refusals(q) \in Nat /\ Refusals(q)' \in Nat
    BY <1>4, <1>6, <2>1, <2>2 DEF Refusals, lockVars
  <2> QED BY <1>1, <1>3, <1>4, <2>1, <2>3, <2>4 DEF lockVars
<1> QED BY <1>5, <1>9, <1>10, <1>11, <1>12, <1>13, <1>14 DEF Step

-----------------------------------------------------------------------------
(* The parts hold together.                                                *)

(* what holds whoever is killed, and wherever *)
LocksAndBoard == Typed /\ (~overrun => LockInv) /\ (~Lost => BoardInv)

(* what holds of patient waiters *)
NoneBroken == NobodyFell => ~Lost /\ PatienceLasts

(* A broken lock and a lost board stay so. *)
LEMMA LostStays ==
  ASSUME Typed, NEW p \in Procs, Step(p) \/ Kill(p)
  PROVE  (overrun => overrun') /\ (Lost => Lost')
<1> USE DEF Typed, TypeOK, Goto, files, lockVars
<1>1. overrun => overrun'
  BY DEF Step, Acquire, Refused, Sleep, BreakLock, PickPending, Draft, Truncate, Copy, Remove,
         Unlock, Work, Mark, Kill
<1>2. ASSUME Shown = Emptied PROVE Shown' = Emptied
  <2>1. queue = Emptied /\ tmp \in {Emptied, NoFile}
    BY <1>2, EmptiedFact DEF Shown
  <2>2. CASE Draft(p)
    <3>1. tmp' = Emptied /\ queue' = Emptied
      BY <2>1, <2>2, DraftFact, EmptiedFact DEF Draft
    <3> QED BY <3>1 DEF Shown
  <2>3. CASE Truncate(p) BY <2>1, <2>3 DEF Truncate, Shown
  <2>4. CASE Copy(p) BY <2>1, <2>4 DEF Copy, Shown
  <2>5. CASE Remove(p) BY <2>1, <2>5 DEF Remove, Shown
  <2>6. CASE ~(Draft(p) \/ Truncate(p) \/ Copy(p) \/ Remove(p))
    <3>1. queue' = queue /\ tmp' = tmp
      BY <2>6 DEF Step, Acquire, Refused, Sleep, BreakLock, PickPending, Unlock, Work, Mark, Kill
    <3> QED BY <1>2, <3>1 DEF Shown
  <2> QED BY <2>2, <2>3, <2>4, <2>5, <2>6
<1> QED BY <1>1, <1>2 DEF Lost

LEMMA StepLock ==
  ASSUME LockInv, NEW p \in Procs, Step(p) \/ Kill(p), ~overrun'
  PROVE  LockInv'
BY LockTyped, StepTyped, StepMutex, StepClaims, StepOne DEF LockInv, Typed

LEMMA StepBoard ==
  ASSUME LockInv, BoardInv, NEW p \in Procs, Step(p) \/ Kill(p), Shown' # Emptied
  PROVE  /\ BoardInv'
         /\ Shown' = Shown \/ \E l \in Lines : Board!Change(l)
<1>1. CASE ~(Draft(p) \/ Truncate(p) \/ Copy(p) \/ Remove(p))
  BY <1>1, QuietBoard
<1>2. CASE Draft(p)
  BY <1>2, DraftBoard DEF Step
<1>3. CASE Truncate(p)
  BY <1>3, TruncateBoard, TruncateStep DEF Step
<1>4. CASE Copy(p) \/ Remove(p)
  BY <1>4, CopyBoard DEF Step
<1> QED BY <1>1, <1>2, <1>3, <1>4

LEMMA StutterLocks ==
  ASSUME UNCHANGED vars
  PROVE  /\ LocksAndBoard => LocksAndBoard'
         /\ NoneBroken => NoneBroken'
         /\ Shown' = Shown /\ Lost' = Lost
<1> USE DEF vars, lockVars, files
<1>1. Shown' = Shown /\ Lost' = Lost
  BY DEF Shown, Lost
<1>2. Typed => Typed'
  BY DEF Typed, TypeOK
<1>3. LockInv => LockInv'
  BY DEF LockInv, TypeOK, MutualExclusion, Inside, ClaimedLines, Copying, Intent, Held, Owns,
     Engaged, WorkersApart
<1>4. BoardInv => BoardInv'
  BY <1>1 DEF BoardInv, Drafted, PendingIsFree, RunningIsHeld, Holding
<1>5. NoneBroken => NoneBroken'
  <2>1. TurnsOver' = TurnsOver /\ Inside' = Inside
    BY <1>1 DEF TurnsOver, TurnsLeft, Claims, Finishes, Looks, Edits, FoundNone, TurnUsed, Inside
  <2> QED BY <1>1, <2>1 DEF NoneBroken, NobodyFell, PatienceLasts, Refusals
<1> QED BY <1>1, <1>2, <1>3, <1>4, <1>5 DEF LocksAndBoard

LEMMA LocksHold == Spec => []LocksAndBoard
<1>1. Init => LocksAndBoard
  BY InitInv, InitBoard, LockTyped DEF LocksAndBoard
<1>2. LocksAndBoard /\ [Next]_vars => LocksAndBoard'
  <2> SUFFICES ASSUME LocksAndBoard, [Next]_vars PROVE LocksAndBoard'
    OBVIOUS
  <2>1. ASSUME NEW p \in Procs, Step(p) \/ Kill(p) PROVE LocksAndBoard'
    <3>1. Typed'
      BY <2>1, StepTyped DEF LocksAndBoard
    <3>2. ~overrun' => LockInv'
      BY <2>1, LostStays, StepLock DEF LocksAndBoard
    <3>3. ~Lost' => BoardInv'
      <4> SUFFICES ASSUME ~Lost' PROVE BoardInv'
        OBVIOUS
      <4>1. ~Lost /\ ~overrun /\ Shown' # Emptied
        BY <2>1, LostStays DEF LocksAndBoard, Lost
      <4> QED BY <2>1, <4>1, StepBoard DEF LocksAndBoard
    <3> QED BY <3>1, <3>2, <3>3 DEF LocksAndBoard
  <2>2. CASE UNCHANGED vars
    BY <2>2, StutterLocks
  <2> QED BY <2>1, <2>2 DEF Next
<1> QED BY <1>1, <1>2, PTL DEF Spec

LEMMA NoneBrokenHolds == Patient => (Spec => []NoneBroken)
<1>1. Init => NoneBroken
  <2> SUFFICES ASSUME Init PROVE ~Lost /\ PatienceLasts
    BY DEF NoneBroken
  <2>1. Shown \in Whole /\ overrun = FALSE
    BY InitBoard DEF BoardInv, Init
  <2> QED BY <2>1, InitWaits, EmptiedFact DEF Lost
<1>2. ASSUME Patient PROVE LocksAndBoard /\ NoneBroken /\ [Next]_vars => NoneBroken'
  <2> SUFFICES ASSUME LocksAndBoard, NoneBroken, [Next]_vars, NobodyFell' PROVE ~Lost' /\ PatienceLasts'
    BY DEF NoneBroken
  <2>1. ASSUME NEW p \in Procs, Step(p) \/ Kill(p) PROVE ~Lost' /\ PatienceLasts'
    <3>1. NobodyFell
      <4>1. pc[p] # "fallen"
        BY <2>1 DEF Step, Acquire, Refused, Sleep, BreakLock, PickPending, Draft, Truncate, Copy,
                    Remove, Unlock, Work, Mark, Kill, Ended
      <4> QED BY <2>1, <4>1, Others DEF NobodyFell, LocksAndBoard
    <3>2. Inv /\ ~overrun
      BY <3>1 DEF NoneBroken, LocksAndBoard, Lost, Inv
    <3>3. ~overrun'
      <4>1. ~BreakLock(p)
        BY <1>2, <3>2, NoBreak
      <4> QED BY <2>1, <3>2, <4>1 DEF Step, Acquire, Refused, Sleep, PickPending, Draft, Truncate, Copy,
                                  Remove, Unlock, Work, Mark, Kill, lockVars
    <3>4. Shown' # Emptied
      BY <2>1, <3>1, <3>2, ShownStays DEF Inv
    <3>5. PatienceLasts'
      BY <1>2, <2>1, <3>1, <3>2, StepWaits
    <3> QED BY <3>3, <3>4, <3>5 DEF Lost
  <2>2. CASE UNCHANGED vars
    BY <2>2, StutterLocks DEF NoneBroken
  <2> QED BY <2>1, <2>2 DEF Next
<1>3. ASSUME Patient PROVE Spec => []NoneBroken
  <2>1. LocksAndBoard /\ NoneBroken /\ [Next]_vars => NoneBroken'
    BY <1>2, <1>3
  <2> QED BY <1>1, <2>1, LocksHold, PTL DEF Spec
<1> QED BY <1>3

(* The inductive invariant of the lock and the queue file (queue.sh        *)
(* queue_lock, queue_edit) holds, whoever dies and wherever, until a live  *)
(* holder's lock is broken.                                                *)
THEOREM QueueInvariant == Spec => []QueueInv
<1>1. LocksAndBoard => QueueInv
  BY DEF LocksAndBoard, Typed, LockInv, QueueInv
<1> QED BY <1>1, LocksHold, PTL

(* No two workers are at work on one varloc (queue.sh queue_claim),        *)
(* whoever dies and wherever, until a live holder's lock is broken.        *)
THEOREM OneWorker == Spec => []OneWorkerPerLine
<1>1. LocksAndBoard => OneWorkerPerLine
  BY DEF LocksAndBoard, LockInv, WorkersApart, OneWorkerPerLine
<1> QED BY <1>1, LocksHold, PTL

(* Patient waiters break no live holder's lock (queue.sh queue_lock) before *)
(* a holder has died.                                                      *)
THEOREM PatientWaiters == Patient => (Spec => []LiveLocksStay)
<1>1. ASSUME Patient PROVE Spec => []LiveLocksStay
  <2>1. NoneBroken => LiveLocksStay
    BY DEF NoneBroken, NobodyFell, Lost, LiveLocksStay
  <2>2. Spec => []NoneBroken
    BY <1>1, NoneBrokenHolds
  <2> QED BY <2>1, <2>2, PTL
<1> QED BY <1>1

(* The queue file implements the board (queue.sh queue_claim, queue_edit,   *)
(* queue_mark.sh): every entry stays on it, a worker claims one at a time  *)
(* and nobody else changes it until it is finished, whoever dies, until    *)
(* the board is lost.                                                      *)
THEOREM QueueIsBoard == Spec => BoardSpec
<1>1. Init => Board!BoardInit
  <2> SUFFICES ASSUME Init PROVE Board!BoardInit
    OBVIOUS
  <2>1. /\ Shown = [l \in Lines |-> [status |-> "pending", job |-> NoJob]] /\ Shown \in Whole
        /\ overrun = FALSE
    BY InitBoard DEF BoardInv, Init
  <2>2. Lost = FALSE
    BY <2>1, EmptiedFact DEF Lost
  <2> QED BY <2>1, <2>2 DEF Board!BoardInit
<1>2. LocksAndBoard /\ [Next]_vars => [Board!BoardNext]_<<Shown, Lost>>
  <2> SUFFICES ASSUME LocksAndBoard, [Next]_vars, ~Lost'
               PROVE  Board!Turn \/ (Shown' = Shown /\ Lost' = Lost)
    BY DEF Board!BoardNext, Board!Lose
  <2>1. ASSUME NEW p \in Procs, Step(p) \/ Kill(p)
        PROVE  Board!Turn \/ (Shown' = Shown /\ Lost' = Lost)
    <3>1. ~Lost /\ ~overrun /\ Shown' # Emptied
      BY <2>1, LostStays DEF LocksAndBoard, Lost
    <3>2. LockInv /\ BoardInv
      BY <3>1 DEF LocksAndBoard
    <3>3. Shown' = Shown \/ \E l \in Lines : Board!Change(l)
      BY <2>1, <3>1, <3>2, StepBoard
    <3>4. Lost' = Lost
      BY <3>1 DEF Lost
    <3> QED BY <3>1, <3>3, <3>4 DEF Board!Turn
  <2>2. CASE UNCHANGED vars
    BY <2>2, StutterLocks
  <2> QED BY <2>1, <2>2 DEF Next
<1> QED BY <1>1, <1>2, LocksHold, PTL DEF Spec, BoardSpec, Board!BoardSpec

=============================================================================
