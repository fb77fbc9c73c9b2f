-------------------------- MODULE RunClaims_proofs --------------------------
(***************************************************************************)
(* Proofs about RunClaims, for any number of requests, polls and pushes,   *)
(* any deadlines and any faults.                                           *)
(***************************************************************************)
EXTENDS RunClaims, TLAPS

-----------------------------------------------------------------------------
(* Type correctness                                                        *)

LEMMA InitType == Init => TypeOK
BY StaleAssumption
DEF Init, TypeOK, BucketInit, BucketTypeOK, RunInit, RunTypeOK, CallInit, CallTypeOK,
    PushInit, PushTypeOK, NoClaim, Claims, NoReport, Reports, RunPcs, PostPcs, PollPcs,
    PushPcs, Callers, maxClaimAttempts

(* A step of a POST or GET keeps the types. *)
LEMMA PostStepType ==
  ASSUME TypeOK, NEW r \in Requests, PostStep(r) \/ PostCrash(r), UNCHANGED pushVars
  PROVE  TypeOK'
<1> USE StaleAssumption, TriggerAssumption, CallersAssumption DEF TypeOK, BucketTypeOK,
        RunTypeOK, CallTypeOK, PushTypeOK, Callers, CallGoto, Answer, bucketVars, runVars,
        callVars, pushVars, claimVars, fileVars, reportVars, maxClaimAttempts,
        PostPcs, PollPcs, Clearing, PostAnswers, PollAnswers
<1>1. CASE CheckOutput(r) BY <1>1 DEF CheckOutput
<1>2. CASE ClearRead(r) BY <1>2 DEF ClearRead, Claims
<1>3. CASE ClearRelease(r) BY <1>3 DEF ClearRelease, ReleaseRun, NoClaim, Claims
<1>4. CASE ClaimRead(r) BY <1>4, SMTT(40) DEF ClaimRead, Claims
<1>5. CASE ClaimPut(r) BY <1>5 DEF ClaimPut, PutClaim, Claims
<1>6. CASE WriteTreatmentArea(r) BY <1>6 DEF WriteTreatmentArea
<1>7. CASE Trigger(r) BY <1>7 DEF Trigger, Launch, RunGoto, RunPcs
<1>8. CASE GiveUp(r) BY <1>8 DEF GiveUp, ReleaseRun, NoClaim, Claims
<1>9. CASE PostCrash(r) BY <1>9 DEF PostCrash
<1> QED BY <1>1, <1>2, <1>3, <1>4, <1>5, <1>6, <1>7, <1>8, <1>9 DEF PostStep

LEMMA PollStepType ==
  ASSUME TypeOK, NEW q \in Polls, PollStep(q), UNCHANGED pushVars
  PROVE  TypeOK'
<1> USE StaleAssumption, CallersAssumption DEF TypeOK, BucketTypeOK,
        RunTypeOK, CallTypeOK, PushTypeOK, Callers, CallGoto, bucketVars, runVars,
        callVars, pushVars, claimVars, fileVars, reportVars,
        PostPcs, PollPcs, Clearing, PostAnswers, PollAnswers
<1>1. CASE PollOutput(q) BY <1>1 DEF PollOutput
<1>2. CASE PollClaim(q) BY <1>2 DEF PollClaim
<1>3. CASE ClearRead(q) BY <1>3 DEF ClearRead, Claims
<1>4. CASE ClearRelease(q) BY <1>4 DEF ClearRelease, ReleaseRun, NoClaim, Claims
<1> QED BY <1>1, <1>2, <1>3, <1>4 DEF PollStep

LEMMA RunStepType ==
  ASSUME TypeOK, NEW e \in Requests, RunStep(e) \/ Killed(e), UNCHANGED <<callVars, pushVars>>
  PROVE  TypeOK'
<1> USE DEF TypeOK, BucketTypeOK, RunTypeOK, CallTypeOK, PushTypeOK, RunGoto, bucketVars,
        callVars, pushVars, claimVars, fileVars, reportVars, RunPcs, Live, Writing, RunEnded
<1>1. CASE Start(e) BY <1>1 DEF Start
<1>2. CASE RunRaises(e) BY <1>2 DEF RunRaises
<1>3. CASE UploadMeta(e) BY <1>3 DEF UploadMeta
<1>4. CASE UploadOutput(e) BY <1>4 DEF UploadOutput
<1>5. CASE WriteReport(e)
  <2>1. report' \in Reports BY <1>5 DEF WriteReport, Reports
  <2>3. inbox' \subseteq Nat
    <3>1. inbox' \in {inbox, inbox \cup {runGen[e]}} BY <1>5 DEF WriteReport
    <3>2. inbox \subseteq Nat /\ runGen[e] \in Nat OBVIOUS
    <3> QED BY <3>1, <3>2, Zenon
  <2>2. RunTypeOK' BY <1>5 DEF WriteReport
  <2> QED BY <1>5, <2>1, <2>2, <2>3 DEF WriteReport
<1>6. CASE Killed(e) BY <1>6 DEF Killed
<1> QED BY <1>1, <1>2, <1>3, <1>4, <1>5, <1>6 DEF RunStep

LEMMA PushStepType ==
  ASSUME TypeOK, NEW p \in Pushes, UNCHANGED <<runVars, callVars>>,
         (\E g \in inbox : Deliver(p, g)) \/ PushStep(p) \/ PushCrash(p)
  PROVE  TypeOK'
<1> USE StaleAssumption DEF TypeOK, BucketTypeOK, RunTypeOK, CallTypeOK, PushTypeOK,
        PushGoto, Respond, Ack, Nack, PushPcs, bucketVars, runVars, callVars,
        claimVars, fileVars, reportVars
<1>1. CASE \E g \in inbox : Deliver(p, g) BY <1>1 DEF Deliver
<1>2. CASE ReadReport(p)
  <2>1. inbox' \subseteq Nat BY <1>2 DEF ReadReport
  <2>2. PushTypeOK' BY <1>2 DEF ReadReport
  <2> QED BY <1>2, <2>1, <2>2 DEF ReadReport
<1>3. CASE ReleaseFinished(p) BY <1>3 DEF ReleaseFinished, ReleaseRun, NoClaim, Claims
<1>4. CASE OwnsClaim(p) BY <1>4 DEF OwnsClaim
<1>5. CASE ListOutput(p) BY <1>5 DEF ListOutput, Files
<1>6. CASE DeleteNext(p) BY <1>6 DEF DeleteNext, Files
<1>7. CASE MarkFailed(p)
  <2>1. claim' \in Claims /\ lastGen' \in Nat BY <1>7 DEF MarkFailed, PutClaim, Claims
  <2>3. inbox' \subseteq Nat BY <1>7 DEF MarkFailed
  <2>2. PushTypeOK' BY <1>7 DEF MarkFailed
  <2> QED BY <1>7, <2>1, <2>2, <2>3 DEF MarkFailed
<1>8. CASE DropReport(p)
  <2>1. report' \in Reports BY <1>8 DEF DropReport, NoReport, Reports
  <2>3. inbox' \subseteq Nat BY <1>8 DEF DropReport
  <2>2. PushTypeOK' BY <1>8 DEF DropReport
  <2> QED BY <1>8, <2>1, <2>2, <2>3 DEF DropReport
<1>9. CASE PushCrash(p) BY <1>9 DEF PushCrash
<1> QED BY <1>1, <1>2, <1>3, <1>4, <1>5, <1>6, <1>7, <1>8, <1>9 DEF PushStep

LEMMA TickType ==
  ASSUME TypeOK, Tick
  PROVE  TypeOK'
BY StaleAssumption DEF Tick, TypeOK, BucketTypeOK, RunTypeOK, CallTypeOK, PushTypeOK,
   AgeClaim, AgePosts, AgeRuns, Fresh, Running, Stale, Claims, fileVars, reportVars, pushVars

LEMMA NextType == TypeOK /\ [Next]_vars => TypeOK'
<1> SUFFICES ASSUME TypeOK, [Next]_vars PROVE TypeOK'
    OBVIOUS
<1>1. CASE CallNext BY <1>1, PostStepType, PollStepType DEF CallNext
<1>2. CASE RunNext BY <1>2, RunStepType DEF RunNext
<1>3. CASE PushNext BY <1>3, PushStepType DEF PushNext
<1>4. CASE Tick BY <1>4, TickType
<1>5. CASE UNCHANGED vars
  BY <1>5 DEF vars, bucketVars, runVars, callVars, pushVars, TypeOK, BucketTypeOK,
     RunTypeOK, CallTypeOK, PushTypeOK
<1> QED BY <1>1, <1>2, <1>3, <1>4, <1>5 DEF Next

(* Every variable keeps its type, whatever the handlers, the runs and the  *)
(* faults do.                                                              *)
THEOREM TypeCorrect == Spec => []TypeOK
<1>1. Init => TypeOK BY InitType
<1>2. TypeOK /\ [Next]_vars => TypeOK' BY NextType
<1> QED BY <1>1, <1>2, PTL DEF Spec

-----------------------------------------------------------------------------
(* The inductive invariant.  Each lemma below takes one kind of step; a    *)
(* case of it that disturbs no conjunct much is one leaf, the others get   *)
(* one step per conjunct.                                                  *)

Parts == /\ ClaimShape /\ GensGiven /\ PostInv /\ ClearInv
         /\ RunInv /\ ReportInv /\ AgeInv

LEMMA InitParts == Init => Parts
BY StaleAssumption, RequestsAssumption
DEF Init, Parts, BucketInit, RunInit, CallInit, PushInit, NoClaim, NoReport, Callers,
    ClaimShape, GensGiven, PostInv, ClearInv, RunInv, ReportInv, AgeInv, CleaningUp,
    Clearing, Detached, Holding, Live, Writing

(* clearFinishedClaim remembers only the generation of a running claim *)
LEMMA ClearReadParts ==
  ASSUME ClaimInv, NEW c \in Callers, ClearRead(c), UNCHANGED pushVars
  PROVE  Parts'
<1> USE CallersAssumption
        DEF ClaimInv, TypeOK, BucketTypeOK, RunTypeOK, CallTypeOK, PushTypeOK, Claims, Callers,
            ClearRead, CallGoto, bucketVars, runVars, pushVars, Clearing, Holding, Detached,
            Running, ClaimShape, GensGiven
<1>1. ClaimShape' /\ GensGiven' OBVIOUS
<1>2. PostInv' BY DEF PostInv, ClaimedAt, Fresh, Stale
<1>3. ClearInv' BY DEF ClearInv, NoClaim
<1>4. RunInv' BY DEF RunInv, ClaimedAt
<1>5. ReportInv' BY DEF ReportInv, Ended
<1>6. AgeInv' BY DEF AgeInv
<1> QED BY <1>1, <1>2, <1>3, <1>4, <1>5, <1>6 DEF Parts

(* a claim that is released was running, and its generation never returns *)
LEMMA ClearReleaseParts ==
  ASSUME ClaimInv, NEW c \in Callers, ClearRelease(c), UNCHANGED pushVars
  PROVE  Parts'
BY CallersAssumption, RequestsAssumption
DEF ClaimInv, TypeOK, BucketTypeOK, RunTypeOK, CallTypeOK, PushTypeOK, Claims, Callers,
    ClearRelease, ReleaseRun, CallGoto, fileVars, reportVars, runVars, pushVars, Clearing,
    Holding, Detached, Live, Writing, Running, Fresh, Stale, NoClaim, Parts, ClaimShape,
    GensGiven, PostInv, ClearInv, ClaimedAt, RunInv, ReportInv, Ended, AgeInv

LEMMA PostStepParts ==
  ASSUME ClaimInv, NEW r \in Requests, PostStep(r) \/ PostCrash(r), UNCHANGED pushVars
  PROVE  Parts'
<1> USE CallersAssumption, RequestsAssumption
        DEF ClaimInv, TypeOK, BucketTypeOK, RunTypeOK, CallTypeOK, PushTypeOK, Claims, Callers,
            CallGoto, Answer, bucketVars, runVars, pushVars, claimVars, fileVars, reportVars,
            PostPcs, PostAnswers, Clearing, Holding, Detached, Live, Writing, Running, Fresh,
            Stale, ClaimShape, GensGiven
<1>1. CASE CheckOutput(r)
  BY <1>1 DEF CheckOutput, Parts, PostInv, ClearInv, ClaimedAt, RunInv, ReportInv, Ended, AgeInv
<1>2. CASE ClearRead(r) BY <1>2, ClearReadParts
<1>3. CASE ClearRelease(r) BY <1>3, ClearReleaseParts
<1>4. CASE ClaimRead(r)
  <2> USE <1>4 DEF ClaimRead
  <2>1. ClaimShape' /\ GensGiven' OBVIOUS
  <2>2. PostInv' BY DEF PostInv, ClaimedAt
  <2>3. ClearInv' BY DEF ClearInv
  <2>4. RunInv' BY DEF RunInv, ClaimedAt
  <2>5. ReportInv' BY DEF ReportInv, Ended
  <2>6. AgeInv' BY TriggerAssumption DEF AgeInv
  <2> QED BY <2>1, <2>2, <2>3, <2>4, <2>5, <2>6 DEF Parts
<1>5. CASE ClaimPut(r)
  <2> USE <1>5 DEF ClaimPut, PutClaim
  <2>1. ClaimShape' BY DEF NoClaim
  <2>7. GensGiven' BY DEF Reports
  <2>2. PostInv' BY DEF PostInv, ClaimedAt, RunInv
  <2>3. ClearInv' BY DEF ClearInv
  <2>4. RunInv'
    <3>1. runPc[r] = "none" BY DEF PostInv
    <3>2. \/ claim' = claim
          \/ claim'.gen = lastGen + 1 /\ claim'.status = "running" /\ claim'.job = r
      OBVIOUS
    <3> QED BY <3>1, <3>2 DEF RunInv, ClaimedAt
  <2>5. ReportInv' BY DEF ReportInv, Ended
  <2>6. AgeInv' BY TriggerAssumption DEF AgeInv
  <2> QED BY <2>1, <2>2, <2>3, <2>4, <2>5, <2>6, <2>7 DEF Parts
<1>6. CASE WriteTreatmentArea(r)
  BY <1>6 DEF WriteTreatmentArea, Parts, PostInv, ClearInv, ClaimedAt, RunInv, ReportInv, Ended,
              AgeInv
<1>7. CASE Trigger(r)
  <2> USE <1>7 DEF Trigger, Launch, RunGoto
  <2>1. ClaimShape' /\ GensGiven' OBVIOUS
  <2>2. PostInv' BY DEF PostInv, ClaimedAt
  <2>3. ClearInv' BY DEF ClearInv
  <2>4. runPc[r] = "none" /\ ClaimedAt(r, callGen[r]) BY DEF PostInv
  <2>5. RunInv'
    <3>1. \A e \in Requests : e # r => runPc'[e] = runPc[e] /\ runGen'[e] = runGen[e] OBVIOUS
    <3>2. runPc'[r] # "none" => runGen'[r] = callGen[r] BY <2>4
    <3>3. claim' = claim OBVIOUS
    <3>4. \A e \in Requests : runPc'[e] # "none" => ClaimedAt(e, runGen[e])'
      BY <2>4, <3>1, <3>2, <3>3 DEF RunInv, ClaimedAt
    <3>5. claim.status = "failed" => claim.job # r BY <2>4 DEF RunInv, ClaimedAt
    <3>6. claim'.status = "failed" => runPc'[claim'.job] = "failed"
      BY <3>1, <3>3, <3>5 DEF RunInv, NoClaim
    <3> QED BY <3>4, <3>6 DEF RunInv
  <2>6. ReportInv'
    <3>1. \A g, pc : pc # "none" /\ Ended(g, pc) => Ended(g, pc)' BY <2>4 DEF Ended
    <3> QED BY <3>1 DEF ReportInv
  <2>7. AgeInv' BY RunnerAssumption, TriggerAssumption DEF AgeInv, PostInv
  <2> QED BY <2>1, <2>2, <2>3, <2>5, <2>6, <2>7 DEF Parts
<1>8. CASE GiveUp(r)
  BY <1>8 DEF GiveUp, ReleaseRun, NoClaim, Parts, PostInv, ClearInv, ClaimedAt, RunInv, ReportInv,
              Ended, AgeInv
<1>9. CASE PostCrash(r)
  BY <1>9 DEF PostCrash, Parts, PostInv, ClearInv, ClaimedAt, RunInv, ReportInv, Ended, AgeInv
<1> QED BY <1>1, <1>2, <1>3, <1>4, <1>5, <1>6, <1>7, <1>8, <1>9 DEF PostStep

LEMMA PollStepParts ==
  ASSUME ClaimInv, NEW q \in Polls, PollStep(q), UNCHANGED pushVars
  PROVE  Parts'
<1> USE CallersAssumption
        DEF ClaimInv, TypeOK, BucketTypeOK, RunTypeOK, CallTypeOK, PushTypeOK, Claims, Callers,
            CallGoto, bucketVars, runVars, pushVars, Clearing, Holding, Detached, Running, Fresh,
            Stale, Parts, ClaimShape, GensGiven, PostInv, ClearInv, ClaimedAt, RunInv, ReportInv,
            Ended, AgeInv
<1>1. CASE PollOutput(q) BY <1>1 DEF PollOutput
<1>2. CASE PollClaim(q) BY <1>2 DEF PollClaim
<1>3. CASE ClearRead(q) BY <1>3, ClearReadParts
<1>4. CASE ClearRelease(q) BY <1>4, ClearReleaseParts
<1> QED BY <1>1, <1>2, <1>3, <1>4 DEF PollStep

LEMMA RunStepParts ==
  ASSUME ClaimInv, NEW e \in Requests, RunStep(e) \/ Killed(e), UNCHANGED <<callVars, pushVars>>
  PROVE  Parts'
<1> USE DEF ClaimInv, TypeOK, BucketTypeOK, RunTypeOK, CallTypeOK, PushTypeOK, Claims, Reports,
            Callers, RunGoto, bucketVars, callVars, pushVars, claimVars, fileVars, reportVars, RunPcs,
            Live, Writing, RunEnded, Running, Fresh, Stale, ClaimShape, GensGiven
<1>1. CASE Start(e)
  <2> USE <1>1 DEF Start
  <2>1. ClaimShape' /\ GensGiven' OBVIOUS
  <2>2. PostInv' /\ ClearInv' BY DEF PostInv, ClaimedAt, ClearInv
  <2>3. RunInv'
    <3>1. \A d \in Requests : runPc'[d] # "none" => runPc[d] # "none" OBVIOUS
    <3>2. \A d \in Requests : runPc[d] = "failed" => runPc'[d] = "failed" OBVIOUS
    <3> QED BY <3>1, <3>2 DEF RunInv, ClaimedAt, NoClaim
  <2>4. ReportInv' BY DEF ReportInv, Ended
  <2>5. AgeInv' BY RunnerAssumption, TriggerAssumption DEF AgeInv
  <2> QED BY <2>1, <2>2, <2>3, <2>4, <2>5 DEF Parts
<1>2. CASE RunRaises(e)
  BY <1>2 DEF RunRaises, Parts, PostInv, ClearInv, ClaimedAt, RunInv, ReportInv, Ended, AgeInv
<1>3. CASE UploadMeta(e)
  <2> USE <1>3 DEF UploadMeta
  <2>1. ClaimShape' /\ GensGiven' OBVIOUS
  <2>2. PostInv' /\ ClearInv' BY DEF PostInv, ClaimedAt, ClearInv
  <2>3. RunInv'
    <3>1. \A d \in Requests : runPc'[d] # "none" => runPc[d] # "none" OBVIOUS
    <3>2. \A d \in Requests : runPc[d] = "failed" => runPc'[d] = "failed" OBVIOUS
    <3> QED BY <3>1, <3>2 DEF RunInv, ClaimedAt, NoClaim
  <2>4. ReportInv' BY DEF ReportInv, Ended
  <2>5. AgeInv' BY DEF AgeInv
  <2> QED BY <2>1, <2>2, <2>3, <2>4, <2>5 DEF Parts
<1>4. CASE UploadOutput(e)
  <2> USE <1>4 DEF UploadOutput
  <2>1. ClaimShape' /\ GensGiven' OBVIOUS
  <2>2. PostInv' /\ ClearInv' BY DEF PostInv, ClaimedAt, ClearInv
  <2>3. RunInv'
    <3>1. \A d \in Requests : runPc'[d] # "none" => runPc[d] # "none" OBVIOUS
    <3>2. \A d \in Requests : runPc[d] = "failed" => runPc'[d] = "failed" OBVIOUS
    <3> QED BY <3>1, <3>2 DEF RunInv, ClaimedAt, NoClaim
  <2>4. ReportInv' BY DEF ReportInv, Ended
  <2>5. AgeInv' BY DEF AgeInv
  <2> QED BY <2>1, <2>2, <2>3, <2>4, <2>5 DEF Parts
<1>5. CASE WriteReport(e)
  <2>1. PICK status \in {"completed", "failed"} :
          /\ runPc[e] \in {"completing", "failing"}
          /\ runPc' = [runPc EXCEPT ![e] = status]
          /\ \/ /\ report' = [gen |-> runGen[e], status |-> status]
                /\ inbox' = inbox \cup {runGen[e]}
             \/ report' = report /\ inbox' = inbox
    BY <1>5 DEF WriteReport
  <2>2. UNCHANGED <<runGen, claim, lastGen, output>> /\ runAge' = [runAge EXCEPT ![e] = 0]
    BY <1>5 DEF WriteReport
  <2>3. runGen[e] # 0 /\ runGen[e] \in Nat BY <2>1 DEF RunInv, ClaimedAt
  <2>4. ClaimShape' BY <2>2
  <2>5. GensGiven'
    <3>1. report'.gen <= lastGen BY <2>1
    <3>2. \A g \in inbox' : g # 0 /\ g <= lastGen
      <4>1. \A g \in inbox' : g \in inbox \/ g = runGen[e] BY <2>1, Zenon
      <4>2. \A g \in inbox : g # 0 /\ g <= lastGen OBVIOUS
      <4>3. runGen[e] <= lastGen OBVIOUS
      <4> QED BY <4>1, <4>2, <4>3, <2>3, Zenon
    <3> QED BY <3>1, <3>2, <2>2
  <2>6. PostInv' /\ ClearInv' BY <2>1, <2>2 DEF PostInv, ClaimedAt, ClearInv
  <2>7. RunInv' BY <2>1, <2>2 DEF RunInv, ClaimedAt, NoClaim
  <2>8. ReportInv'
    <3>1. \A g, pc : pc \in RunEnded /\ Ended(g, pc) => Ended(g, pc)' BY <2>1, <2>2 DEF Ended
    <3>2. Ended(runGen[e], status)' BY <2>1, <2>2 DEF Ended
    <3>3. CASE report' = report BY <3>1, <3>3, <2>1 DEF ReportInv
    <3>4. CASE report' = [gen |-> runGen[e], status |-> status]
      <4>1. report'.gen = runGen[e] /\ report'.status = status /\ status \in RunEnded BY <3>4
      <4>2. (report.gen = 0 <=> report.status = "none")' BY <4>1, <2>3 DEF RunEnded
      <4>3. (report.gen # 0 => Ended(report.gen, report.status))' BY <4>1, <2>2, <3>2 DEF Ended
      <4>4. \A p \in Pushes :
              /\ pushPc[p] = "releasing" => Ended(pushOf[p], "completed")'
              /\ pushPc[p] \in CleaningUp => Ended(pushOf[p], "failed")'
        BY <3>1 DEF ReportInv
      <4> QED BY <4>2, <4>3, <4>4 DEF ReportInv
    <3> QED BY <3>3, <3>4, <2>1
  <2>9. AgeInv' BY <2>1, <2>2 DEF AgeInv
  <2> QED BY <2>4, <2>5, <2>6, <2>7, <2>8, <2>9 DEF Parts
<1>6. CASE Killed(e)
  BY <1>6 DEF Killed, Parts, PostInv, ClearInv, ClaimedAt, RunInv, ReportInv, Ended, AgeInv
<1> QED BY <1>1, <1>2, <1>3, <1>4, <1>5, <1>6 DEF RunStep

LEMMA PushStepParts ==
  ASSUME ClaimInv, NEW p \in Pushes, UNCHANGED <<runVars, callVars>>,
         (\E g \in inbox : Deliver(p, g)) \/ PushStep(p) \/ PushCrash(p)
  PROVE  Parts'
<1> USE DEF ClaimInv, TypeOK, BucketTypeOK, RunTypeOK, CallTypeOK, PushTypeOK, Claims, Reports,
            Callers, PushGoto, PushPcs, Respond, bucketVars, runVars, callVars, claimVars, fileVars,
            reportVars, CleaningUp, Clearing, Running, Fresh, Stale, Parts, ClaimShape, GensGiven,
            PostInv, ClearInv, ClaimedAt, RunInv, ReportInv, Ended, AgeInv
<1>1. CASE \E g \in inbox : Deliver(p, g) BY <1>1 DEF Deliver
<1>2. CASE ReadReport(p)
  <2>1. \A g \in inbox' : g \in inbox BY <1>2 DEF ReadReport, Ack, Nack
  <2>2. UNCHANGED <<claim, lastGen, report, output>> BY <1>2 DEF ReadReport
  <2>3. \A o \in Pushes : o # p => pushPc'[o] = pushPc[o] /\ pushOf'[o] = pushOf[o]
    BY <1>2 DEF ReadReport, Ack, Nack
  <2>4. \/ pushPc'[p] = "idle" /\ pushOf'[p] = 0
        \/ /\ pushPc'[p] = (IF report.status = "completed" THEN "releasing" ELSE "owning")
           /\ report.gen = pushOf[p] /\ pushOf'[p] = pushOf[p] /\ pushPc[p] # "idle"
    BY <1>2 DEF ReadReport, Ack, Nack
  <2>5. ClaimShape' /\ PostInv' /\ ClearInv' /\ RunInv' /\ AgeInv' BY <2>2
  <2>6. GensGiven' BY <2>1, <2>2, <2>3, <2>4
  <2>7. ReportInv' BY <2>2, <2>3, <2>4
  <2> QED BY <2>5, <2>6, <2>7
<1>3. CASE ReleaseFinished(p)
  <2>1. claim' \in {claim, NoClaim} /\ UNCHANGED <<lastGen, report, inbox, output, pushOf>>
    BY <1>3 DEF ReleaseFinished, ReleaseRun
  <2>2. pushPc' = [pushPc EXCEPT ![p] = "dropping"] /\ pushPc[p] = "releasing"
    BY <1>3 DEF ReleaseFinished
  <2>3. ClaimShape' /\ GensGiven' BY <2>1, <2>2 DEF NoClaim
  <2>4. PostInv' /\ ClearInv' /\ RunInv' BY <2>1, RequestsAssumption DEF NoClaim
  <2>5. ReportInv' BY <2>1, <2>2
  <2>6. AgeInv' BY <2>1, TriggerAssumption, RunnerAssumption DEF NoClaim
  <2> QED BY <2>3, <2>4, <2>5, <2>6
<1>4. CASE OwnsClaim(p) BY <1>4 DEF OwnsClaim
<1>5. CASE ListOutput(p) BY <1>5 DEF ListOutput
<1>6. CASE DeleteNext(p) BY <1>6 DEF DeleteNext
<1>8. CASE DropReport(p)
  <2>1. \A g \in inbox' : g \in inbox BY <1>8 DEF DropReport, Ack
  <2>2. UNCHANGED <<claim, lastGen, output>> /\ report' \in {report, NoReport}
    BY <1>8 DEF DropReport
  <2>3. pushPc' = [pushPc EXCEPT ![p] = "idle"] /\ pushOf' = [pushOf EXCEPT ![p] = 0]
    BY <1>8 DEF DropReport, Ack
  <2>4. ClaimShape' /\ PostInv' /\ ClearInv' /\ RunInv' /\ AgeInv' BY <2>2
  <2>5. GensGiven'
    <3>1. report'.gen <= lastGen BY <2>2 DEF NoReport
    <3>2. \A g \in inbox' : g # 0 /\ g <= lastGen BY <2>1
    <3> QED BY <2>2, <2>3, <3>1, <3>2
  <2>6. ReportInv' BY <2>2, <2>3 DEF NoReport
  <2> QED BY <2>4, <2>5, <2>6
<1>9. CASE PushCrash(p) BY <1>9 DEF PushCrash, Nack
<1>7. CASE MarkFailed(p)
  <2>1. PICK e \in Requests : runGen[e] = pushOf[p] /\ runPc[e] = "failed"
    BY <1>7 DEF MarkFailed
  <2>2. UNCHANGED <<report, output>> /\ inbox' = inbox
    BY <1>7 DEF MarkFailed, Nack
  <2>3. \/ claim' = claim /\ lastGen' = lastGen
        \/ /\ claim.gen = pushOf[p] /\ lastGen' = lastGen + 1
           /\ claim' = [gen |-> lastGen + 1, status |-> "failed", job |-> claim.job, age |-> 0]
    BY <1>7 DEF MarkFailed, PutClaim
  <2>4. pushPc'[p] \in {"dropping", "idle"} /\ pushOf'[p] \in {0, pushOf[p]}
    BY <1>7 DEF MarkFailed, Nack
  <2>5. /\ pushPc[p] = "marking"
        /\ \A o \in Pushes : o # p => pushPc'[o] = pushPc[o] /\ pushOf'[o] = pushOf[o]
    BY <1>7 DEF MarkFailed, Nack
  <2>6. claim.gen = pushOf[p] => Running(claim) /\ claim.job = e BY <2>1
  <2>7. ClaimShape' BY <2>1, <2>3, <2>6 DEF NoClaim
  <2>8. GensGiven' BY <1>7, <2>2, <2>3 DEF MarkFailed, Nack
  <2>9. PostInv' BY <2>1, <2>3, <2>6
  <2>10. ClearInv' BY <2>3
  <2>11. RunInv' BY <2>1, <2>3, <2>6
  <2>12. ReportInv' BY <2>2, <2>4, <2>5
  <2>13. AgeInv' BY <2>3
  <2> QED BY <2>7, <2>8, <2>9, <2>10, <2>11, <2>12, <2>13
<1> QED BY <1>1, <1>2, <1>3, <1>4, <1>5, <1>6, <1>7, <1>8, <1>9 DEF PushStep

(* the guards of Tick keep every age below its deadline *)
LEMMA TickParts ==
  ASSUME ClaimInv, Tick
  PROVE  Parts'
<1> USE DEF ClaimInv, TypeOK, BucketTypeOK, RunTypeOK, CallTypeOK, PushTypeOK, Claims, Callers,
            Tick, AgeClaim, fileVars, reportVars, pushVars, Running, Fresh, Stale
<1>1. claim' = claim \/ (Running(claim) /\ claim' = [claim EXCEPT !.age = claim.age + 1]) OBVIOUS
<1>2. ClaimShape' BY <1>1 DEF ClaimShape, NoClaim
<1>3. GensGiven' BY <1>1 DEF GensGiven
<1>4. PostInv' BY <1>1, StaleAssumption DEF PostInv, ClaimedAt
<1>5. ClearInv' /\ RunInv' /\ ReportInv' BY <1>1 DEF ClearInv, RunInv, ClaimedAt, ReportInv, Ended
<1>6. AgeInv'
  BY <1>1, RunnerAssumption, TriggerAssumption
  DEF AgeInv, AgePosts, AgeRuns, PostsMayWait, RunsMayWait, Detached, Live, Writing
<1> QED BY <1>2, <1>3, <1>4, <1>5, <1>6 DEF Parts

LEMMA NextParts == ClaimInv /\ [Next]_vars => Parts'
<1> SUFFICES ASSUME ClaimInv, [Next]_vars PROVE Parts'
    OBVIOUS
<1>1. CASE CallNext BY <1>1, PostStepParts, PollStepParts DEF CallNext
<1>2. CASE RunNext BY <1>2, RunStepParts DEF RunNext
<1>3. CASE PushNext BY <1>3, PushStepParts DEF PushNext
<1>4. CASE Tick BY <1>4, TickParts
<1>5. CASE UNCHANGED vars
  BY <1>5 DEF vars, bucketVars, runVars, callVars, pushVars, ClaimInv, Parts, ClaimShape,
     GensGiven, PostInv, ClearInv, ClaimedAt, RunInv, ReportInv, Ended, AgeInv, Running, Fresh,
     Stale, NoClaim
<1> QED BY <1>1, <1>2, <1>3, <1>4, <1>5 DEF Next

(* The claim, the POSTs, the runs and the reports always agree on whose    *)
(* generation is whose.                                                    *)
THEOREM ClaimsAgree == Spec => []ClaimInv
<1>1. Init => ClaimInv BY InitType, InitParts DEF ClaimInv, Parts
<1>2. ClaimInv /\ [Next]_vars => ClaimInv' BY NextType, NextParts DEF ClaimInv, Parts
<1> QED BY <1>1, <1>2, PTL DEF Spec

-----------------------------------------------------------------------------
(* What follows from it                                                    *)

(* every way in which a step can change the claim *)
Put(r)    == /\ callPc[r] = "putting" /\ claim.gen = callGen[r]
             /\ claim' = [gen |-> lastGen + 1, status |-> "running", job |-> r, age |-> stampAge[r]]
Mark(p)   == /\ pushPc[p] = "marking" /\ claim.gen = pushOf[p]
             /\ claim' = [gen |-> lastGen + 1, status |-> "failed", job |-> claim.job, age |-> 0]
Delete    == /\ claim' = NoClaim
             /\ \/ \E c \in Callers : callPc[c] = "clearRelease" /\ callGen[c] = claim.gen
                \/ \E r \in Requests : callPc[r] = "releasing" /\ callGen[r] = claim.gen
                \/ \E p \in Pushes : pushPc[p] = "releasing" /\ pushOf[p] = claim.gen
GrowOlder == Fresh(claim) /\ claim' = [claim EXCEPT !.age = claim.age + 1]

LEMMA ClaimChange ==
  ASSUME TypeOK, [Next]_vars
  PROVE  \/ claim' = claim
         \/ \E r \in Requests : Put(r)
         \/ \E p \in Pushes : Mark(p)
         \/ Delete
         \/ GrowOlder
<1> USE DEF Put, Mark, Delete, GrowOlder, Callers
<1>1. ASSUME NEW r \in Requests, PostStep(r) \/ PostCrash(r)
      PROVE  claim' = claim \/ Put(r) \/ Delete
  BY <1>1 DEF PostStep, CheckOutput, ClearRead, ClearRelease, ClaimRead, ClaimPut,
     WriteTreatmentArea, Trigger, GiveUp, PostCrash, PutClaim, ReleaseRun, bucketVars, claimVars
<1>2. ASSUME NEW q \in Polls, PollStep(q)
      PROVE  claim' = claim \/ Delete
  BY <1>2 DEF PollStep, PollOutput, PollClaim, ClearRead, ClearRelease, ReleaseRun, bucketVars
<1>3. ASSUME NEW e \in Requests, RunStep(e) \/ Killed(e)
      PROVE  claim' = claim
  BY <1>3 DEF RunStep, Start, RunRaises, UploadMeta, UploadOutput, WriteReport, Killed,
     bucketVars, claimVars
<1>4. ASSUME NEW p \in Pushes,
             (\E g \in inbox : Deliver(p, g)) \/ PushStep(p) \/ PushCrash(p)
      PROVE  claim' = claim \/ Mark(p) \/ Delete
  BY <1>4 DEF Deliver, PushStep, ReadReport, ReleaseFinished, OwnsClaim, ListOutput, DeleteNext,
     MarkFailed, DropReport, PushCrash, PutClaim, ReleaseRun, bucketVars, claimVars
<1>5. CASE Tick
  <2>1. CASE Fresh(claim) BY <1>5, <2>1 DEF Tick, AgeClaim
  <2>2. CASE ~Fresh(claim)
    BY <1>5, <2>2 DEF Tick, AgeClaim, TypeOK, BucketTypeOK, Claims
  <2> QED BY <2>1, <2>2
<1>6. CASE UNCHANGED vars BY <1>6 DEF vars, bucketVars
<1> QED BY <1>1, <1>2, <1>3, <1>4, <1>5, <1>6 DEF Next, CallNext, RunNext, PushNext

(* The deadlines fit below the stale age: no POST takes the claim of a run *)
(* over that may still write the bucket.                                   *)
THEOREM ReclaimIsHarmless ==
  ASSUME Timely
  PROVE  Spec => NeverOvertakes
<1> DEFINE Step == (claim.gen # 0 /\ Running(claim') /\ claim'.gen # claim.gen)
                     => Harmless(claim.job)
<1>1. ASSUME ClaimInv, [Next]_vars PROVE [Step]_vars
  <2> SUFFICES ASSUME claim.gen # 0, Running(claim'), claim'.gen # claim.gen
               PROVE  Harmless(claim.job)
      OBVIOUS
  <2>1. PICK r \in Requests : Put(r)
    BY <1>1, ClaimChange
    DEF Mark, Delete, GrowOlder, Running, NoClaim, ClaimInv, TypeOK, BucketTypeOK, Claims
  <2>2. claim.job \in Requests /\ (claim.status = "failed" \/ Stale(claim))
    BY <1>1, <2>1 DEF Put, ClaimInv, ClaimShape, PostInv, Fresh, Running, TypeOK,
       BucketTypeOK, Claims
  <2>3. CASE claim.status = "failed"
    BY <1>1, <2>2, <2>3 DEF ClaimInv, RunInv, PostInv, Harmless, Writing
  <2>4. CASE claim.status # "failed" /\ Stale(claim)
    <3> DEFINE j == claim.job
    <3>1. Running(claim) /\ claim.age >= StaleAfter /\ claim.age \in Nat
      BY <1>1, <2>4 DEF ClaimInv, ClaimShape, TypeOK, BucketTypeOK, Claims, Running, Stale
    <3>2. callPc[j] \notin {"writing", "triggering"}
      BY <1>1, <2>2, <3>1, TriggerAssumption, StaleAssumption
      DEF ClaimInv, PostInv, ClaimedAt, Holding, AgeInv, Detached, TypeOK, CallTypeOK
    <3>3. runPc[j] # "none" => claim.gen = runGen[j]
      BY <1>1, <2>2, <3>1 DEF ClaimInv, RunInv, ClaimedAt
    <3>4. runPc[j] \notin {"queued"} \cup Writing
      BY <1>1, <2>2, <3>1, <3>3, Timely, TriggerAssumption, RunnerAssumption, StaleAssumption
      DEF Timely, ClaimInv, AgeInv, Live, Writing, TypeOK, RunTypeOK
    <3> QED BY <3>2, <3>4 DEF Harmless
  <2> QED BY <2>2, <2>3, <2>4
<1>2. Spec => []ClaimInv BY ClaimsAgree
<1> QED BY <1>1, <1>2, PTL DEF Spec, NeverOvertakes

(* No report, however late, repeated or reordered, fails a claim that is   *)
(* not the one of its own, failed run.                                     *)
THEOREM OnlyOwnRunFails == Spec => FailsForCause
<1> DEFINE Step == (Running(claim) /\ claim'.status = "failed")
                     => runPc[claim.job] = "failed" /\ runGen[claim.job] = claim.gen
<1>1. ASSUME ClaimInv, [Next]_vars PROVE [Step]_vars
  <2> SUFFICES ASSUME Running(claim), claim'.status = "failed"
               PROVE  runPc[claim.job] = "failed" /\ runGen[claim.job] = claim.gen
      OBVIOUS
  <2>1. PICK p \in Pushes : Mark(p)
    BY <1>1, ClaimChange
    DEF Put, Delete, GrowOlder, Running, NoClaim, ClaimInv, TypeOK, BucketTypeOK, Claims
  <2>2. PICK e \in Requests : runGen[e] = claim.gen /\ runPc[e] = "failed"
    BY <1>1, <2>1 DEF Mark, ClaimInv, ReportInv, CleaningUp, Ended
  <2>3. claim.job = e BY <1>1, <2>2 DEF ClaimInv, RunInv, ClaimedAt
  <2> QED BY <2>2, <2>3
<1>2. Spec => []ClaimInv BY ClaimsAgree
<1> QED BY <1>1, <1>2, PTL DEF Spec, FailsForCause

(* A running claim goes away only with its completed run, its abandoned    *)
(* POST, or a cache hit.                                                   *)
THEOREM OnlyCauseReleases == Spec => ReleasedForCause
<1> DEFINE Cause ==
             \/ runPc[claim.job] = "completed" /\ runGen[claim.job] = claim.gen
             \/ callPc[claim.job] = "releasing" /\ runPc[claim.job] = "none"
             \/ \E c \in Callers : callPc[c] = "clearRelease" /\ callGen[c] = claim.gen
           Step == (Running(claim) /\ claim' = NoClaim) => Cause
<1>1. ASSUME ClaimInv, [Next]_vars PROVE [Step]_vars
  <2> SUFFICES ASSUME Running(claim), claim' = NoClaim PROVE Cause
      OBVIOUS
  <2>4. claim'.status = "none" BY DEF NoClaim
  <2>1. Delete
    BY <1>1, <2>4, ClaimChange
    DEF Put, Mark, GrowOlder, Running, ClaimInv, TypeOK, BucketTypeOK, Claims
  <2>2. ASSUME NEW r \in Requests, callPc[r] = "releasing", callGen[r] = claim.gen PROVE Cause
    BY <1>1, <2>2 DEF ClaimInv, PostInv, ClaimedAt, Holding
  <2>3. ASSUME NEW p \in Pushes, pushPc[p] = "releasing", pushOf[p] = claim.gen PROVE Cause
    BY <1>1, <2>3 DEF ClaimInv, ReportInv, Ended, RunInv, ClaimedAt
  <2> QED BY <2>1, <2>2, <2>3 DEF Delete
<1>2. Spec => []ClaimInv BY ClaimsAgree
<1> QED BY <1>1, <1>2, PTL DEF Spec, ReleasedForCause

(* The claim object implements the lease.                                  *)
THEOREM ClaimIsLease == Spec => LeaseSpec
<1>1. Init => Lease!LeaseInit
  BY DEF Init, BucketInit, NoClaim, Lease!LeaseInit
<1>2. ASSUME ClaimInv, [Next]_vars PROVE [Lease!LeaseNext]_(Lease!leaseVars)
  <2> USE <1>2 DEF ClaimInv, TypeOK, BucketTypeOK, Claims, Running, Fresh, Stale,
                  Lease!LeaseNext, Lease!leaseVars
  <2>1. CASE claim' = claim BY <2>1
  <2>2. ASSUME NEW r \in Requests, Put(r) PROVE Lease!Grant(r)
    <3>1. claim.gen = callGen[r] /\ ~Fresh(claim) BY <2>2 DEF Put, PostInv
    <3>2. stampAge[r] \in Nat /\ stampAge[r] < StaleAfter
      BY <2>2, TriggerAssumption, StaleAssumption DEF Put, AgeInv, Detached, CallTypeOK
    <3> QED BY <2>2, <3>1, <3>2, StaleAssumption DEF Put, Lease!Grant
  <2>3. ASSUME NEW p \in Pushes, Mark(p) PROVE Lease!Fail
    <3>1. Running(claim) BY <2>3 DEF Mark, ReportInv, CleaningUp, Ended, RunInv, ClaimedAt
    <3> QED BY <2>3, <3>1 DEF Mark, Lease!Fail
  <2>4. CASE Delete
    <3>1. Running(claim)
      BY <2>4 DEF Delete, ClearInv, PostInv, ClaimedAt, Holding, ReportInv, Ended, RunInv
    <3> QED BY <2>4, <3>1 DEF Delete, NoClaim, Lease!GiveBack
  <2>5. CASE GrowOlder
    BY <2>5, StaleAssumption DEF GrowOlder, Lease!Expire
  <2> QED BY <2>1, <2>2, <2>3, <2>4, <2>5, ClaimChange
<1>3. Spec => []ClaimInv BY ClaimsAgree
<1> QED BY <1>1, <1>2, <1>3, PTL DEF Spec, LeaseSpec, Lease!LeaseSpec

-----------------------------------------------------------------------------
(* What a failed run leaves.  A generation is of one request for good, so  *)
(* no other run uploads an output of that generation after it was deleted. *)

Has(r, g) == \/ callPc[r] \in Holding /\ callGen[r] = g
             \/ runPc[r] # "none" /\ runGen[r] = g

OwnGens == \A r, s \in Requests, g \in Nat : Has(r, g) /\ Has(s, g) => r = s

(* The output of a run is gone when its claim is about to be marked.       *)
Deleted(p) == \/ pushPc[p] = "marking"
              \/ pushPc[p] = "deleting" /\ "output" \notin doomed[p]

OutputGone ==
  /\ claim.status = "failed" => output # runGen[claim.job]
  /\ \A p \in Pushes : Deleted(p) => output # pushOf[p]

OutputInv == ClaimInv /\ OwnGens /\ OutputGone

(* A step gives at most one request a generation, which is a new one.      *)
LEMMA HasChange ==
  ASSUME ClaimInv, [Next]_vars
  PROVE  \/ \A r \in Requests, g \in Nat : Has(r, g)' => Has(r, g)
         \/ \E q \in Requests : \A r \in Requests, g \in Nat :
              Has(r, g)' => Has(r, g) \/ (r = q /\ g = lastGen + 1)
<1> USE DEF Has, Callers, Holding
<1>1. TypeOK /\ PostInv
  BY DEF ClaimInv
<1>2. ASSUME NEW q \in Requests, ClaimPut(q), UNCHANGED pushVars
      PROVE  \A r \in Requests, g \in Nat : Has(r, g)' => Has(r, g) \/ (r = q /\ g = lastGen + 1)
  <2>1. UNCHANGED runVars /\ callPc[q] = "putting"
    BY <1>2 DEF ClaimPut
  <2>2. \A r \in Requests : r # q => callPc'[r] = callPc[r] /\ callGen'[r] = callGen[r]
    BY <1>1, <1>2 DEF ClaimPut, TypeOK, CallTypeOK, Answer, CallGoto
  <2>3. callPc'[q] \in Holding => callGen'[q] = lastGen + 1
    BY <1>1, <1>2 DEF ClaimPut, PutClaim, TypeOK, CallTypeOK, Answer, CallGoto
  <2> QED BY <2>1, <2>2, <2>3 DEF runVars
<1>3. ASSUME NEW q \in Requests, Trigger(q)
      PROVE  \A r \in Requests, g \in Nat : Has(r, g)' => Has(r, g)
  <2>1. callPc[q] = "triggering" /\ runPc[q] = "none"
    BY <1>1, <1>3 DEF Trigger, PostInv
  <2>2. \A r \in Requests : r # q => /\ callPc'[r] = callPc[r] /\ callGen'[r] = callGen[r]
                                     /\ runPc'[r] = runPc[r] /\ runGen'[r] = runGen[r]
    BY <1>1, <1>3 DEF Trigger, TypeOK, CallTypeOK, RunTypeOK, Answer, CallGoto, Launch, RunGoto, runVars
  <2>3. runPc'[q] = "none" \/ runGen'[q] = callGen[q]
    BY <1>1, <1>3, <2>1 DEF Trigger, TypeOK, RunTypeOK, Launch, RunGoto, runVars
  <2>4. callPc'[q] \in Holding => callGen'[q] = callGen[q]
    BY <1>1, <1>3 DEF Trigger, TypeOK, CallTypeOK, Answer, CallGoto
  <2> QED BY <2>1, <2>2, <2>3, <2>4
<1>4. ASSUME NEW q \in Callers, UNCHANGED runVars,
             \/ q \in Requests /\ (CheckOutput(q) \/ ClaimRead(q) \/ WriteTreatmentArea(q)
                                   \/ GiveUp(q) \/ PostCrash(q))
             \/ ClearRead(q) \/ ClearRelease(q)
             \/ q \in Polls /\ (PollOutput(q) \/ PollClaim(q))
      PROVE  \A r \in Requests, g \in Nat : Has(r, g)' => Has(r, g)
  <2>1. \A r \in Requests : r # q => callPc'[r] = callPc[r] /\ callGen'[r] = callGen[r]
    BY <1>1, <1>4 DEF TypeOK, CallTypeOK, Answer, CallGoto, CheckOutput, ClaimRead,
       WriteTreatmentArea, GiveUp, PostCrash, ClearRead, ClearRelease, PollOutput, PollClaim
  <2>2. q \in Requests /\ callPc'[q] \in Holding => callPc[q] \in Holding /\ callGen'[q] = callGen[q]
    BY <1>1, <1>4, CallersAssumption DEF TypeOK, CallTypeOK, Answer, CallGoto, CheckOutput,
       ClaimRead, WriteTreatmentArea, GiveUp, PostCrash, ClearRead, ClearRelease, PollOutput, PollClaim
  <2> QED BY <1>4, <2>1, <2>2 DEF runVars
<1>5. CASE CallNext
  <2>1. ASSUME NEW r \in Requests, PostStep(r) \/ PostCrash(r), ~ClaimPut(r), ~Trigger(r)
        PROVE  UNCHANGED runVars
    BY <2>1 DEF PostStep, CheckOutput, ClaimRead, WriteTreatmentArea, GiveUp, PostCrash,
       ClearRead, ClearRelease
  <2>2. ASSUME NEW q \in Polls, PollStep(q) PROVE UNCHANGED runVars
    BY <2>2 DEF PollStep, PollOutput, PollClaim, ClearRead, ClearRelease
  <2> QED BY <1>2, <1>3, <1>4, <1>5, <2>1, <2>2 DEF CallNext, PostStep, PollStep
<1>6. CASE RunNext
  <2>1. PICK e \in Requests : RunStep(e) \/ Killed(e)
    BY <1>6 DEF RunNext
  <2>2. runPc[e] # "none" /\ runGen' = runGen /\ \A r \in Requests : r # e => runPc'[r] = runPc[r]
    BY <1>1, <2>1 DEF RunStep, Start, RunRaises, UploadMeta, UploadOutput, WriteReport, Killed,
       RunGoto, Live, Writing, TypeOK, RunTypeOK
  <2> QED BY <1>6, <2>2 DEF RunNext, callVars
<1>7. CASE PushNext
  BY <1>7 DEF PushNext, runVars, callVars
<1>8. CASE Tick
  BY <1>8 DEF Tick
<1>9. CASE UNCHANGED vars
  BY <1>9 DEF vars, runVars, callVars
<1> QED BY <1>5, <1>6, <1>7, <1>8, <1>9 DEF Next

LEMMA OwnGensKept == ASSUME ClaimInv, OwnGens, [Next]_vars PROVE OwnGens'
<1>1. \A r \in Requests, g \in Nat : Has(r, g) => g <= lastGen
  BY DEF ClaimInv, GensGiven, Has, Callers
<1>2. lastGen \in Nat
  BY DEF ClaimInv, TypeOK, BucketTypeOK
<1>3. CASE \A r \in Requests, g \in Nat : Has(r, g)' => Has(r, g)
  BY <1>3 DEF OwnGens
<1>4. ASSUME NEW q \in Requests,
             \A r \in Requests, g \in Nat : Has(r, g)' => Has(r, g) \/ (r = q /\ g = lastGen + 1)
      PROVE  OwnGens'
  <2> SUFFICES ASSUME NEW r \in Requests, NEW s \in Requests, NEW g \in Nat,
                      Has(r, g)', Has(s, g)'
               PROVE  r = s
    BY DEF OwnGens
  <2>1. /\ Has(r, g) \/ (r = q /\ g = lastGen + 1)
        /\ Has(s, g) \/ (s = q /\ g = lastGen + 1)
    BY <1>4
  <2>2. Has(r, g) /\ Has(s, g) => r = s
    BY DEF OwnGens
  <2>3. Has(r, g) \/ Has(s, g) => g <= lastGen
    BY <1>1
  <2> QED BY <1>2, <2>1, <2>2, <2>3
<1> QED BY <1>3, <1>4, HasChange

(* The generation of a run never changes.                                  *)
LEMMA RunGenKept ==
  ASSUME ClaimInv, [Next]_vars, NEW e \in Requests, runPc[e] # "none"
  PROVE  runGen'[e] = runGen[e]
<1>1. CASE runGen' = runGen
  BY <1>1
<1>2. ASSUME NEW q \in Requests, Trigger(q) PROVE runGen'[e] = runGen[e]
  <2>1. runPc[q] = "none" /\ runGen \in [Requests -> Nat]
    BY <1>2 DEF Trigger, ClaimInv, PostInv, TypeOK, RunTypeOK
  <2> QED BY <1>2, <2>1 DEF Trigger, Launch, runVars
<1>3. CASE CallNext
  BY <1>1, <1>2, <1>3 DEF CallNext, PostStep, PollStep, CheckOutput, ClaimRead, ClaimPut,
     WriteTreatmentArea, GiveUp, PostCrash, ClearRead, ClearRelease, PollOutput, PollClaim, runVars
<1>4. CASE RunNext
  BY <1>1, <1>4 DEF RunNext, RunStep, Start, RunRaises, UploadMeta, UploadOutput, WriteReport, Killed
<1> QED BY <1>1, <1>3, <1>4 DEF Next, PushNext, Tick, vars, runVars

(* Who changes the output: a run at its upload, or a push that deletes it. *)
LEMMA OutputChange ==
  ASSUME [Next]_vars
  PROVE  \/ output' = output
         \/ output' = 0 /\ claim' = claim
         \/ \E e \in Requests : /\ runPc[e] = "uploading" /\ output' = runGen[e]
                                /\ UNCHANGED <<claim, runGen, pushVars>>
<1>1. CASE CallNext
  BY <1>1 DEF CallNext, PostStep, PollStep, CheckOutput, ClaimRead, ClaimPut, WriteTreatmentArea,
     Trigger, GiveUp, PostCrash, ClearRead, ClearRelease, PollOutput, PollClaim, bucketVars, fileVars
<1>2. CASE RunNext
  BY <1>2 DEF RunNext, RunStep, Start, RunRaises, UploadMeta, UploadOutput, WriteReport, Killed,
     bucketVars, fileVars, claimVars
<1>3. CASE PushNext
  BY <1>3 DEF PushNext, Deliver, PushStep, ReadReport, ReleaseFinished, OwnsClaim, ListOutput,
     DeleteNext, MarkFailed, DropReport, PushCrash, bucketVars, claimVars, fileVars
<1>4. CASE Tick
  BY <1>4 DEF Tick, fileVars
<1>5. CASE UNCHANGED vars
  BY <1>5 DEF vars, bucketVars
<1> QED BY <1>1, <1>2, <1>3, <1>4, <1>5 DEF Next

(* A push gets past the deletion only once the output is not its run's.    *)
LEMMA DeletedChange ==
  ASSUME ClaimInv, "gcs" \notin Faults, [Next]_vars, NEW p \in Pushes, Deleted(p)'
  PROVE  /\ pushOf'[p] = pushOf[p] /\ pushPc[p] \in CleaningUp
         /\ Deleted(p) \/ output' = 0
<1> USE DEF Deleted, CleaningUp
<1>1. TypeOK
  BY DEF ClaimInv
<1>2. CASE UNCHANGED pushVars
  BY <1>2 DEF pushVars
<1>3. CASE PushNext
  <2>1. PICK q \in Pushes : (\E g \in inbox : Deliver(q, g)) \/ PushStep(q) \/ PushCrash(q)
    BY <1>3 DEF PushNext
  <2>2. CASE q # p
    BY <1>1, <2>1, <2>2 DEF Deliver, PushStep, ReadReport, ReleaseFinished, OwnsClaim, ListOutput,
       DeleteNext, MarkFailed, DropReport, PushCrash, PushGoto, Ack, Nack, Respond, TypeOK, PushTypeOK
  <2>3. CASE q = p
    <3>1. ListOutput(p) \/ DeleteNext(p)
      BY <1>1, <2>1, <2>3 DEF Deliver, PushStep, ReadReport, ReleaseFinished, OwnsClaim,
         MarkFailed, DropReport, PushCrash, PushGoto, Ack, Nack, Respond, TypeOK, PushTypeOK
    <3>2. CASE ListOutput(p)
      <4>1. doomed'[p] = {f \in Files : IF f = "meta" THEN meta # "absent" ELSE output # 0}
        BY <1>1, <3>2 DEF ListOutput, TypeOK, PushTypeOK
      <4>2. output' = output /\ pushOf' = pushOf /\ pushPc[p] = "listing"
        BY <3>2 DEF ListOutput, bucketVars
      <4>3. pushPc'[p] = (IF doomed'[p] = {} THEN "marking" ELSE "deleting")
        BY <1>1, <3>2 DEF ListOutput, PushGoto, TypeOK, PushTypeOK
      <4>4. output # 0 => "output" \in doomed'[p]
        BY <4>1 DEF Files
      <4> QED BY <4>2, <4>3, <4>4
    <3>3. CASE DeleteNext(p)
      <4>1. pushOf' = pushOf /\ pushPc[p] = "deleting"
        BY <3>3 DEF DeleteNext
      <4>2. CASE "meta" \in doomed[p]
        <5>1. doomed'[p] = doomed[p] \ {"meta"}
          BY <1>1, <3>3, <4>2 DEF DeleteNext, TypeOK, PushTypeOK
        <5>2. pushPc'[p] = (IF doomed[p] = {"meta"} THEN "marking" ELSE "deleting")
          BY <1>1, <3>3, <4>2 DEF DeleteNext, PushGoto, TypeOK, PushTypeOK
        <5> QED BY <4>1, <5>1, <5>2
      <4>3. CASE "meta" \notin doomed[p]
        BY <3>3, <4>1, <4>3 DEF DeleteNext
      <4> QED BY <4>2, <4>3
    <3> QED BY <3>1, <3>2, <3>3
  <2> QED BY <2>2, <2>3
<1> QED BY <1>2, <1>3 DEF Next, CallNext, RunNext, Tick, vars

LEMMA OutputGoneKept ==
  ASSUME OutputInv, "gcs" \notin Faults, [Next]_vars
  PROVE  OutputGone'
<1>1. ClaimInv /\ OwnGens /\ OutputGone /\ TypeOK /\ RunInv /\ ReportInv
  BY DEF OutputInv, ClaimInv
<1>2. \A p \in Pushes : pushPc[p] \in CleaningUp =>
        pushOf[p] # 0 /\ \E e \in Requests : runGen[e] = pushOf[p] /\ runPc[e] = "failed"
  BY <1>1 DEF ClaimInv, GensGiven, ReportInv, Ended, CleaningUp
<1>3. \A e, d \in Requests : runPc[e] # "none" /\ runPc[d] # "none" /\ runGen[e] = runGen[d] => e = d
  BY <1>1 DEF OwnGens, Has, TypeOK, RunTypeOK
<1>4. claim.status = "failed" =>
        claim.job \in Requests /\ runPc[claim.job] = "failed" /\ runGen[claim.job] # 0
  BY <1>1 DEF ClaimInv, ClaimShape, RunInv, ClaimedAt, NoClaim
<1>5. \A p \in Pushes : Deleted(p)' => output' # pushOf'[p]
  <2> SUFFICES ASSUME NEW p \in Pushes, Deleted(p)' PROVE output' # pushOf'[p]
    OBVIOUS
  <2>1. /\ pushOf'[p] = pushOf[p] /\ pushPc[p] \in CleaningUp
        /\ Deleted(p) \/ output' = 0
    BY <1>1, DeletedChange
  <2>2. ASSUME NEW e \in Requests, runPc[e] = "uploading", output' = runGen[e]
        PROVE  output' # pushOf[p]
    BY <1>2, <1>3, <2>1, <2>2
  <2> QED BY <1>1, <1>2, <2>1, <2>2, OutputChange DEF OutputGone
<1>6. claim'.status = "failed" => output' # runGen'[claim'.job]
  <2> SUFFICES ASSUME claim'.status = "failed" PROVE output' # runGen'[claim'.job]
    OBVIOUS
  <2>1. CASE \E p \in Pushes : Mark(p)
    <3>1. PICK p \in Pushes : Mark(p)
      BY <2>1
    <3>2. PICK e \in Requests : runGen[e] = pushOf[p] /\ runPc[e] = "failed" /\ pushOf[p] # 0
      BY <1>2, <3>1 DEF Mark, CleaningUp
    <3>3. claim'.job = e
      BY <1>1, <3>1, <3>2 DEF Mark, RunInv, ClaimedAt
    <3>4. output # pushOf[p]
      BY <1>1, <3>1 DEF Mark, OutputGone, Deleted
    <3>5. claim' # claim
      BY <1>1, <3>1 DEF Mark, ClaimInv, GensGiven, TypeOK, BucketTypeOK
    <3>6. output' = output /\ runGen'[e] = runGen[e]
      BY <1>1, <3>2, <3>5, OutputChange, RunGenKept
    <3> QED BY <3>2, <3>3, <3>4, <3>6
  <2>2. CASE ~ \E p \in Pushes : Mark(p)
    <3>1. claim.status = "failed" /\ claim'.job = claim.job
      BY <1>1, <2>2, ClaimChange DEF Put, Delete, GrowOlder, Fresh, Running, NoClaim, TypeOK, BucketTypeOK, Claims
    <3>2. runGen'[claim.job] = runGen[claim.job]
      BY <1>1, <1>4, <3>1, RunGenKept
    <3> QED BY <1>1, <1>3, <1>4, <3>1, <3>2, OutputChange DEF OutputGone
  <2> QED BY <2>1, <2>2
<1> QED BY <1>5, <1>6 DEF OutputGone

(* A run on record as failed left no output for the next POST to answer as *)
(* cached, however its report and those of others interleave, crash and    *)
(* are repeated, if the calls of the api to the bucket succeed.            *)
THEOREM FailedRunsLeaveNothing == "gcs" \notin Faults => (Spec => []FailedRunLeavesNoOutput)
<1> SUFFICES ASSUME "gcs" \notin Faults PROVE Spec => []FailedRunLeavesNoOutput
  OBVIOUS
<1>1. Init /\ ClaimInv => OutputInv
  BY DEF Init, OutputInv, OwnGens, Has, OutputGone, Deleted, CallInit, RunInit, PushInit,
     BucketInit, NoClaim, Callers, Holding
<1>2. OutputInv /\ ClaimInv' /\ [Next]_vars => OutputInv'
  BY OwnGensKept, OutputGoneKept DEF OutputInv
<1>3. OutputInv => FailedRunLeavesNoOutput
  BY DEF OutputInv, OutputGone, FailedRunLeavesNoOutput
<1> QED BY <1>1, <1>2, <1>3, ClaimsAgree, PTL DEF Spec

=============================================================================
