----------------------------- MODULE RunClaims ------------------------------
(***************************************************************************)
(* The life of one job_id: POSTs compete for the claim and trigger runs,   *)
(* runs write the bucket and report, reports release or fail the claim,    *)
(* GETs read the outcome, and the clock lets claims go stale.              *)
(***************************************************************************)
EXTENDS JobsApi, RunReports, FiniteSets

vars == <<bucketVars, runVars, callVars, pushVars>>

TypeOK == BucketTypeOK /\ RunTypeOK /\ CallTypeOK /\ PushTypeOK

Init == BucketInit /\ RunInit /\ CallInit /\ PushInit

Tick ==
  /\ PostsMayWait
  /\ RunsMayWait
  /\ AgeClaim
  /\ AgePosts
  /\ AgeRuns
  /\ UNCHANGED <<lastGen, fileVars, reportVars, runPc, runGen,
                 callPc, callGen, tries, pushVars>>

CallNext ==
  /\ \/ \E r \in Requests : PostStep(r) \/ PostCrash(r)
     \/ \E q \in Polls : PollStep(q)
  /\ UNCHANGED pushVars

RunNext ==
  /\ \E e \in Requests : RunStep(e) \/ Killed(e)
  /\ UNCHANGED <<callVars, pushVars>>

PushNext ==
  /\ \E p \in Pushes : \/ \E g \in inbox : Deliver(p, g)
                       \/ PushStep(p) \/ PushCrash(p)
  /\ UNCHANGED <<runVars, callVars>>

Next == CallNext \/ RunNext \/ PushNext \/ Tick

Spec == Init /\ [][Next]_vars

(***************************************************************************)
(* Handlers and executions that can move do (every call has a deadline),   *)
(* clients poll on, time passes.  Pub/Sub retries each notification until  *)
(* it is acked, so other notifications do not starve it.  No fault is fair *)
(***************************************************************************)
MaxGen == 2 * Cardinality(Requests)   \* a request claims once, its run fails once

Fairness ==
  /\ \A r \in Requests : WF_vars(PostStep(r) /\ UNCHANGED pushVars)
  /\ \A q \in Polls : WF_vars(PollStep(q) /\ UNCHANGED pushVars)
  /\ \A e \in Requests : WF_vars(RunStep(e) /\ UNCHANGED <<callVars, pushVars>>)
  /\ \A p \in Pushes : WF_vars(PushStep(p) /\ UNCHANGED <<runVars, callVars>>)
  /\ \A g \in 1..MaxGen :
       SF_vars(\E p \in Pushes : Deliver(p, g) /\ UNCHANGED <<runVars, callVars>>)
  /\ WF_vars(Tick)

FairSpec == Spec /\ Fairness

-----------------------------------------------------------------------------
(* Why the claims work: the inductive invariant behind the properties.     *)

(* generation 0 is the absence of a claim *)
ClaimShape ==
  /\ claim.gen = 0 => claim = NoClaim
  /\ claim.gen # 0 => claim.status # "none" /\ claim.job \in Requests

(* nobody knows a generation that GCS has not given yet *)
GensGiven ==
  /\ claim.gen <= lastGen
  /\ output <= lastGen
  /\ report.gen <= lastGen
  /\ \A g \in inbox : g # 0 /\ g <= lastGen
  /\ \A c \in Callers : callGen[c] <= lastGen
  /\ \A e \in Requests : runGen[e] <= lastGen
  /\ \A p \in Pushes : pushOf[p] <= lastGen /\ (pushPc[p] # "idle" => pushOf[p] # 0)

(* g is the generation at which r claimed, whether or not it still stands *)
ClaimedAt(r, g) ==
  /\ g # 0
  /\ claim.gen = g => Running(claim) /\ claim.job = r
  /\ Running(claim) /\ claim.job = r => claim.gen = g

Holding == {"writing", "triggering", "releasing"}

PostInv ==
  \A r \in Requests :
    /\ callPc[r] \in {"start", "claiming", "putting", "cached"} \cup Clearing
         => claim.job # r
    /\ callPc[r] \notin {"pending", "error"} => runPc[r] = "none"
    /\ callPc[r] = "putting" /\ claim.gen = callGen[r] => ~Fresh(claim)
    /\ callPc[r] \in Holding => ClaimedAt(r, callGen[r])

ClearInv ==
  \A c \in Callers : callPc[c] = "clearRelease" =>
    callGen[c] # 0 /\ (claim.gen = callGen[c] => Running(claim))

RunInv ==
  /\ \A e \in Requests : runPc[e] # "none" => ClaimedAt(e, runGen[e])
  /\ claim.status = "failed" => runPc[claim.job] = "failed"

(* the run that claimed at g has ended that way *)
Ended(g, pc) == \E e \in Requests : runGen[e] = g /\ runPc[e] = pc

CleaningUp == {"owning", "listing", "deleting", "marking"}

ReportInv ==
  /\ report.gen = 0 <=> report.status = "none"
  /\ report.gen # 0 => Ended(report.gen, report.status)
  /\ \A p \in Pushes :
       /\ pushPc[p] = "releasing" => Ended(pushOf[p], "completed")
       /\ pushPc[p] \in CleaningUp => Ended(pushOf[p], "failed")

(* how old a claim is while its request or its run is at work *)
AgeInv ==
  \A r \in Requests :
    /\ callPc[r] \in Detached => stampAge[r] <= TriggerTimeout
    /\ callPc[r] \in {"writing", "triggering"} /\ claim.gen = callGen[r]
         => claim.age <= stampAge[r]
    /\ runPc[r] = "queued" =>
         /\ runAge[r] <= StartDelay
         /\ claim.gen = runGen[r] => claim.age <= TriggerTimeout + runAge[r]
    /\ runPc[r] \in Live =>
         /\ runAge[r] <= RunnerTimeout
         /\ claim.gen = runGen[r] => claim.age <= TriggerTimeout + StartDelay + runAge[r]

(* The claim, the POSTs, the runs and the reports agree on which request   *)
(* each generation belongs to, who may still act on it, and how old it is. *)
ClaimInv ==
  /\ TypeOK /\ ClaimShape /\ GensGiven /\ PostInv /\ ClearInv
  /\ RunInv /\ ReportInv /\ AgeInv

-----------------------------------------------------------------------------
(* The claim object implements the lease: a POST that writes the claim on  *)
(* top of another one replaces a stale, failed or absent claim, whatever   *)
(* the POSTs, reports and GETs in between did (cache.go claimRun).         *)

Lease == INSTANCE ClaimLease WITH
  Clients  <- Requests,
  NoClient <- NoRequest,
  holder   <- claim.job,
  mode     <- IF claim.status = "none" THEN "free"
              ELSE IF claim.status = "failed" THEN "failed"
              ELSE IF Stale(claim) THEN "expired" ELSE "held"

LeaseSpec == Lease!LeaseSpec

(* The deadlines of trigger, start and run fit below the stale age.        *)
Timely == TriggerTimeout + StartDelay + RunnerTimeout < StaleAfter

(* A POST takes the claim of another request over only when that request   *)
(* will trigger no execution any more and its execution, if it has one,    *)
(* will write no file any more (README "Timeouts": runner timeout < claim  *)
(* stale age).  It needs Timely.                                           *)
Harmless(r) ==
  /\ callPc[r] \notin {"writing", "triggering"}
  /\ runPc[r] \notin {"queued"} \cup Writing

NeverOvertakes ==
  [][ (claim.gen # 0 /\ Running(claim') /\ claim'.gen # claim.gen)
        => Harmless(claim.job) ]_vars

(* A claim turns failed only on the report of the very run it was for: no  *)
(* late, repeated or reordered notification fails a newer claim.           *)
FailsForCause ==
  [][ (Running(claim) /\ claim'.status = "failed")
        => runPc[claim.job] = "failed" /\ runGen[claim.job] = claim.gen ]_vars

(* A running claim disappears only because its run completed, because its  *)
(* POST gives it up without having started a run, or because a POST or GET *)
(* that saw the output clears it.                                          *)
ReleasedForCause ==
  [][ (Running(claim) /\ claim' = NoClaim)
        => \/ runPc[claim.job] = "completed" /\ runGen[claim.job] = claim.gen
           \/ callPc[claim.job] = "releasing" /\ runPc[claim.job] = "none"
           \/ \E c \in Callers : callPc[c] = "clearRelease" /\ callGen[c] = claim.gen ]_vars

(* A run on record as failed leaves no output that the next POST would     *)
(* answer as cached: what it uploaded goes before its claim is marked      *)
(* (report.go HandleReport).                                               *)
FailedRunLeavesNoOutput ==
  claim.status = "failed" => output = 0 \/ output # runGen[claim.job]

(* A client that polls is not told "pending" for ever: its run ends, or    *)
(* its claim goes stale, and GET says so (dispatch.go GetJob).             *)
PollSettles ==
  \A q \in Polls :
    callPc[q] = "pending" ~> callPc[q] \in {"cached", "failed", "notfound"}

(* A report that reaches the bucket ends the running claim it is for.      *)
ReportSettlesClaim ==
  \A g \in 1..MaxGen :
    (report.gen = g /\ Running(claim) /\ claim.gen = g) ~> claim.gen # g

=============================================================================
