------------------------------ MODULE JobsApi -------------------------------
(***************************************************************************)
(* POST /v1/jobs (dispatch.CreateJob) and GET /v1/jobs/<job_id>            *)
(* (dispatch.GetJob), from the output check on; any number of API          *)
(* instances serve them side by side, so each call is a process and each   *)
(* Cloud Storage or Cloud Run call one of its steps.                       *)
(***************************************************************************)
EXTENDS Runner

CONSTANTS
  Polls,           \* clients that poll GET; a client may poll again and again
  TriggerTimeout   \* claimTriggerTimeout, in ticks of the clock

ASSUME CallersAssumption == Polls \cap Requests = {}
ASSUME TriggerAssumption == TriggerTimeout \in 0..(StaleAfter - 1)

maxClaimAttempts == 3

VARIABLES
  callPc,    \* where a POST or GET is; once over, its answer
  callGen,   \* the claim generation it has seen, and after a claim, holds
  tries,     \* failed claim attempts of a POST
  stampAge   \* time since UpdatedAt was taken for the claim a POST writes

callVars == <<callPc, callGen, tries, stampAge>>

Callers == Requests \cup Polls

(* the answers of POST, the answers of GET; "crashed": the caller got none *)
PostAnswers == {"cached", "pending", "error", "crashed"}
PollAnswers == {"cached", "pending", "failed", "notfound", "error"}
Clearing    == {"clearing", "clearRelease"}
PostPcs     == {"start", "claiming", "putting", "writing", "triggering", "releasing"}
                 \cup Clearing \cup PostAnswers
PollPcs     == {"start", "reading"} \cup Clearing \cup PollAnswers

CallTypeOK ==
  /\ callPc \in [Callers -> PostPcs \cup PollPcs]
  /\ \A r \in Requests : callPc[r] \in PostPcs
  /\ \A q \in Polls : callPc[q] \in PollPcs
  /\ callGen \in [Callers -> Nat]
  /\ tries \in [Requests -> 0..(maxClaimAttempts - 1)]
  /\ stampAge \in [Requests -> Nat]

CallInit ==
  /\ callPc   = [c \in Callers |-> "start"]
  /\ callGen  = [c \in Callers |-> 0]
  /\ tries    = [r \in Requests |-> 0]
  /\ stampAge = [r \in Requests |-> 0]

CallGoto(c, pc) == callPc' = [callPc EXCEPT ![c] = pc]

(* a call is over: what it remembers no longer matters *)
Answer(r, pc) ==
  /\ CallGoto(r, pc)
  /\ callGen'  = [callGen EXCEPT ![r] = 0]
  /\ tries'    = [tries EXCEPT ![r] = 0]
  /\ stampAge' = [stampAge EXCEPT ![r] = 0]

-----------------------------------------------------------------------------
(* clearFinishedClaim, called by POST and GET after they saw the output    *)

(* mutant: clears any claim, a failed one too *)
ClearReadAnyStatus(c) ==
  /\ callPc[c] = "clearing"
  /\ \/ /\ claim.gen # 0
        /\ CallGoto(c, "clearRelease")
        /\ callGen' = [callGen EXCEPT ![c] = claim.gen]
     \/ claim.gen = 0 /\ CallGoto(c, "cached") /\ UNCHANGED callGen
  /\ UNCHANGED <<tries, stampAge, bucketVars, runVars>>

ClearRead(c) ==
  /\ callPc[c] = "clearing"
  /\ \/ /\ Running(claim)
        /\ CallGoto(c, "clearRelease")
        /\ callGen' = [callGen EXCEPT ![c] = claim.gen]
     \/ /\ ~Running(claim) \/ "gcs" \in Faults
        /\ CallGoto(c, "cached")
        /\ UNCHANGED callGen
  /\ UNCHANGED <<tries, stampAge, bucketVars, runVars>>

ClearRelease(c) ==
  /\ callPc[c] = "clearRelease"
  /\ ReleaseRun(callGen[c])
  /\ CallGoto(c, "cached")
  /\ callGen' = [callGen EXCEPT ![c] = 0]
  /\ UNCHANGED <<tries, stampAge, fileVars, reportVars, runVars>>

-----------------------------------------------------------------------------
(* CreateJob                                                               *)

CheckOutput(r) ==
  /\ callPc[r] = "start"
  /\ \/ output # 0 /\ CallGoto(r, "clearing")
     \/ output = 0 /\ CallGoto(r, "claiming")
     \/ "gcs" \in Faults /\ CallGoto(r, "error")
  /\ UNCHANGED <<callGen, tries, stampAge, bucketVars, runVars>>

(* claimRun reads the claim and judges it; a claim it means to write is    *)
(* stamped with the time of this step                                      *)
ClaimRead(r) ==
  /\ callPc[r] = "claiming"
  /\ \/ Fresh(claim) /\ Answer(r, "pending")
     \/ /\ ~Fresh(claim)
        /\ CallGoto(r, "putting")
        /\ callGen'  = [callGen EXCEPT ![r] = claim.gen]
        /\ stampAge' = [stampAge EXCEPT ![r] = 0]
        /\ UNCHANGED tries
     \/ "gcs" \in Faults /\ Answer(r, "error")
  /\ UNCHANGED <<bucketVars, runVars>>

(* claimRun writes the claim if it is still the one judged                 *)
ClaimPut(r) ==
  /\ callPc[r] = "putting"
  /\ \/ /\ PutClaim(callGen[r], "running", r, stampAge[r])
        /\ CallGoto(r, "writing")
        /\ callGen' = [callGen EXCEPT ![r] = lastGen']
        /\ tries'   = [tries EXCEPT ![r] = 0]
        /\ UNCHANGED stampAge
     \/ /\ claim.gen # callGen[r]
        /\ tries[r] + 1 < maxClaimAttempts
        /\ CallGoto(r, "claiming")
        /\ callGen' = [callGen EXCEPT ![r] = 0]
        /\ tries'   = [tries EXCEPT ![r] = @ + 1]
        /\ UNCHANGED <<stampAge, claimVars>>
     \/ /\ claim.gen # callGen[r]
        /\ tries[r] + 1 = maxClaimAttempts
        /\ Answer(r, "error")
        /\ UNCHANGED claimVars
     \/ /\ "gcs" \in Faults
        /\ \/ PutClaim(callGen[r], "running", r, stampAge[r])
           \/ UNCHANGED claimVars
        /\ Answer(r, "error")
  /\ UNCHANGED <<fileVars, reportVars, runVars>>

WriteTreatmentArea(r) ==
  /\ callPc[r] = "writing"
  /\ \/ meta' = "area" /\ CallGoto(r, "triggering")
     \/ /\ "gcs" \in Faults
        /\ meta' \in {meta, "area"}
        /\ CallGoto(r, "releasing")
  /\ UNCHANGED <<callGen, tries, stampAge, claimVars, output, reportVars, runVars>>

(* a rejection (isRejected) releases the claim; when the outcome is unknown *)
(* an execution may have started, and the claim is kept                     *)
Trigger(r) ==
  /\ callPc[r] = "triggering"
  /\ \/ Launch(r, callGen[r]) /\ Answer(r, "pending")
     \/ /\ "trigger" \in Faults
        /\ Launch(r, callGen[r]) \/ UNCHANGED runVars
        /\ Answer(r, "error")
     \/ /\ "trigger" \in Faults
        /\ CallGoto(r, "releasing")
        /\ UNCHANGED <<callGen, tries, stampAge, runVars>>
  /\ UNCHANGED bucketVars

GiveUp(r) ==
  /\ callPc[r] = "releasing"
  /\ ReleaseRun(callGen[r])
  /\ Answer(r, "error")
  /\ UNCHANGED <<fileVars, reportVars, runVars>>

(* the API instance dies between two calls; the claim stays *)
PostCrash(r) ==
  /\ "crash" \in Faults
  /\ callPc[r] \notin PostAnswers \cup {"start"}
  /\ Answer(r, "crashed")
  /\ UNCHANGED <<bucketVars, runVars>>

PostStep(r) ==
  \/ CheckOutput(r) \/ ClearRead(r) \/ ClearRelease(r)
  \/ ClaimRead(r) \/ ClaimPut(r) \/ WriteTreatmentArea(r)
  \/ Trigger(r) \/ GiveUp(r)

-----------------------------------------------------------------------------
(* GetJob                                                                  *)

PollOutput(q) ==
  /\ callPc[q] \in {"start"} \cup PollAnswers
  /\ \/ output # 0 /\ CallGoto(q, "clearing")
     \/ output = 0 /\ CallGoto(q, "reading")
     \/ "gcs" \in Faults /\ CallGoto(q, "error")
  /\ UNCHANGED <<callGen, tries, stampAge, bucketVars, runVars>>

(* mutant: an answer "stale" that clients do not know *)
PollClaimAnswersStale(q) ==
  /\ callPc[q] = "reading"
  /\ CallGoto(q, IF claim.gen = 0 THEN "notfound"
                 ELSE IF claim.status = "failed" THEN "failed"
                 ELSE IF Stale(claim) THEN "stale" ELSE "pending")
  /\ UNCHANGED <<callGen, tries, stampAge, bucketVars, runVars>>

(* mutant: GET never looks at the age of a claim *)
PollClaimIgnoresAge(q) ==
  /\ callPc[q] = "reading"
  /\ CallGoto(q, IF claim.gen = 0 THEN "notfound"
                 ELSE IF claim.status = "failed" THEN "failed" ELSE "pending")
  /\ UNCHANGED <<callGen, tries, stampAge, bucketVars, runVars>>

PollClaim(q) ==
  /\ callPc[q] = "reading"
  /\ \/ claim.gen = 0 /\ CallGoto(q, "notfound")
     \/ claim.status = "failed" /\ CallGoto(q, "failed")
     \/ Running(claim) /\ Stale(claim) /\ CallGoto(q, "failed")
     \/ Fresh(claim) /\ CallGoto(q, "pending")
     \/ "gcs" \in Faults /\ CallGoto(q, "error")
  /\ UNCHANGED <<callGen, tries, stampAge, bucketVars, runVars>>

PollStep(q) == PollOutput(q) \/ PollClaim(q) \/ ClearRead(q) \/ ClearRelease(q)

-----------------------------------------------------------------------------
(* the clock: the detached context of CreateJob ends TriggerTimeout after  *)
(* the stamp at the latest, so no such call outlives it                    *)
Detached == {"putting", "writing", "triggering"}

PostsMayWait ==
  \A r \in Requests : callPc[r] \in Detached => stampAge[r] < TriggerTimeout

AgePosts ==
  stampAge' = [r \in Requests |->
                 IF callPc[r] \in Detached THEN stampAge[r] + 1 ELSE stampAge[r]]

=============================================================================
