----------------------------- MODULE RunReports -----------------------------
(***************************************************************************)
(* POST /internal/pubsub/run-reports: Pub/Sub pushes the notification that *)
(* a report object was written, HandleReport acts on it, and the answer    *)
(* acks it (2xx) or has it pushed again (5xx).                             *)
(***************************************************************************)
EXTENDS OutputBucket

CONSTANT Pushes   \* push requests being served at a time

VARIABLES
  pushPc,   \* where a push request is
  pushOf,   \* the report it was pushed for (see Reports)
  doomed    \* the objects of the run that deleteOutput has still to delete

pushVars == <<pushPc, pushOf, doomed>>

PushPcs == {"idle", "reading", "releasing", "owning", "listing", "deleting",
            "marking", "dropping"}

Files == {"meta", "output"}

PushTypeOK ==
  /\ pushPc \in [Pushes -> PushPcs]
  /\ pushOf \in [Pushes -> Nat]
  /\ doomed \in [Pushes -> SUBSET Files]

PushInit ==
  /\ pushPc = [p \in Pushes |-> "idle"]
  /\ pushOf = [p \in Pushes |-> 0]
  /\ doomed = [p \in Pushes |-> {}]

PushGoto(p, pc) == pushPc' = [pushPc EXCEPT ![p] = pc]

(* the HTTP answer: the push request is over *)
Respond(p) ==
  /\ PushGoto(p, "idle")
  /\ pushOf' = [pushOf EXCEPT ![p] = 0]
  /\ doomed' = [doomed EXCEPT ![p] = {}]

(* a 2xx removes the notification, if Pub/Sub gets it *)
Ack(p) ==
  /\ Respond(p)
  /\ \/ inbox' = inbox \ {pushOf[p]}
     \/ "redelivery" \in Faults /\ UNCHANGED inbox

Nack(p) == Respond(p) /\ UNCHANGED inbox

Deliver(p, g) ==
  /\ pushPc[p] = "idle"
  /\ g \in inbox
  /\ "redelivery" \in Faults \/ \A o \in Pushes : pushOf[o] # g
  /\ PushGoto(p, "reading")
  /\ pushOf' = [pushOf EXCEPT ![p] = g]
  /\ UNCHANGED <<doomed, bucketVars>>

(* mutant: only completed reports are handled *)
ReadReportIgnoresFailure(p) ==
  /\ pushPc[p] = "reading"
  /\ IF report.gen = pushOf[p] /\ report.status = "completed"
       THEN PushGoto(p, "releasing") /\ UNCHANGED <<pushOf, doomed, inbox>>
       ELSE Ack(p)
  /\ UNCHANGED <<claimVars, fileVars, report>>

(* a report that is gone or was replaced needs no handling *)
ReadReport(p) ==
  /\ pushPc[p] = "reading"
  /\ \/ /\ report.gen = pushOf[p]
        /\ PushGoto(p, IF report.status = "completed" THEN "releasing" ELSE "owning")
        /\ UNCHANGED <<pushOf, doomed, inbox>>
     \/ report.gen # pushOf[p] /\ Ack(p)
     \/ "gcs" \in Faults /\ Nack(p)
  /\ UNCHANGED <<claimVars, fileVars, report>>

(* completed *)
ReleaseFinished(p) ==
  /\ pushPc[p] = "releasing"
  /\ ReleaseRun(pushOf[p])
  /\ PushGoto(p, "dropping")
  /\ UNCHANGED <<pushOf, doomed, fileVars, reportVars>>

(* failed: ownsClaim, which reads any error as "not the owner" *)
OwnsClaim(p) ==
  /\ pushPc[p] = "owning"
  /\ \/ claim.gen = pushOf[p] /\ PushGoto(p, "listing")
     \/ claim.gen # pushOf[p] /\ PushGoto(p, "dropping")
     \/ "gcs" \in Faults /\ PushGoto(p, "dropping")
  /\ UNCHANGED <<pushOf, doomed, bucketVars>>

(* mutant: the output is not among the objects listed *)
ListOutputMissesTif(p) ==
  /\ pushPc[p] = "listing"
  /\ doomed' = [doomed EXCEPT ![p] = IF meta # "absent" THEN {"meta"} ELSE {}]
  /\ PushGoto(p, IF meta # "absent" THEN "deleting" ELSE "marking")
  /\ UNCHANGED <<pushOf, bucketVars>>

(* deleteOutput lists the objects of the run ... *)
ListOutput(p) ==
  /\ pushPc[p] = "listing"
  /\ \E found \in {{f \in Files : IF f = "meta" THEN meta # "absent" ELSE output # 0}}
                    \cup (IF "gcs" \in Faults THEN {{}} ELSE {}) :
       /\ doomed' = [doomed EXCEPT ![p] = found]
       /\ PushGoto(p, IF found = {} THEN "marking" ELSE "deleting")
  /\ UNCHANGED <<pushOf, bucketVars>>

(* ... and deletes them in the order of their names: meta, then output *)
DeleteNext(p) ==
  /\ pushPc[p] = "deleting"
  /\ LET f == IF "meta" \in doomed[p] THEN "meta" ELSE "output" IN
       /\ doomed' = [doomed EXCEPT ![p] = @ \ {f}]
       /\ PushGoto(p, IF doomed[p] = {f} THEN "marking" ELSE "deleting")
       /\ \/ /\ meta'   = (IF f = "meta" THEN "absent" ELSE meta)
             /\ output' = (IF f = "output" THEN 0 ELSE output)
          \/ "gcs" \in Faults /\ UNCHANGED fileVars
  /\ UNCHANGED <<pushOf, claimVars, reportVars>>

(* mutant: marks whatever claim there is *)
MarkAnyFailed(p) ==
  /\ pushPc[p] = "marking"
  /\ PutClaim(claim.gen, "failed", claim.job, 0)
  /\ PushGoto(p, "dropping")
  /\ UNCHANGED <<pushOf, doomed, fileVars, reportVars>>

(***************************************************************************)
(* failRun.  Its read and its write carry the same precondition, and a     *)
(* generation never changes nor comes back, so the write alone decides.    *)
(***************************************************************************)
MarkFailed(p) ==
  /\ pushPc[p] = "marking"
  /\ \/ /\ PutClaim(pushOf[p], "failed", claim.job, 0)
        /\ PushGoto(p, "dropping")
        /\ UNCHANGED <<pushOf, doomed, inbox>>
     \/ /\ claim.gen # pushOf[p]
        /\ PushGoto(p, "dropping")
        /\ UNCHANGED <<pushOf, doomed, inbox, claimVars>>
     \/ /\ "gcs" \in Faults
        /\ PutClaim(pushOf[p], "failed", claim.job, 0) \/ UNCHANGED claimVars
        /\ Nack(p)
  /\ UNCHANGED <<fileVars, report>>

(* the report is deleted if it is still this one, and the push acked *)
DropReport(p) ==
  /\ pushPc[p] = "dropping"
  /\ \/ report.gen = pushOf[p] /\ report' = NoReport
     \/ /\ report.gen # pushOf[p] \/ "gcs" \in Faults
        /\ UNCHANGED report
  /\ Ack(p)
  /\ UNCHANGED <<claimVars, fileVars>>

(* the API instance dies; Pub/Sub gets no answer *)
PushCrash(p) ==
  /\ "crash" \in Faults
  /\ pushPc[p] \notin {"idle", "reading"}
  /\ Nack(p)
  /\ UNCHANGED <<claimVars, fileVars, report>>

PushStep(p) ==
  \/ ReadReport(p) \/ ReleaseFinished(p) \/ OwnsClaim(p) \/ ListOutput(p)
  \/ DeleteNext(p) \/ MarkFailed(p) \/ DropReport(p)

=============================================================================
