------------------------------- MODULE Runner -------------------------------
(***************************************************************************)
(* The runner's Cloud Run Job (src/burn-emulator-runner/.../__main__.py).  *)
(* A POST triggers at most one execution, so an execution is named by its  *)
(* request.  It computes on a private directory; what others can see is    *)
(* the order in which it touches the bucket: read the treatment area,      *)
(* overwrite it with the run meta, write the output, write the report.     *)
(***************************************************************************)
EXTENDS OutputBucket

CONSTANTS
  StartDelay,     \* longest wait of an execution before main() starts
  RunnerTimeout   \* the job's task timeout

ASSUME RunnerAssumption == StartDelay \in Nat /\ RunnerTimeout \in Nat

VARIABLES
  runPc,   \* where the execution of a request is
  runGen,  \* its BURN_EMULATOR_CLAIM_GENERATION
  runAge   \* time since the trigger while queued, since its start after that

runVars == <<runPc, runGen, runAge>>

(***************************************************************************)
(* "none": never triggered.  From "uploading" on SIGTERM is ignored.       *)
(* "completing" and "failing" are about to write that report.              *)
(***************************************************************************)
Writing  == {"computing", "uploading"}
Live     == Writing \cup {"completing", "failing"}
RunEnded == {"completed", "failed", "killed"}
RunPcs   == {"none", "queued"} \cup Live \cup RunEnded

RunTypeOK ==
  /\ runPc \in [Requests -> RunPcs]
  /\ runGen \in [Requests -> Nat]
  /\ runAge \in [Requests -> Nat]

RunInit ==
  /\ runPc  = [e \in Requests |-> "none"]
  /\ runGen = [e \in Requests |-> 0]
  /\ runAge = [e \in Requests |-> 0]

RunGoto(e, pc) == runPc' = [runPc EXCEPT ![e] = pc]

(* an accepted Jobs.Run call *)
Launch(e, gen) ==
  /\ RunGoto(e, "queued")
  /\ runGen' = [runGen EXCEPT ![e] = gen]
  /\ runAge' = [runAge EXCEPT ![e] = 0]

(* main() up to the download of the treatment area *)
Start(e) ==
  /\ runPc[e] = "queued"
  /\ \/ meta # "absent" /\ RunGoto(e, "computing")
     \/ meta = "absent" /\ RunGoto(e, "failing")
     \/ "upload" \in Faults /\ RunGoto(e, "failing")
  /\ runAge' = [runAge EXCEPT ![e] = 0]
  /\ UNCHANGED <<runGen, bucketVars>>

(* an artifact check or run() raises, or SIGTERM arrives: TimeoutError *)
RunRaises(e) ==
  /\ runPc[e] = "computing"
  /\ RunGoto(e, "failing")
  /\ UNCHANGED <<runGen, runAge, bucketVars>>

(* run() returns; _upload_meta, which may raise after the write happened *)
UploadMeta(e) ==
  /\ runPc[e] = "computing"
  /\ \/ meta' = "run" /\ RunGoto(e, "uploading")
     \/ /\ "upload" \in Faults
        /\ meta' \in {meta, "run"}
        /\ RunGoto(e, "failing")
  /\ UNCHANGED <<runGen, runAge, claimVars, output, reportVars>>

(* _upload_output, which may raise after the write happened *)
UploadOutput(e) ==
  /\ runPc[e] = "uploading"
  /\ \/ output' = runGen[e] /\ RunGoto(e, "completing")
     \/ /\ "upload" \in Faults
        /\ output' \in {output, runGen[e]}
        /\ RunGoto(e, "failing")
  /\ UNCHANGED <<runGen, runAge, claimVars, meta, reportVars>>

(* _write_report: replaces an older report, never raises; then exit *)
WriteReport(e) ==
  \E status \in {"completed", "failed"} :
    /\ runPc[e] = (IF status = "completed" THEN "completing" ELSE "failing")
    /\ RunGoto(e, status)
    /\ runAge' = [runAge EXCEPT ![e] = 0]
    /\ \/ /\ report' = [gen |-> runGen[e], status |-> status]
          /\ inbox' = inbox \cup {runGen[e]}
       \/ "upload" \in Faults /\ UNCHANGED reportVars
    /\ UNCHANGED <<runGen, claimVars, fileVars>>

(* out of memory, SIGKILL after the timeout, a lost instance *)
Killed(e) ==
  /\ "kill" \in Faults
  /\ runPc[e] \in Live \cup {"queued"}
  /\ RunGoto(e, "killed")
  /\ runAge' = [runAge EXCEPT ![e] = 0]
  /\ UNCHANGED <<runGen, bucketVars>>

RunStep(e) ==
  \/ Start(e) \/ RunRaises(e) \/ UploadMeta(e)
  \/ UploadOutput(e) \/ WriteReport(e)

(* the clock may not pass the deadline of an execution *)
RunsMayWait ==
  \A e \in Requests :
    /\ runPc[e] = "queued" => runAge[e] < StartDelay
    /\ runPc[e] \in Live => runAge[e] < RunnerTimeout

AgeRuns ==
  runAge' = [e \in Requests |->
               IF runPc[e] \in Live \cup {"queued"} THEN runAge[e] + 1 ELSE runAge[e]]

=============================================================================
