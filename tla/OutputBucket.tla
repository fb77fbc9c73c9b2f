---------------------------- MODULE OutputBucket ----------------------------
(***************************************************************************)
(* The output bucket as one job_id sees it (src/burn-emulator-api/         *)
(* README.md, "Output bucket layout"), and the Pub/Sub subscription on its *)
(* _reports/ prefix.  Different job_ids share no object, so one job_id is  *)
(* the whole state of the claim protocol.                                  *)
(*                                                                         *)
(* Every operator below is ONE call to Cloud Storage; the handlers and the *)
(* runner interleave between calls.  A generation is a number that GCS     *)
(* gives each write of an object and never gives again; 0 stands for "no   *)
(* live object", as in an IfGenerationMatch precondition.                  *)
(***************************************************************************)
EXTENDS Naturals

CONSTANTS
  Requests,    \* the POST /v1/jobs calls that map to this job_id
  NoRequest,   \* the job of a claim that does not exist
  StaleAfter,  \* runStaleAfter, in ticks of the clock
  Faults       \* which failures the environment may inject

ASSUME RequestsAssumption == NoRequest \notin Requests
ASSUME StaleAssumption    == StaleAfter \in Nat \ {0}

(***************************************************************************)
(* "gcs":        a Cloud Storage call of the API returns an error; a write *)
(*               may have been applied nevertheless                        *)
(* "upload":     the same for a call of the runner                         *)
(* "trigger":    Cloud Run rejects the execution, or its answer is lost    *)
(* "crash":      the API instance that serves a POST or a push dies        *)
(* "kill":       an execution dies without running another line            *)
(* "redelivery": Pub/Sub delivers a notification again, also concurrently  *)
(***************************************************************************)
FaultKinds == {"gcs", "upload", "trigger", "crash", "kill", "redelivery"}

ASSUME FaultsAssumption == Faults \subseteq FaultKinds

VARIABLES
  claim,    \* _claims/<job_id> with its metadata
  lastGen,  \* the last generation GCS gave to the claim object
  meta,     \* meta.geojson: absent, the treatment area, or the run meta
  output,   \* output.tif: 0, or the claim generation of the run it is from
  report,   \* _reports/<job_id> with its metadata
  inbox     \* OBJECT_FINALIZE notifications not yet acked

claimVars  == <<claim, lastGen>>
fileVars   == <<meta, output>>
reportVars == <<report, inbox>>
bucketVars == <<claim, lastGen, meta, output, report, inbox>>

(***************************************************************************)
(* A claim record.  Its age is the time since UpdatedAt, counted up to     *)
(* StaleAfter; job stands for JobName, distinct per request here.  The     *)
(* error text and the attempts counter are left out: no step reads them.   *)
(***************************************************************************)
Claims == [gen : Nat, status : {"none", "running", "failed"},
           job : Requests \cup {NoRequest}, age : Nat]

NoClaim == [gen |-> 0, status |-> "none", job |-> NoRequest, age |-> 0]

(* mutant: stale a tick too early *)
StaleEarly(c) == c.age + 1 >= StaleAfter

Running(c) == c.status = "running"
Stale(c)   == c.age >= StaleAfter
Fresh(c)   == Running(c) /\ ~Stale(c)

(***************************************************************************)
(* A report object.  An execution writes at most one report, so the claim  *)
(* generation in its metadata also stands for the generation of the report *)
(* object that the notification names.                                     *)
(***************************************************************************)
Reports  == [gen : Nat, status : {"none", "completed", "failed"}]
NoReport == [gen |-> 0, status |-> "none"]

BucketTypeOK ==
  /\ claim \in Claims
  /\ lastGen \in Nat
  /\ meta \in {"absent", "area", "run"}
  /\ output \in Nat
  /\ report \in Reports
  /\ inbox \subseteq Nat

BucketInit ==
  /\ claim = NoClaim
  /\ lastGen = 0
  /\ meta = "absent"
  /\ output = 0
  /\ report = NoReport
  /\ inbox = {}

(* mutant: a plain overwrite, without the precondition *)
PutClaimBlindly(seen, status, job, age) ==
  /\ lastGen' = lastGen + 1
  /\ claim' = [gen |-> lastGen + 1, status |-> status, job |-> job, age |-> age]

(* putClaim with IfGenerationMatch = seen, on a claim that satisfies it *)
PutClaim(seen, status, job, age) ==
  /\ claim.gen = seen
  /\ lastGen' = lastGen + 1
  /\ claim' = [gen |-> lastGen + 1, status |-> status, job |-> job, age |-> age]

(* mutant: a plain delete, without the precondition *)
ReleaseRunBlindly(gen) ==
  /\ claim' = NoClaim \/ ("gcs" \in Faults /\ UNCHANGED claim)
  /\ UNCHANGED lastGen

(* the call releaseRun makes: delete with IfGenerationMatch = gen; 404 and *)
(* 412 leave the claim alone, and any other error is only logged           *)
ReleaseRun(gen) ==
  /\ \/ claim.gen = gen /\ claim' = NoClaim
     \/ claim.gen # gen /\ UNCHANGED claim
     \/ "gcs" \in Faults /\ UNCHANGED claim
  /\ UNCHANGED lastGen

(* time passes for the claim *)
AgeClaim ==
  claim' = [claim EXCEPT !.age = IF Fresh(claim) THEN @ + 1 ELSE @]

=============================================================================
