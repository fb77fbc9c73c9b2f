# Burn emulator in TLA+

Specifications of the burn emulator (`src/`), checked with TLC and proved about with TLAPS.
Every definition is translated from the source; `PROJECT.json` lists for each one the lines it stands for.

## 1. The system

| part | state it keeps | operations | talks to |
| --- | --- | --- | --- |
| **api** (`burn-emulator-api`, Go) | none of its own: claims, outputs and reports are objects in the output bucket; each instance caches version pointers and varloc geometries for 60 s | `POST /v1/jobs` (`dispatch.CreateJob`), `GET /v1/jobs/<job_id>` (`GetJob`), `POST /internal/pubsub/run-reports` (`HandleReport`) | Cloud Storage with generation preconditions, Cloud Run Jobs, Pub/Sub push |
| **runner** (`burn-emulator-runner`, Python) | a temporary directory | one execution per trigger: reads `meta.geojson`, runs the emulator, writes `meta.geojson`, `output.tif`, the report | Cloud Storage, SIGTERM at the task timeout |
| **model library** (`burn-emulator-model/src`) | checkpoints, simulated training data, bundles | `train`, `evaluate`, `ignite`, `run`, `bundle` | the file system, ray/pyretechnics workers |
| **slurm and scripts** (`burn-emulator-model/slurm`, `scripts`, `Makefile`) | the work queue file, the list of trained varlocs, the published objects and their `current` pointers | claim/mark queue entries, mark a varloc trained, publish inputs, varlocs and models | a shared file system, `gcloud storage` |

They interact only through shared objects and files: nothing in the system holds two of them under
one lock, and everything that runs may die between any two of its calls. What is hard is therefore
the order of the calls of different processes, what happens after a process dies, and messages that
come late, twice or not at all.

What makes each part correct, and where this is covered:

| component | correct when | here |
| --- | --- | --- |
| claim protocol of the api | one run at a time per job_id; a claim ends only for a reason; a failed run leaves nothing behind; a poller gets an answer | section 3, checked and proved |
| runner | its writes are ordered so that an output is complete when it is seen | section 3 |
| version and varloc resolvers | a job is named after versions that are there in full and not outdated | section 5, checked and proved |
| publishing | `current` names a complete version | section 5, checked and proved |
| trained list | no mark is lost to another one | section 5, checked and proved |
| work queue | an entry is worked on by one job and no entry is lost, until a live holder's lock is broken | section 4, checked and proved |
| checkpoints | a resume finds one latest checkpoint with its optimizer; the best one is kept | section 6, checked and proved |
| training data | files of two runs never mix; what is marked complete is complete | section 7, checked and proved |
| windows | cropping inverts padding; the ignition is in the middle | section 8, proved |
| dataset, `run`, `evaluate` | items are aligned; outputs are the counts or burns of the fires; every command ends | section 8, checked and, but for the end, proved |
| statistics and bundles | a model meets the statistics of its training, whichever command computed them | section 9, checked and proved |
| configuration, service config | data that is settled before a command begins | not modelled |
| networks, losses, geometry, request parsing | numerical or stateless code | not modelled |

The hazards of every part, with their lines, are in `PROJECT.json` under `hazards`.

## 2. Plan

Done, in this order:

1. **Claim protocol**: `OutputBucket`, `Runner`, `JobsApi`, `RunReports`, composed by `RunClaims`; abstract
   specification `ClaimLease`; proofs in `RunClaims_proofs`.
2. **Work queue**: `WorkQueue`; abstract specification `TaskBoard`; proofs in `WorkQueue_proofs`.
3. **Publishing**: `Registry`, `TrainedList`, `Resolvers`, composed by `Publishing`; abstract specification
   `VersionPointer`; proofs in `Publishing_proofs` (publishers and lists) and `Resolvers_proofs`.
4. **Checkpoints**: `Training`; proofs in `Training_proofs`.
5. **Training data**: `TrainingData`; proofs in `TrainingData_proofs`.
6. **Inference**: the pure operators of `Windows` and `Burns`, `Dataset` over them,
   and `Inference`, which composes the dataset with the loops, writers and pools of the commands; proofs of all four in
   `Inference_proofs`.
7. **Experiments**: `Experiment`, the statistics, checkpoints and bundles that commands share; proofs in `Experiment_proofs`.

To do:

8. The GPU slots of `train.slurm`, the arithmetic of `submit_train_all.sh`.

Each invariant and each safety property of a step or a refinement that a run checks is also a theorem, with the assumptions that its section
names. What is only model-checked: the liveness properties (`PollSettles`, `ReportSettlesClaim`, `WaitersGetThrough`, `QueueDrains`,
`CommandEnds`), and the violation of `LayersStay`.

Every module keeps its parameters as CONSTANTS with named assumptions, one action per operation, and no
RECURSIVE operator, so that it can be proved about.

## 3. The claim protocol

### Modules

| module | models | state |
| --- | --- | --- |
| `OutputBucket` | the objects of one job_id, each operator one Cloud Storage call | `claim`, `lastGen` (GCS generations), `meta`, `output`, `report`, `inbox` (notifications not acked) |
| `Runner` | `main()` of the runner, from the trigger to the report | `runPc`, `runGen` (the claim generation in its environment), `runAge` |
| `JobsApi` | `CreateJob` from the output check on, `GetJob` | `callPc`, `callGen`, `tries`, `stampAge` |
| `RunReports` | push deliveries and `HandleReport` | `pushPc`, `pushOf`, `doomed` (what `deleteOutput` listed) |
| `RunClaims` | the four above and a clock | all of it |
| `ClaimLease` | what the claim promises: a lease with one holder | `mode`, `holder` |

Different job_ids share no object, so one job_id is the whole state. A `POST` is a request, named by
what makes its claim its own (`JobName`); it triggers at most one execution, which has its name. A step is one call of a
handler to Cloud Storage or Cloud Run with the local code that follows it, and every other process may act
between two steps. Reads return the current state of the object, as GCS guarantees. `callPc`, `runPc` and
`pushPc` say which call comes next; an answered call keeps its answer there.

Abstractions: GCS generations are numbers counted by `lastGen`; the claim generation that a report carries
also stands for the generation of the report object, since an execution writes at most one report; `failRun`'s read
and write are one step, since both carry the same precondition and a generation never comes back; the
contents of `output.tif` are the generation of the run it is from; the time since `updated_at` is
counted in ticks up to the stale age (`updated_at` is stored in whole seconds: below a tick). A GET that crashes is a GET that never continues.

### Time

`Tick` moves every age at once, and may not pass a deadline: a `CreateJob` past its claim ends within
`TriggerTimeout` (`claimTriggerTimeout`, 90 s), an execution starts within `StartDelay` of its trigger and ends within
`RunnerTimeout` (the job's task timeout, 20 min); a claim is stale at `StaleAfter` (25 min). `Timely` says
that the first three together are below the fourth. README of the api only promises the runner timeout below the stale age;
how long Cloud Run may queue an execution is not this code's to decide, and without a bound on it `NeverOvertakes` fails.

### Faults

`Faults` names what the environment may do, so that each run says under which it holds: `gcs` (a call of the api
returns an error, possibly after a write took effect), `upload` (the same for the runner), `trigger` (Cloud Run rejects,
or its answer is lost), `crash` (an api instance dies), `kill` (an execution dies), `redelivery` (Pub/Sub
delivers again, also side by side).

### Properties

- `NeverOvertakes`: a POST replaces a running claim only when the old request will trigger nothing and
  the old execution will write no file any more.
- `FailsForCause`, `ReleasedForCause`: a claim turns failed only on the report of its own run; a running claim
  disappears only when its run completed, its POST gave up before a run existed, or a caller that saw the output
  clears it. The last disjunct is where the code is weak: the claim may be that of a later run.
- `LeaseSpec`: the claim object implements `ClaimLease` (`mode` and `holder` are computed from `claim`).
- `FailedRunLeavesNoOutput`: when a claim is on record as failed, no output of that run is there to be
  served as cached. Checked without `gcs`: `deleteOutput` only logs its errors.
- `PollSettles`, `ReportSettlesClaim`: liveness, see Fairness.
- `ClaimInv`: the inductive invariant of the proofs.

### Runs

| run | instance | shows |
| --- | --- | --- |
| `faults` | 2 requests, 1 poller, 1 push, all faults | `TypeOK`, `ClaimInv`, `NeverOvertakes`, `ReleasedForCause` |
| `contention` | 3 requests, 2 pushes, `upload`, `crash`, `kill`, `redelivery` | `LeaseSpec`, `FailsForCause`, `FailedRunLeavesNoOutput`: three requests are what lets two race for the claim that a third held, two pushes what lets one overtake another |
| `live` | 2 requests, 1 poller, 1 push, `trigger`, `kill`, `redelivery` | `PollSettles`, `ReportSettlesClaim` |

A request posts once, so the number of POSTs is the number of requests, and a generation is at most
`MaxGen = 2 * |Requests|` (each request claims once and its run fails once): no counter needs a bound of its own. Ages
stop at the deadlines. Two requests are enough for a claim to be replaced, a report to be
overtaken and a run to be retried; three are needed for the lease. Requests and pushes are
interchangeable, which the safety runs use as symmetry; the liveness runs do not. Deadlock is checked but
cannot happen: the clock can always tick once no deadline holds it.

### Fairness

`FairSpec` assumes weak fairness of every handler and execution (each call has a deadline, after which the code goes on),
of polling and of the clock, and strong fairness of the delivery of each notification: Pub/Sub retries a
notification until it is acked, and another one that keeps the push endpoint busy does not displace it. No
fault is fair, and under `kill` or `trigger` an execution may never report: then the claim goes stale and `GET` says
failed.

### Proofs

`RunClaims_proofs` proves, for any sets of requests, pollers and pushes, any deadlines and any faults:

| theorem | statement |
| --- | --- |
| `TypeCorrect` | `Spec => []TypeOK` |
| `ClaimsAgree` | `Spec => []ClaimInv` |
| `ReclaimIsHarmless` | `Timely` implies `Spec => NeverOvertakes` |
| `OnlyOwnRunFails` | `Spec => FailsForCause` |
| `OnlyCauseReleases` | `Spec => ReleasedForCause` |
| `ClaimIsLease` | `Spec => LeaseSpec` |
| `FailedRunsLeaveNothing` | `"gcs" \notin Faults` implies `Spec => []FailedRunLeavesNoOutput` |

None of the properties is inductive. `FailsForCause` needs to know that the generation a push handles belongs to a
run that failed (`ReportInv`), which needs that the generation of an execution is that of the claim of its
request for as long as it stands (`RunInv`, `PostInv` through `ClaimedAt`), which needs that nobody holds a
generation GCS has not given yet (`GensGiven`). `ReleasedForCause` also needs `ClearInv`. `NeverOvertakes` needs `AgeInv`: while a
request or its execution is at work, its claim is not older than the deadlines it has used up. `LeaseSpec` needs
of a POST about to write that the claim it judged, if it still stands, is not fresh
(`PostInv`): a claim that is not fresh never becomes fresh again. `ClaimInv` is the conjunction; one lemma per module
shows that its steps preserve it.

`FailedRunLeavesNoOutput` needs more: that a report of a failed run deletes the output before it marks the claim does not help if
another execution could upload under the same generation later. `OwnGens` excludes that, a generation is of one
request for good; `OutputGone` then follows the output of a generation from its deletion to the mark. Without the assumption it is
false, as a deletion that fails is only logged.

Only model-checked: the liveness properties, which are out of the prover's reach, as is whatever depends on ENABLED.

### Known limits

The steps are modelled, and no property claims the opposite: a POST checks the output, another run finishes, the POST claims and
its run fails, and the failed report deletes an output that was served as cached; `clearFinishedClaim` releases the claim of a later run that is still at work; a
GET between the two reads of which a run uploads its output and is released answers 404 once; an error of
`ownsClaim` drops a failed report (the claim then ends by going stale).

## 4. The work queue

`WorkQueue` models `slurm/queue.sh` and `queue_mark.sh`; `MCWorkQueue` instantiates it, `TaskBoard` is what it
promises. The queue is one file that every worker rewrites as a whole; the lock is a directory, taken by
`mkdir` and removed by `rmdir`, also by a waiter who has run out of patience.

| state | in the code |
| --- | --- |
| `lockdir`, `queue`, `tmp` | `$QUEUE.lockdir`, `$QUEUE`, `$QUEUE.tmp`; a truncated queue is the function without lines |
| `pc`, `edit`, `line` | where a process is, what it does to which line |
| `waited`, `polls` | the counter of `queue_lock`; failed `mkdir`s while the present holder has the lock |
| `overrun` | history, not in the code: the lock of a live holder has been broken |

One action per command that touches a file: `Acquire`, `Refused`, `Sleep`, `BreakLock` (`queue_lock`), `PickPending`
(`queue_claim`), `Draft`, `Truncate`, `Copy`, `Remove` (`queue_write`: awk into `$QUEUE.tmp`, the redirection, `cat`,
`rm`), `Unlock`, `Work` (`queue_run`), `Mark` (the `grep` of `queue_mark.sh`, which is outside the lock), and `Kill` for
`scancel`, the time limit or a lost node, anywhere; a process that dies in the section is `fallen`. A line is its status and its job; node and times are left out. Varlocs are unique in the queue, so a
line stands for its varloc.

`Patience` is the number of failed `mkdir`s before a lock is broken (300, one each 0.2 s). Every waiter counts its own since it began to
wait, and `BreakLock` removes the directory whoever has it then, as the script does. The one assumption about time is in `Refused`: a live holder
is done before one waiter has failed `SectionPolls` times. In the runs it is 1, that is, a section (awk and cat on a small file) takes less
than 0.2 s between two polls; on a file system where it takes longer `SectionPolls` grows.

### When a live lock is broken

Each waiter counts from when it began to wait. So after a holder's death two waiters can run out of patience together: the first breaks the
lock of the dead and takes it, the second removes the lock of the first, which is alive and in the section. `queue.sh:11` calls what it breaks a stale
lock; nothing compares it with the lock that the waiter began to wait for. From then on two processes rewrite the queue through one
`$QUEUE.tmp`, and two workers may claim one line. The model takes these steps; `overrun` remembers them.

- `LiveLocksStay`: patient waiters do not begin with it: before a holder has died no live lock is broken.
- `OneWorkerPerLine`, `QueueInv` and `BoardSpec` hold, whoever died and wherever, until `overrun`. After it they promise nothing, as the code does not
  keep it: without the exception TLC finds in the instance of `kills` that the mark dies with the lock, both workers get in as above, and
  claim the same line.

A waiter is patient (`Patient`) if `Patience >= SectionPolls * Cardinality(Turns)`: `Turns` bounds how often the lock is taken at all, a claim and a
result for each line, a last look of each worker and up to three for each mark. With 300 and `SectionPolls` 1 that covers some 140 varlocs with a
few workers. Beyond it the code only makes it unlikely that a waiter loses every race for a minute.

A death between `Truncate` and `Copy` leaves the queue file empty. No claim is contradicted, and the draft still shows the board, but no process reads
it: the next rewrite drafts from the empty file, and results and pending lines are gone. `Lost` is this or `overrun`; `TaskBoard`
allows its board to be lost, for good, and constrains it until then.

| run | instance | shows |
| --- | --- | --- |
| `kills` | 2 workers, 1 mark that requeues, 2 lines; a worker and the mark may die anywhere; `Patience` 9, which is `Patient` | `QueueInv`, `OneWorkerPerLine`, `LiveLocksStay`, `BoardSpec` (the file, or the draft that is to replace it, implements `TaskBoard`) |
| `waiters` | 2 workers, 1 mark that requeues or skips, 1 line; a worker may die anywhere; `Patience` 1 | `WaitersGetThrough`: also when locks of live holders are broken; `QueueDrains`: until the board is lost, a claimed line gets its result or its worker is dead, and no line stays pending while a worker is left, although jobs fail |

Two workers, a mark and two lines let a claim race a claim, a finish and an edit of the same line and of another one, and, when the mark has died with
the lock, two workers break and take it. `Patience` 9 is what `Patient` asks for (2 * 2 + 2 + 3 turns). In `kills` the mark only requeues, which
keeps the run small; `skip` is in `waiters` and in the proofs. In `waiters` a waiter that has been refused twice breaks the lock, dead or not, so that two processes
may be in the section and a draft be missing when it is to be copied. Deadlock is not checked: workers end when nothing is pending.

### Fairness and proofs

`FairSpec` assumes weak fairness of each process's steps: the loops of the scripts run on as long as their job
does. Deaths are not fair. No fairness of the lock is assumed: a waiter gets through because every worker
ends.

`WorkQueue_proofs` proves, for any workers, marks, lines, edits, patience and mortals:

| theorem | statement |
| --- | --- |
| `QueueInvariant` | `Spec => []QueueInv` |
| `OneWorker` | `Spec => []OneWorkerPerLine` |
| `QueueIsBoard` | `Spec => BoardSpec` |
| `PatientWaiters` | `Patient => (Spec => []LiveLocksStay)` |

That no two workers are at work on one line is not inductive: it needs
that a claimed line says so in the file and, while someone rewrites the file, in the draft (`Held`), which needs that nobody
else drafts at that time (`MutualExclusion`), and that who drafts a claim saw the line pending (`Intent`). Only `BreakLock` can end mutual exclusion, and if
somebody is in the section it sets `overrun`; a death only empties the section.

`QueueIsBoard`: the step of the board is `Truncate`; every other step stutters or loses the board. That it is a step of the board needs that the draft is still that of
the queue and was made of a line in the right state (`Drafted`), that a pending entry names no job (`PendingIsFree`), and, since the board gives a
worker one entry at a time, that a worker whose entry is running is dead or between its claim and its result (`RunningIsHeld`).

`PatientWaiters` is a count: each time the lock is taken uses up one of `Turns` that no later taking can use again, since a finished line is
not claimed again unless the mark's one edit requeues it. While nobody has fallen, the invariant relates the turns still to come to what each waiter has counted: its count is
at most `SectionPolls` for each turn that is over, and what it was refused in the present one, so it is below `Patience` whenever a live holder refuses it.

The liveness properties are only model-checked.

## 5. Publishing, marking and resolving

Publishers and training jobs write the inputs and models buckets while instances of the api read them, without any lock
between the two sides.

| module | models | state |
| --- | --- | --- |
| `Registry` | `publish_inputs.sh`, `publish_model.sh` | `stored` (the files of each directory), `pointer` (the `current` objects), `valid` (the varlocs in a version's `valid_varlocs.gpkg`), `gpkg` (that file on the training host), `pubPc`, `pubNext`, `pubSent`, `pubRead` |
| `TrainedList` | the end of `run_varloc` in `train.slurm`, `mark_trained.sh`, `publish_varlocs.sh`, `update_trained.sh` | `trained`, `txt` (`varlocs.txt`), `flock`, `markPc`, `markIn`, `seen` |
| `Resolvers` | `CreateJob` up to the job_id: `resolve`, `selectVarLoc`, `releasedModel`, with the instance's caches | `cache`, `cacheAge`, `shapes`, `shapesAge`, `postPc`, `inputsOf`, `modelOf`, `read`, `readAge`, `gone` |
| `Publishing` | the three above | all of it |
| `VersionPointer` | what publishing promises its readers | `whole`, `current` |

A version is a set of directories: the layers of an inputs version, the bundle of a model version. A step is one call of `gcloud
storage` of a script, one object of an upload, one read of a POST, or the command of a script under the lock. Every step may fail (`Fail`, `FailMark`,
`FailPost`), which also stands for an interruption. `gone` is not in the code: it measures how long ago a version stopped being
current, for `FreshEnough`.

Abstractions: a version's files have one content each, but for `valid_varlocs.gpkg`; ages are ticks, up to `TTL`
(`versionCacheTTL`, 60 s) and to `ReadTime`, by which a pointer that was read reaches the cache; the gpkg cache
(`varLocsResolver.features`) reads under its mutex and is one step; `make valid-varlocs` rewrites the gpkg in one step, so a
publisher reads the old or the new one, never a torn one. Left out: `train.slurm` without `PUBLISH`, `trainable_varlocs.sh` (it only
reads), requests that intersect no varloc.

### Tidy

What the scripts take for published is less than all of it: a layer with any object, a bundle with all files but
`model.pt`. `Tidy` assumes what operators have to see to, since the scripts do not: nobody publishes a version beside
another publisher of it; nobody publishes, without `FORCE=1`, a version a directory of which is there in part and passes for published;
nobody uploads with `FORCE=1` over a version that is current. It constrains `Start` only.

### Properties

- `PointerSpec`: pointers and complete versions implement `VersionPointer`: a pointer is only switched to a version
  that is there as a whole, and stays so. `CurrentIsComplete` is the same of a state.
- `MarksSurvive`: once a job has replaced the gpkg of an inputs version, its varloc stays in that gpkg: another job's
  older list, `update_trained.sh`, or a publisher's older file never replaces it.
- `JobsNamePublished`: a named job has a complete inputs version, and a complete bundle of its own varloc or none, although it
  is made of three reads, each possibly cached, between which pointers move.
- `FreshEnough`: `resolve` returns no version that was gone for `TTL + ReadTime`. It is not obvious: a slow POST may store what it
  read before the pointer moved over what another has stored since.
- `ReleaseInv`, `NamingInv`: the inductive invariants of the proofs.

### Runs

| run | instance | shows |
| --- | --- | --- |
| `release` | 2 jobs, `update_trained.sh`, 2 publishers of a new inputs version, not tidy | `TypeOK`, `MarksSurvive`, `ReleaseInv` |
| `naming` | 2 POSTs for a varloc, a publisher of a new inputs version and one of two models, tidy, `TTL` 2, `ReadTime` 1 | `JobsNamePublished`, `FreshEnough`, `PointerSpec`, `NamingInv` |

Each version is published by at most two publishers and each publisher, job and POST runs once: that bounds
the state. Two jobs are what it takes for a gpkg to be replaced between another's read and write of it, two publishers for
one to be uploaded late, to a version that is current by then; the run's symmetry swaps the two publishers, and the two jobs with their
models and varlocs. With
`TTL` 2 and `ReadTime` 1 a stored pointer can be older than the one it replaces and still be hit. One layer
is enough: a layer has two files, and a publisher that skips it or breaks off in it does so beside the pointer and the gpkg. Deadlock is checked: the clock
always ticks.

No liveness is claimed: nothing here waits for another process but for the lock of `mark_trained.sh`, and that is `flock`,
which the kernel releases with its holder.

### Proofs

| theorem | statement, for any versions, publishers, jobs, POSTs and times |
| --- | --- |
| `Publishing_proofs!TypeCorrect` | `Spec => []TypeOK` |
| `PointersImplemented` | `Tidy` implies `Spec => PointerSpec` |
| `PointersComplete` | `Tidy` implies `Spec => []CurrentIsComplete` |
| `NoMarkIsLost` | `Tidy` or nobody forced implies `Spec => []MarksSurvive` |
| `ListsAgree` | `Spec => []ReleaseInv` |
| `Resolvers_proofs!CachesAgree` | `Spec => []NamingInv` |
| `JobsArePublished` | `Tidy` implies `Spec => []JobsNamePublished` |
| `JobsAreFresh` | `Spec => FreshEnough` |

`BaseInv` is why pointers are safe: what a publisher has behind it is up (`UploadInv`), because no other publisher of the same
version is active (`Apart`), no directory ahead of one without `FORCE=1` passes for more than it is (`Unmistaken`), and one
with `FORCE=1` uploads over nothing that is current (`Unserved`). Files are never deleted, so a complete version stays so.
`MarksInv` says that the list only grows under its lock (`txt`, and what `update_trained.sh` found, are among the trained
varlocs, and the latter contain the former), so that a gpkg made of it has every mark; `OverwriteInv` that a publisher who may still replace a
released gpkg read one with that mark in it. `AgesInv` bounds how long a cached or read version can be gone by its age;
`NamesInv` says that what is cached, read or named was current once, hence complete.

### Known limits

Without `Tidy`, `current` may name a version that lacks files: a publisher takes the layer that another is uploading, or has
left half uploaded (also when the same publisher is run again after an interruption), for a published one, and a bundle without `model.pt` too. A mark
that goes to the inputs version that is just being replaced is not carried over; `make varlocs-release` by hand runs outside the
lock; a release without any varloc makes every POST fail.

## 6. Checkpoints

`Training` models one experiment directory: `train.py` and the checkpoint functions of `utils.py`; `MCTraining` gives the losses.

| state | in the code |
| --- | --- |
| `models`, `optims`, `log` | `checkpoints/*.pt`, `checkpoints/optim/*.pt`, the epochs in `train_log.csv`: all that survives |
| `pc`, `epoch`, `loss` | where the run is |
| `heap` | `train_top3`, as the list that `heapq` makes of it |
| `kills`, `best` | the bound on kills; history: the lowest loss in any name saved |

`Start` is a run up to its first batch, `TrainEpoch` the batches of an epoch, `SaveOptim`, `SaveModel`, `EvictModel` and `EvictOptim` the file
operations of `save_checkpoint` in their order, `AppendLog` the rows of the log, `FinalModel` the save after the loop, `Kill`
an end anywhere. `_atomic_save` renames, so a file is one step. A file's name has epoch and loss, the latter with four
decimals: `Rounded` lets two neighbouring losses share a name. A comparison with NaN is false in `Less`, as in Python, so a NaN disturbs
the heap as it does there; weights that became NaN stay so.

Run `training`: 5 epochs, losses 0, 1, 2, 4 (0 and 1 share a name), 2 kills. It takes a fourth save to
evict and a fifth to evict again from a heap that was rebuilt; a kill in the first run and another in the second leave
three runs' files side by side. NaN is not among the losses: with it `BestSurvives` fails, since a NaN at
the root hides the worst entry and a NaN entry never leaves; the proofs allow it. Deadlock is off: a run that has trained the last epoch ends.

- `ResumePaired`: no two checkpoints have one epoch, and each has the optimizer state that the same run wrote.
- `BestSurvives`: the lowest loss ever saved is still there and is what `find_best_checkpoint` finds, although a resumed run
  begins with an empty heap.
- `EndsTrained`: a run that ends by itself leaves a checkpoint of the last epoch, which `update_trained.sh` looks for.

`Training_proofs` proves, for any number of epochs and kills and any losses, NaN among them, `ResumeIsDefinite`
(`ResumePaired`) and `RunsEndTrained` (`EndsTrained`). `ResumePaired` is not inductive: it needs that no file is of a later epoch than the one at
work and none of that epoch before its model is saved (`Below`), that the optimizer file is there before its model and goes after
it (`Saving`), and that whatever is evicted, one of the remaining epochs is the highest (`AllHaveLatest`). Neither depends on what the heap holds.

`TrainingTypes` (`TypeOK`) is proved of any losses too; it needs that the heap has four entries while one is evicted and at most three
otherwise, hence `Rise` of at most two swaps, in which no step of `heappush` or `heappop` is left out.
`BestCheckpointSurvives` (`BestSurvives`) assumes that no loss is NaN: without it the property is false, see above. Its invariant `BInv` says that the heap's root
is the worst of it (`HeapOK`), that its entries are of this run's epochs, each once (`HeapEpochs`), and all of them on disk but for the one that
is going (`HeapFiles`): what is evicted is never better than what remains, and the best file of an earlier run is in no heap, so it stays.
That the best file is what `find_best_checkpoint` finds needs a least loss in any set of files, which is `LeastNat`, see section 10.

Left out: a `-cp` given to `train` (`train.py:120`), which resumes from any checkpoint. With one that is older than the latest, the epochs after it are trained and
saved again beside their first files, and `ResumePaired` does not hold of that directory.

No liveness: nothing here waits.

## 7. Training data

`TrainingData` models `ignite.py` for one varloc and data version. `files` are the files in `training_data_dir`, each with the run
that wrote it; `exists`, `pc`, `run`, `collate`, `treatment`; `pending`, `ready` and `rows` are the ray tasks not collected, those of them that have ended, and
the results; `tables` the rows of the two `outputs_table.csv`; `torn` (history) says that a run died in a removal.

`Begin` is a run that passes all its checks; `RemoveData` is `rmtree`, file after file in any order; `WriteInput` writes the clipped
rasters and the ignition locations; `SubmitTasks`, `EndTask`, `Collect` (`ray.wait` for up to `Batch` results in any order),
`WriteTable` and `WriteCbp` are the loop over treatments. `Die` stands for a kill, an exception found late (a missing source
raster is one), or a failed task: the tasks die with the driver.

Run `datagen`: 3 runs, 4 ignitions, one duration, results in batches of 3 and 1. Three runs let one complete, one be interrupted
in removing or rewriting, and one repair that; two batches let the order of the results differ from that of the
ignitions. Deadlock is off: after `MaxRuns` there is none.

- `SingleRun`: files of two runs never lie side by side, so inputs, locations and fires are of one seed and configuration.
- `MarkerMeansComplete`: `legalmax/outputs_table.csv` means that all of the data is there (README of the model library), unless `torn`; with
  `collate_ignitions` the collated raster of legalmax is excepted, which is written after the marker.
- `WindsByPosition`: the row at an ignition's position, where `VarLoc._set_wind_angles` reads its wind, is that ignition's. For
  one duration, the default; with several, positions shift.

`TrainingData_proofs` proves these and `TypeOK` (`FilesOfOneRun`, `MarkerOfCompleteData`, `RowsOfIgnitions`, `DataTypes`) for any number of runs,
ignitions and durations, any batch sizes and any order of results; durations are numbers (`Durations \subseteq Nat`), as sorting requires.
`SingleRun` needs that a run that has got past the removal finds only its own files (`RunOK`). `MarkerMeansComplete` needs `Progress`: at each step
of the loop over treatments, what is behind it has been written, down to a fire for each task that is not pending. `WindsByPosition` needs that a result
is collected once and that the table is written only when none is missing (`RowsOK`), and that one order of these rows is
increasing, which makes `SortedRows`, a CHOOSE for `sort_values`, the identity on ignition numbers (`TablesOK`).

## 8. Windows, the dataset and inference

| module | models | state |
| --- | --- | --- |
| `Windows` | `datasets/utils.py`, `VarLoc._pad`, `circle_mask`, one axis at a time | none |
| `Burns` | `_center_component`, `_fire_touches`, crown change, `batched_agg`, the boxes of `pt.change_task` | none |
| `Dataset` | `VarLoc`: constructor, sampling of ignitions, treatment layers, cached burns, `__getitem__` | `ds`, `ignitions`, `tries`, `fuels`, `burns`, `items` |
| `Inference` | `run` and `evaluate`, each with the emulator or pyretechnics, and the items that training takes | `pc`, `position`, `sim`, `task`, `pending`, `writes`, `fires`, `agg`, `kept`, `cancel`, `output`, `files`, `row` |

`ds` is a command with its configuration and rasters, one of `Datasets`; it never changes. `fires` keeps what was
predicted or simulated, a set of burned and a set of crowned pixels for each sample and role: any of `ds.fires`. A pixel of a
`fire_type` raster is named by its role, its ignition number and its cell, so that alignment can be told.

- The emulator: `LoadBatch` (the loader's next batch, item after item, each with its effect on the shared raster), `ForwardRun` (the cancel
  event, the network, which fires are kept, the sum), `WriteRun`; for evaluate `ForwardEvaluate`, `DrainOldest`, `SubmitWrite`, `EndPass`.
- The writers are threads: `StartTask`, `EndWrite`, which may fail after some rasters.
- Pyretechnics: a task for each ignition in a process pool, `EndSimulation`, `Collect` in any order, `AllTaken`, `Leave` (the exit
  of the pool waits for whatever runs or waits). `QueueTask` is the pool's own thread, which moves waiting tasks into its call queue of `workers + 1` places;
  from there on a task cannot be cancelled, and `StartTask` runs it also after a cancel. The loop of `future.cancel()` (`run.py:145`) is one step.
- `SetCancel`: the caller of `run`.

Of the channels of x only the fuel class is kept, the one that is changed in place. Left out: topography, normalisation, jitter,
`burn_times`, the reports, and winds: they are drawn or read by position, and are an input of the network or the simulation, the result of
which is arbitrary here.

### Runs

`commands`: seven datasets, all commands, on rasters of 3x3 to 7x8 cells with windows of 3 (the whole window in a border) and 7 (a
circle with corners, burns on a detour or in two parts, windows that need padding and windows that do not), with rock in one role, missing data and a
treatment area. Evaluation has 2 batches, 2 passes, 2 writers and failing writes; pyretechnics 4 ignitions and 1 worker, hence 3 tasks in
the pool and one that waits, with failing tasks and a caller that cancels. `MaxResample` is 2: samples that suffice at
once, later or never.

- `ItemAligned`: a position that the mask keeps shows in every channel the same cell and the burn of the same ignition and role, cached or not; treatment and
  baseline differ in the area only.
- `IgnitionsFit`: sampled ignitions burn in both roles; there are fewer than asked for only when resampling is exhausted.
- `OutputCounts`: what `run` writes, against a definition that knows nothing of convolutions, windows, crops, boxes and batches (`ReachedFromCentre`,
  `CellFrom`): an ignition whose central burn reaches the area counts once at every cell, in one class, and that is the class of its central crown fires
  wherever no fire that counts has a crown fire off its central burn. The latter case is a divergence, below.
- `RowMeansWritten`: what evaluate has written when it adds its row. Rasters are keyed by sample here and by ignition number in `evaluate.py:56-58`, so
  numbers have to be unique, as `ignite` makes them.
- `OneWriter`: no raster is written by two threads at once, if there are as many batches as writers.
- `CancelBounds`: what a cancelled run still simulates: the tasks in the call queue and those that run, `2 * workers + 1` at most, and no other.
- `CommandEnds`: cancelled or not and whatever fails.

`FairSpec` has weak fairness of the command's thread (`Command`) and of the pool (`Pool`): loops go on, executors start what waits
while they have room, and simulations and writes end, by result or exception. The caller need not cancel. The only
command without an end is the model's training, which takes items for ever. Deadlock is off since ended commands stop.

### Findings

Run `erased`: `LayersStay` says of the items what `varloc.py:658` says of the layers, and fails. `_build_arr_x` sets the fuel class to 0 outside
the circle in what it took from the raster; where no padding was needed, and with `circle_mask`, that is a view (`arr = values[:, yslc,
xslc]`), and the fuels of the dataset itself are erased in the corners of the window. Which fuels later windows show depends on which
were served before, in training on the shuffle. The other channels are concatenated first, which copies them. `ItemAligned` holds
all the same, as both layers lose the same cells.

### Known divergences that no run shows

README.md:74 of the model library and the comment of `run.py:242` say that of each fire the center-connected burn is kept and its crown change
classified. In the code the component decides only whether the fire is kept (`run.py:243-247`); the change is that of the
whole window (`run.py:248-256`), and a crown fire that is not connected to the ignition is counted. The predictions of run `commands` contain such a
fire (`Parts`); `OutputCounts` claims nothing of the class of the cells it changes, only that every fire counts once at them.

The fill of `run.py:45` stops after `3 * ws` rounds: a burn of 51 pixels that winds through a window of 13 is cut off after 39, and the fire is dropped if
only its far end is in the treatment area. `OutputCounts` compares with a fill that has no bound, but no fire of run `commands` reaches it.

### Proofs

`Inference_proofs` proves, for any datasets that `InferenceAssumption` allows (any rasters, windows, areas, samples, predictions,
batches, passes and workers, with or without padding, circle, burns and cache, with failures and cancellation):

| theorem | statement |
| --- | --- |
| `CropInvertsPadding`, `IgnitionIsCentred` | `StampsBack`, `Centred` for every raster, window and cell |
| `LoopTypes` | `Spec => []TypeOK` |
| `SampledIgnitionsFit` | `Spec => []IgnitionsFit` |
| `CancelledRunStops` | `Spec => CancelBounds` |
| `WritersOnOwnRasters` | `Spec => []OneWriter` |
| `ItemsAligned` | `RastersHoldWindows` implies `Spec => []ItemAligned` |
| `SmallFiresAreFilled` | the flood fill finds all that the centre reaches, of a fire of at most `3 * ws` pixels |
| `EachIgnitionCounts` | `RastersHoldWindows` implies `Spec => [](FillEnds /\ InOrder => OutputCounts)` |
| `RowOfWholeEvaluation` | `RastersHoldWindows` implies `Spec => [](FillEnds /\ EnoughBatches => RowMeansWritten)` |

`InferenceAssumption` is what the constructor and the commands assert of their arguments (`Accepted`), and that only what burned can crown: both are
classes of one `fire_type`. The hypotheses are where the code depends on its inputs:

- `RastersHoldWindows`: the window is no larger than the raster. Otherwise the padding is all on one side (`Centred` names the case), and the
  ignition is off the middle of the item.
- `FillEnds`: the fill of each predicted fire was over before its `3 * ws` convolutions were. A burn that winds may take more,
  and then its far end is cut off. `SmallFiresAreFilled` gives a size below which that cannot happen.
- `InOrder`: `run` with the emulator tells the layers apart by their position in `fuels_paths`, pyretechnics by name.
- `EnoughBatches`: as many batches as writers, as for `OneWriter`, which has it in its statement. Otherwise the write of one pass may be overtaken by that of the next.

In run `commands` all four hold, so that there the properties hold without them; the theorems say on what this rests.

Arguments. `CancelBounds` needs only how full the pool can be (`Queued` at most `workers + 1`, `Running` at most `workers`) and that nothing waits after the cancel.
`Windows` is arithmetic: the bounds are clamped, so a case for each border is enough. `ItemAligned` needs that the cached burns are those of
ignition and role (`BurnsCached`) and that treatment and baseline fuels agree outside the area (`LayersAgree`), which the erasing of corners keeps since an
item erases both or none. `OneWriter` needs that tasks are drained in the order of submission (`LastPending`) and where in `task` the present pass
begins (`PassAt`): two writes that are not drained are less than `Batches` apart, hence of different batches. `OutputCounts` needs what the sum is
after each batch or result (`EmulatedOK`, `SimulatedOK`) and that `run` writes it when all are in it (`OutputOK`); the rest compares that sum with the
definition that knows no windows, through `SmallFiresAreFilled`'s lemmas on what is closed under touching and `StampsBack`. `RowMeansWritten`
needs that what has been drained has ended without an exception (`DrainedOK`), and that the latest write of each sample shows its last prediction
(`FreshOK`).

The fill is a recursive function. What it computes is proved without induction over data: among the numbers of rounds for which
it goes wrong there would be a least one (`LeastNat`), and one round more is a round of `Grown`.

`CommandEnds` is only model-checked.

## 9. Statistics across commands

`Experiment` models the statistics that inputs are normalized with: `_normalize_inputs` of `varloc.py`, `main.py` with `train`, `evaluate` and `run` as far as they
read and write `stats.yaml` and checkpoints, and `bundle.py`, for commands that overlap on several processes and may be killed between any two
steps (`Stop`).

| state | in the code |
| --- | --- |
| `dirs` | `data/outputs/<model_name>`: whether it exists, `stats.yaml`, the checkpoints, each with the directories and statistics of all trainings that made its weights (history) |
| `bundles` | `data/bundles/<model_name>`, file by file |
| `pc`, `cmd`, `used`, `model` | each process, its command, the statistics it normalizes with, its checkpoint |
| `results`, `raced` | history: what networks predicted with; directories for which two commands computed statistics at a time |
| `given`, `saves` | bounds |

A command is a record of what configs, environment and flags settle: `method`, `name` of its directory, the `layers` that it reads (independent of the name: path flags,
treatment areas), and whether `-cp` is given, the configs have a `stats_path`, pyretechnics simulates, and `USE_CLOUD_PATHS` is set. Statistics are a function of the
layers. How configs are merged is not modelled.

`Begin` is `main()` up to the dataset; `Start` gives the checkpoint, with `-cp` any one of any directory. `ConstructDataset` and `WriteStats` are `_normalize_inputs`: statistics
found are used, otherwise computed and, unless paths are cloud paths, written (the file is opened, which truncates it, and filled when it is closed; without the directory
that raises). `SaveCheckpoint` is an epoch with a possible eviction, `Infer` the network of evaluate and run, `Remake`, `MakeDir`, `PutFile` the steps of `bundle()`.

`StatsFitModel`: weights meet only the statistics that they were trained with, in evaluate, in run and in what `publish_model.sh` accepts as a bundle, although whichever
command comes first computes them of its own layers. It has four exceptions. The code makes each of them, and without any one of them TLC finds the property violated:

- weights that were trained elsewhere (`-cp`) meet the statistics of this directory;
- with cloud paths nobody writes the statistics that were computed (`varloc.py:163`), so each command has its own;
- a `stats_path` in the configs is overridden by training (`train.py:140`) and used by the other commands;
- two commands that compute the statistics of a directory at a time (`raced`): the later one overwrites what the other uses, and there is no lock.

Run `experiment`: two processes (symmetric), four commands out of fourteen in two directories with two sets of layers, two checkpoints. Four commands
are a training, something that dies in writing, a second training or bundle, and a reader. Deadlock is off: the number of commands is bounded.

`Experiment_proofs` proves, for any commands, layers, processes and kills, `ExperimentInvariant` (`IInv`) and `StatisticsFit` (`StatsFitModel`).
The property is not inductive: a directory without checkpoints says nothing of the statistics that its first one will meet. `IInv` adds, of a directory that is not `raced`,
that whoever computes its statistics is alone in doing so (`Exclusive`) and finds none or an empty file until it has written them, that whoever is past its dataset
uses what the directory has (`ProcOK` with `UsedFits`), hence that statistics once written stay (`StatsStay`, which each step's lemma shows first) and all that fitted
them still does: checkpoints (`ModelsFit`), files of bundles (`FilesFit`: as long as the bundle has weights of its own directory, `OwnIn`, or a command is about
to put some there, `OwnComes`, its statistics are that directory's) and results (`ResultsFit`). `Numbered` is there for `Latest`: without it the chosen checkpoint might be none of the directory. Assumed are bounds in Nat, and that
statistics are not a missing, an empty or the configured file (`StatisticsAssumption`, `FilesAssumption`).

## 10. Not modelled

What is under "To do" above, and for good: the merging of configs, flags and environment into names, layers and paths (`config.py`), the config that the runner hands to `run()`
(`artifacts.py`, `_run_config`), the networks, losses and metrics, geometry (GEOS, PROJ), HTTP and
argument parsing, the pyretechnics simulator, the PyroStack dataset (no command uses it), the memory monitor, `ignite_inference.sh`,
which calls `evaluate` in a loop. The `attempts` counter and the error text of a claim are left out: they are
shown to clients and no step depends on them. Winds are not followed into the network: `run` with the emulator takes the first role's
wind for both layers, pyretechnics each role's own. 

Liveness and whatever depends on ENABLED are out of the prover's reach and only model-checked. So is induction in the form of the library's
theorems, which have operators as parameters. Where a proof needs induction over numbers (the flood fill, the least loss of a
set of files) it takes the least counterexample instead: `LeastNat` follows from the library's theorem that inclusion orders finite sets well.
