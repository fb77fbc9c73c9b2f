------------------------------ MODULE Inference ------------------------------
(***************************************************************************)
(* The commands that read a dataset: run (run.py) and evaluate             *)
(* (evaluate.py), each with the emulator or with pyretechnics (pt.py), and *)
(* the loop of training as far as it serves items (cmd "train").           *)
(*                                                                         *)
(* The emulator works batch after batch in one thread; evaluate hands the  *)
(* rasters to a pool of writers and holds back when too many wait.  With   *)
(* pyretechnics every ignition is a task of a process pool whose results   *)
(* come in any order; the pool puts tasks that its processes will take     *)
(* next into a queue, from which they can no longer be cancelled.  run()   *)
(* may be cancelled by its caller at any time and looks at the event       *)
(* between batches or results.  A task may fail.                           *)
(* What the network or the simulation returns is any of ds.fires.          *)
(***************************************************************************)
EXTENDS Dataset

CONSTANTS Datasets,  \* the commands with their datasets, one of which is run
          NoOutput

\* Only what burned can crown.
ASSUME InferenceAssumption ==
    /\ MaxResample \in Nat
    /\ \A d \in Datasets :
         /\ Accepted(d)
         /\ \A fire \in d.fires : fire.crowned \subseteq fire.burned /\ fire.burned \subseteq Int \X Int

VARIABLES pc,       \* what the command does next
          position, \* batches loaded in this pass
          sim,      \* passes of evaluate that are done
          task,     \* status of each task of the pool
          pending,  \* evaluate: writes not yet drained, oldest first
          writes,   \* evaluate: the rasters of each write task
          fires,    \* what was predicted or simulated, sample -> role -> fire
          agg,      \* run: fires that have each class of change at each cell
          kept,     \* run: the samples summed
          cancel,   \* run: the caller's event
          output,   \* run: the raster at out_path
          files,    \* evaluate: sample -> burned cells of its raster
          row       \* evaluate: the row of throughput.csv is there

loopVars == <<position, sim, fires, agg, kept>>
poolVars == <<task, pending, writes>>
vars == <<dataVars, pc, loopVars, poolVars, cancel, output, files, row>>

Pooled == ds.cmd \in {"run_pt", "evaluate_pt"}
Ended == pc \in {"done", "failed", "cancelled"}
NoFiles == [k \in {} |-> {}]

\* The entries of g, and those of f for which g has none.
Updated(f, g) ==
    [k \in DOMAIN f \cup DOMAIN g |-> IF k \in DOMAIN g THEN g[k] ELSE f[k]]

Samples == DOMAIN ignitions
Batches == (Length + ds.batch - 1) \div ds.batch
Running == {t \in DOMAIN task : task[t] = "running"}
Queued == {t \in DOMAIN task : task[t] = "queued"}
Waiting == {t \in DOMAIN task : task[t] = "pending"}

Init ==
    /\ ds \in Datasets
    /\ DataInit
    /\ pc = "construct"
    /\ position = 0 /\ sim = 0
    /\ task = <<>> /\ pending = <<>> /\ writes = <<>>
    /\ fires = NoFiles
    /\ agg = NoFires(ds) /\ kept = {}
    /\ cancel = FALSE
    /\ output = NoOutput /\ files = NoFiles /\ row = FALSE

\* The dataset is constructed; pyretechnics submits a task for each ignition.
BeginLoop ==
    /\ Construct
    /\ IF Pooled
       THEN task' = [k \in DOMAIN ignitions' |-> "pending"] /\ pc' = "collect"
       ELSE pc' = "load" /\ UNCHANGED task

ConstructDataset ==
    /\ pc = "construct"
    /\ \/ ReadIgnitions /\ BeginLoop
       \/ \E points \in ds.draws :
            /\ DrawPoints(points)
            /\ IF EnoughDrawn THEN BeginLoop
               ELSE UNCHANGED <<pc, task, ds, fuels, burns, items>>
    /\ UNCHANGED <<loopVars, pending, writes, cancel, output, files, row>>

\* The caller sets the event that it passed.
SetCancel ==
    /\ ds.cancels /\ ~cancel /\ ~Ended
    /\ cancel' = TRUE
    /\ UNCHANGED <<dataVars, pc, loopVars, poolVars, output, files, row>>

-----------------------------------------------------------------------------
\* The emulator

\* Training with shuffled items.
TrainItem ==
    /\ ds.cmd = "train" /\ pc = "load"
    /\ \E idx \in 0 .. Length - 1 : ServeBatch(<<idx>>)
    /\ UNCHANGED <<pc, loopVars, poolVars, cancel, output, files, row>>

BatchIndexes ==
    [k \in 1 .. AtMost(ds.batch, Length - position * ds.batch) |->
       position * ds.batch + k - 1]

LoadBatch ==
    /\ ds.cmd \in {"run_dl", "evaluate"} /\ pc = "load"
    /\ position < Batches
    /\ ServeBatch(BatchIndexes)
    /\ position' = position + 1
    /\ pc' = "forward"
    /\ UNCHANGED <<sim, fires, agg, kept, poolVars, cancel, output, files, row>>

Masked(fire, item) == [burned |-> fire.burned \cap item.mask,
                       crowned |-> fire.crowned \cap item.mask]

Component(fire) == CentreComponent(fire.burned, ds.ws)

\* What the forward pass returns for the items of the batch: a fire for each
\* layer of x.
Predicted(choice) ==
    [k \in {items[j].sample : j \in DOMAIN items} |->
       LET item == CHOOSE item \in Range(items) : item.sample = k
       IN  [r \in DOMAIN item.x |-> Masked(choice[k][r], item)]]

Outcomes == [{items[j].sample : j \in DOMAIN items} -> [DOMAIN items[1].x -> ds.fires]]

\* The layers are told apart by their order, which is that of fuels_paths.
First == ds.roles[1]
Second == ds.roles[2]

\* Fires whose burn, in either layer, reaches the treatment area are kept.
KeptOf(pred) ==
    {k \in DOMAIN pred :
       FireTouches(Component(pred[k][First]) \cup Component(pred[k][Second]),
                   ds.area, ignitions[k], ds)}

\* The event is looked at when the batch is there.
ForwardRun ==
    /\ ds.cmd = "run_dl" /\ pc = "forward"
    /\ IF cancel
       THEN pc' = "cancelled" /\ UNCHANGED <<fires, agg, kept>>
       ELSE \E choice \in Outcomes :
              LET pred == Predicted(choice)
                  sel == KeptOf(pred)
              IN  /\ fires' = Updated(fires, pred)
                  /\ kept' = kept \cup sel
                  /\ agg' = AddEmulated(agg, [k \in sel |-> pred[k][First]],
                                        [k \in sel |-> pred[k][Second]], ignitions, ds)
                  /\ pc' = "load"
    /\ UNCHANGED <<dataVars, position, sim, poolVars, cancel, output, files, row>>

WriteRun ==
    /\ ds.cmd = "run_dl" /\ pc = "load"
    /\ position = Batches
    /\ output' = agg
    /\ pc' = "done"
    /\ UNCHANGED <<dataVars, loopVars, poolVars, cancel, files, row>>

-----------------------------------------------------------------------------
\* The writers of evaluate

ForwardEvaluate ==
    /\ ds.cmd = "evaluate" /\ pc = "forward"
    /\ \E choice \in Outcomes : fires' = Updated(fires, Predicted(choice))
    /\ pc' = "drain"
    /\ UNCHANGED <<dataVars, position, sim, agg, kept, poolVars, cancel, output,
                   files, row>>

\* Mutant: the list may be as long as the pool is wide before it is drained.
DrainLate(limit) == Len(pending) > limit

\* _drain goes on while this holds.
MustDrain(limit) == Len(pending) >= limit

\* Waits for the oldest write; its exception leaves the loop.
DrainOldest(limit) ==
    /\ MustDrain(limit)
    /\ task[Head(pending)] \in {"done", "failed"}
    /\ pending' = Tail(pending)
    /\ pc' = IF task[Head(pending)] = "failed" THEN "leave_failed" ELSE pc
    /\ UNCHANGED <<dataVars, loopVars, task, writes, cancel, output, files, row>>

Drain ==
    \/ pc = "drain" /\ DrainOldest(ds.workers)
    \/ pc = "drain_all" /\ DrainOldest(1)

\* The burn that a sample's raster shows: its component, stamped.
Canvas(item) ==
    StampedCells(Component(fires[item.sample][item.role]), item.at, ds)

SubmitWrite ==
    /\ pc = "drain" /\ ~MustDrain(ds.workers)
    /\ task' = Append(task, "pending")
    /\ writes' = Append(writes,
         [j \in DOMAIN items |->
            [sample |-> items[j].sample, cells |-> Canvas(items[j])]])
    /\ pending' = Append(pending, Len(task) + 1)
    /\ pc' = "load"
    /\ UNCHANGED <<dataVars, loopVars, cancel, output, files, row>>

\* Mutant: the writes left are not waited for one by one.
ForgetLast ==
    /\ ds.cmd = "evaluate" /\ pc = "load" /\ position = Batches
    /\ IF sim + 1 < ds.sims
       THEN sim' = sim + 1 /\ position' = 0 /\ UNCHANGED <<pc, pending>>
       ELSE pc' = "drain_all" /\ pending' = <<>> /\ UNCHANGED <<sim, position>>
    /\ UNCHANGED <<dataVars, fires, agg, kept, task, writes, cancel, output, files, row>>

EndPass ==
    /\ ds.cmd = "evaluate" /\ pc = "load" /\ position = Batches
    /\ IF sim + 1 < ds.sims
       THEN sim' = sim + 1 /\ position' = 0 /\ UNCHANGED <<pc, pending>>
       ELSE pc' = "drain_all" /\ UNCHANGED <<sim, position, pending>>
    /\ UNCHANGED <<dataVars, fires, agg, kept, task, writes, cancel, output, files, row>>

LastDrained ==
    /\ pc = "drain_all" /\ ~MustDrain(1)
    /\ pc' = "leave"
    /\ UNCHANGED <<dataVars, loopVars, poolVars, cancel, output, files, row>>

-----------------------------------------------------------------------------
\* The pool: threads for evaluate, processes for pyretechnics

FirstOf(t, tasks) == t \in tasks /\ \A u \in tasks : t <= u

\* The call queue of a process pool holds one task more than it has workers.
\* A task there is as little to be cancelled as one that runs.
QueueTask(t) ==
    /\ Pooled /\ FirstOf(t, Waiting)
    /\ Cardinality(Queued) <= ds.workers
    /\ task' = [task EXCEPT ![t] = "queued"]
    /\ UNCHANGED <<dataVars, pc, loopVars, pending, writes, cancel, output, files, row>>

\* A worker that is free takes the next task.
StartTask(t) ==
    /\ FirstOf(t, IF Pooled THEN Queued ELSE Waiting)
    /\ Cardinality(Running) < ds.workers
    /\ task' = [task EXCEPT ![t] = "running"]
    /\ UNCHANGED <<dataVars, pc, loopVars, pending, writes, cancel, output, files, row>>

\* Mutant: ignitions are numbered from one.
RastersFromOne(t, n) ==
    files' = Updated(files,
      [k \in {writes[t][j].sample + 1 : j \in 1 .. n} |->
         (CHOOSE w \in Range(writes[t]) : w.sample = k - 1).cells])

\* _write_batch, ended or broken off after n rasters.
WriteRasters(t, n) ==
    files' = Updated(files,
      [k \in {writes[t][j].sample : j \in 1 .. n} |->
         (CHOOSE w \in Range(writes[t]) : w.sample = k).cells])

EndWrite(t) ==
    /\ ds.cmd = "evaluate" /\ t \in Running
    /\ \/ task' = [task EXCEPT ![t] = "done"] /\ WriteRasters(t, Len(writes[t]))
       \/ /\ ds.fails
          /\ task' = [task EXCEPT ![t] = "failed"]
          /\ \E n \in 0 .. Len(writes[t]) - 1 : WriteRasters(t, n)
    /\ UNCHANGED <<dataVars, pc, loopVars, pending, writes, cancel, output, row>>

\* change_task and fire_type_task: a simulation of each role, or of the first
\* alone, whose raster is written.
EndSimulation(t) ==
    /\ Pooled /\ t \in Running
    /\ \/ \E result \in [IF ds.cmd = "run_pt" THEN Roles ELSE {RoleOf(0)} -> ds.fires] :
            /\ task' = [task EXCEPT ![t] = "done"]
            /\ fires' = Updated(fires, [k \in {t} |-> result])
            /\ files' = IF ds.cmd = "run_pt" THEN files
                        ELSE Updated(files, [k \in {t} |-> result[RoleOf(0)].burned])
       \/ /\ ds.fails
          /\ task' = [task EXCEPT ![t] = "failed"]
          /\ UNCHANGED <<fires, files>>
    /\ UNCHANGED <<dataVars, pc, position, sim, agg, kept, pending, writes, cancel,
                   output, row>>

-----------------------------------------------------------------------------
\* The loop over as_completed

\* Mutant: the exception is raised and the tasks are left alone.
CancelNone == task

CancelWaiting == [t \in DOMAIN task |-> IF t \in Waiting THEN "cancelled" ELSE task[t]]

Touched(result) == (result["baseline"].burned \cup result["treatment"].burned) \cap ds.area # {}

\* A result is taken, in any order; the loop may raise what the task raised,
\* or, for run, find the event set.
Collect(t) ==
    /\ pc = "collect" /\ task[t] \in {"done", "failed"}
    /\ IF task[t] = "failed"
       THEN pc' = "leave_failed" /\ UNCHANGED <<task, agg, kept>>
       ELSE IF ds.cmd = "run_pt" /\ cancel
       THEN pc' = "leave_cancelled" /\ task' = CancelWaiting /\ UNCHANGED <<agg, kept>>
       ELSE /\ task' = [task EXCEPT ![t] = "taken"]
            /\ IF ds.cmd = "run_pt" /\ Touched(fires[t])
               THEN /\ agg' = AddSimulated(agg, fires[t]["baseline"], fires[t]["treatment"])
                    /\ kept' = kept \cup {t}
               ELSE UNCHANGED <<agg, kept>>
            /\ UNCHANGED pc
    /\ UNCHANGED <<dataVars, position, sim, fires, pending, writes, cancel, output,
                   files, row>>

AllTaken ==
    /\ pc = "collect" /\ \A t \in DOMAIN task : task[t] = "taken"
    /\ pc' = "leave"
    /\ UNCHANGED <<dataVars, loopVars, poolVars, cancel, output, files, row>>

\* Mutant: the exit of the pool waits for a result of every task.
AllDone == \A t \in DOMAIN task : task[t] \in {"done", "failed", "taken"}

\* The exit of the pool waits for what is running and for what still waits.
PoolIdle == Running = {} /\ Queued = {} /\ Waiting = {}

\* Behind the pool: the raster of run, the row of evaluate, or the exception.
Leave ==
    /\ pc \in {"leave", "leave_failed", "leave_cancelled"} /\ PoolIdle
    /\ pc' = CASE pc = "leave" -> "done"
               [] pc = "leave_failed" -> "failed"
               [] pc = "leave_cancelled" -> "cancelled"
    /\ output' = IF pc = "leave" /\ ds.cmd = "run_pt"
                 THEN CloseSimulated(agg, Cardinality(kept)) ELSE output
    /\ row' = (row \/ (pc = "leave" /\ ds.cmd # "run_pt"))
    /\ UNCHANGED <<dataVars, loopVars, poolVars, cancel, files>>

Command ==
    \/ ConstructDataset \/ TrainItem
    \/ LoadBatch \/ ForwardRun \/ WriteRun
    \/ ForwardEvaluate \/ Drain \/ SubmitWrite \/ EndPass \/ LastDrained
    \/ AllTaken \/ Leave
    \/ \E t \in DOMAIN task : Collect(t)

Pool ==
    \E t \in DOMAIN task :
        QueueTask(t) \/ StartTask(t) \/ EndWrite(t) \/ EndSimulation(t)

Next == Command \/ Pool \/ SetCancel

Spec == Init /\ [][Next]_vars

\* The command's thread and the pool's are scheduled; every task ends.
FairSpec == Spec /\ WF_vars(Command) /\ WF_vars(Pool)

-----------------------------------------------------------------------------
\* Properties

TypeOK ==
    /\ pc \in {"construct", "load", "forward", "drain", "drain_all", "collect", "leave",
               "leave_failed", "leave_cancelled", "done", "failed", "cancelled"}
    /\ position \in 0 .. Batches
    /\ task \in Seq({"pending", "queued", "running", "done", "failed", "taken",
                     "cancelled"})
    /\ Range(pending) \subseteq DOMAIN task
    /\ kept \subseteq DOMAIN fires /\ DOMAIN fires \subseteq Samples
    /\ DOMAIN files \subseteq DOMAIN fires
    /\ \A c \in Cells : agg.to[c] + agg.from[c] <= Cardinality(kept)

(***************************************************************************)
(* What the centre reaches: the smallest part of the burn that holds its   *)
(* pixels in the middle and with each pixel those it touches.              *)
(***************************************************************************)
ReachedFromCentre(burned) ==
    CHOOSE part \in SUBSET burned :
        /\ Centre(ds.ws) \cap burned \subseteq part
        /\ \A p \in part : \A q \in burned : Touching(p, q) => q \in part
        /\ \A smaller \in SUBSET part :
             /\ Centre(ds.ws) \cap burned \subseteq smaller
             /\ \A p \in smaller : \A q \in burned : Touching(p, q) => q \in smaller
             => smaller = part

\* The cells of the pixels of sample k, counted from its ignition; the pixels
\* of a simulation are cells.
OnRaster(pixels, k) ==
    IF Pooled THEN pixels
    ELSE {CellFrom([at |-> ignitions[k]], p) : p \in pixels}

CentralPart(fire) == IF Pooled THEN fire.burned ELSE ReachedFromCentre(fire.burned)

CentralBurn(fire, k) == OnRaster(CentralPart(fire), k)

\* The ignitions whose central burn under either role reaches the area.
Reaching ==
    {k \in Samples : (CentralBurn(fires[k]["baseline"], k)
                        \cup CentralBurn(fires[k]["treatment"], k)) \cap ds.area # {}}

Total(c) == output.none[c] + output.to[c] + output.from[c]

(***************************************************************************)
(* run writes what it promises, with either backend, however the fires     *)
(* were batched or in which order they came: each ignition counts once, if *)
(* its central burn under either role reaches the treatment area, at every *)
(* cell in exactly one class; and the class is that of the crown fires in  *)
(* its central burns, wherever no ignition that counts has another one:    *)
(* run.py:248-256 counts a crown fire that the centre is not connected to  *)
(* as well, unlike its comment and README.md:74 of the model.              *)
(***************************************************************************)
OutputCounts ==
    output # NoOutput =>
        LET crown(k, r) == fires[k][r].crowned \cap CentralPart(fires[k][r])
            stray(k, r) == fires[k][r].crowned \ CentralPart(fires[k][r])
            changing(c, from, to) ==
                {k \in Reaching : c \in OnRaster(crown(k, to) \ crown(k, from), k)}
        IN  \A c \in Cells :
              /\ Total(c) = Cardinality(Reaching)
              /\ (\A k \in Reaching, r \in Roles : c \notin OnRaster(stray(k, r), k)) =>
                   /\ output.to[c] = Cardinality(changing(c, "baseline", "treatment"))
                   /\ output.from[c] = Cardinality(changing(c, "treatment", "baseline"))

(***************************************************************************)
(* The row of throughput.csv stands for a complete evaluation: the raster  *)
(* of every ignition is there and shows the central burn of its fire, even *)
(* if writes were still on their way, or had failed, when the last batch   *)
(* was predicted.                                                          *)
(***************************************************************************)
RowMeansWritten ==
    row => \A k \in Samples :
             /\ k \in DOMAIN files
             /\ files[k] = CentralBurn(fires[k][RoleOf(0)], k)

(***************************************************************************)
(* Two writers never have the same raster open.  A second pass over the    *)
(* dataset writes the rasters of the first again: there must be as many    *)
(* batches as workers.                                                     *)
(***************************************************************************)
OneWriter ==
    ds.cmd = "evaluate" /\ Batches >= ds.workers =>
        \A t, u \in Running \cup Waiting :
            (\E j \in DOMAIN writes[t], m \in DOMAIN writes[u] :
                writes[t][j].sample = writes[u][m].sample) => t = u

(***************************************************************************)
(* What a cancelled run still simulates.  The tasks in the call queue and  *)
(* those that run go on, twice as many as there are workers and one; no    *)
(* other task gets to a worker any more, however many wait when the event  *)
(* is seen and whatever the pool has taken from them meanwhile.            *)
(***************************************************************************)
CancelBounds ==
    [][pc = "leave_cancelled" =>
         /\ Queued' \cup Running' \subseteq Queued \cup Running
         /\ Cardinality(Queued \cup Running) <= 2 * ds.workers + 1]_vars

\* run and evaluate end, cancelled or not and whatever fails: nobody waits for
\* a task that nobody runs.
CommandEnds == ds.cmd # "train" => <>Ended

=============================================================================
