---------------------------- MODULE TrainingData ----------------------------
(***************************************************************************)
(* Generation of the training data of one varloc and data version          *)
(* (ignite.py).  A run refuses an existing directory unless it may         *)
(* overwrite it, removes it, writes the clipped inputs and the ignition    *)
(* locations, and simulates each treatment with ray tasks, whose results   *)
(* it takes in batches in whatever order they come.  The outputs table of  *)
(* a treatment is written when all its tasks are done; the one of          *)
(* "legalmax" is what submit_ignitions_all.sh, trainable_varlocs.sh and    *)
(* the Makefile take for complete data.                                    *)
(*                                                                         *)
(* A run may die at any step: killed, or by an exception (a missing source *)
(* raster found late, a failed task).  Its tasks die with it.              *)
(***************************************************************************)
EXTENDS Naturals, FiniteSets, SequencesExt

CONSTANTS NumIgnitions, \* num_ignitions
          Durations,  \* max_durations
          Batch,      \* tasks collected at a time (100)
          MaxRuns     \* bound: runs in one behaviour

ASSUME TrainingDataAssumption ==
    /\ NumIgnitions \in Nat \ {0}
    /\ IsFiniteSet(Durations) /\ Durations # {} /\ Durations \subseteq Nat
    /\ Batch \in Nat \ {0}
    /\ MaxRuns \in Nat

VARIABLES pc,        \* what the run does next; "idle" when there is no run
          run,       \* number of the current or last run
          collate,   \* its collate_ignitions
          exists,    \* training_data_dir.exists()
          files,     \* the files in it, with the run that wrote them (history)
          treatment, \* index of the treatment being simulated
          pending,   \* tasks not yet collected
          ready,     \* pending tasks that have ended
          rows,      \* the results collected, each named by its task
          tables,    \* the rows of each outputs_table.csv
          torn       \* history: a run died while it removed the directory

vars == <<pc, run, collate, exists, files, treatment, pending, ready, rows,
          tables, torn>>
taskVars == <<treatment, pending, ready, rows>>

\* Mutant: the treatment of the marker is simulated first.
MarkerFirst == <<"legalmax", "baseline">>

Treatments == <<"baseline", "legalmax">>
Ignitions == 0 .. NumIgnitions - 1
Tasks == Ignitions \X Durations

\* What is written before the first simulation, in this order.
Inputs == <<<<"fuels", "baseline">>, <<"fuels", "legalmax">>, <<"topo">>,
            <<"locations">>>>

Fire(t, i) == <<"fire", t, i>>
Table(t) == <<"table", t>>
Cbp(t) == <<"cbp", t>>

Written == {f.path : f \in files}
Write(path) == files' = {f \in files : f.path # path}
                        \cup {[path |-> path, run |-> run]}

Init ==
    /\ pc = "idle" /\ run = 0 /\ collate = FALSE
    /\ exists = FALSE /\ files = {}
    /\ treatment = 1 /\ pending = {} /\ ready = {} /\ rows = <<>>
    /\ tables = [t \in Range(Treatments) |-> <<>>]
    /\ torn = FALSE

\* Mutant: an existing directory is written into.
BeginInPlace(overwrite, collated) ==
    /\ pc = "idle" /\ run < MaxRuns
    /\ run' = run + 1 /\ collate' = collated
    /\ pc' = IF exists /\ overwrite THEN "remove" ELSE "inputs"
    /\ treatment' = 1 /\ pending' = {} /\ ready' = {} /\ rows' = <<>>
    /\ UNCHANGED <<exists, files, tables, torn>>

\* All checks passed; the other outcomes leave everything as it was.
Begin(overwrite, collated) ==
    /\ pc = "idle" /\ run < MaxRuns
    /\ exists => overwrite
    /\ run' = run + 1 /\ collate' = collated
    /\ pc' = IF exists THEN "remove" ELSE "inputs"
    /\ treatment' = 1 /\ pending' = {} /\ ready' = {} /\ rows' = <<>>
    /\ UNCHANGED <<exists, files, tables, torn>>

\* shutil.rmtree: file after file, in the order of the file system.
RemoveData ==
    /\ pc = "remove"
    /\ \/ /\ \E f \in files : files' = files \ {f}
          /\ UNCHANGED <<pc, exists, torn>>
       \/ /\ files = {}
          /\ exists' = FALSE
          /\ torn' = FALSE
          /\ pc' = "inputs"
          /\ UNCHANGED files
    /\ UNCHANGED <<run, collate, taskVars, tables>>

WriteInput ==
    /\ pc = "inputs"
    /\ \E k \in DOMAIN Inputs :
         /\ Inputs[k] \notin Written
         /\ \A j \in 1 .. k - 1 : Inputs[j] \in Written
         /\ Write(Inputs[k])
         /\ pc' = IF k = Len(Inputs) THEN "submit" ELSE "inputs"
    /\ exists' = TRUE
    /\ UNCHANGED <<run, collate, taskVars, tables, torn>>

SubmitTasks ==
    /\ pc = "submit"
    /\ pending' = Tasks
    /\ ready' = {}
    /\ rows' = <<>>
    /\ pc' = "wait"
    /\ UNCHANGED <<run, collate, exists, files, treatment, tables, torn>>

\* run_ignition_ray: one raster for each ignition, whatever the duration.
EndTask(task) ==
    /\ pc = "wait"
    /\ task \in pending \ ready
    /\ ready' = ready \cup {task}
    /\ IF collate THEN UNCHANGED files
       ELSE Write(Fire(Treatments[treatment], task[1]))
    /\ UNCHANGED <<pc, run, collate, exists, treatment, pending, rows, tables, torn>>

BatchSize(n) == IF n < Batch THEN n ELSE Batch

\* ray.wait and ray.get of what it returned.
Collect ==
    /\ pc = "wait"
    /\ \E done \in SUBSET ready :
         /\ Cardinality(done) = BatchSize(Cardinality(pending))
         /\ pending' = pending \ done
         /\ ready' = ready \ done
         /\ \E results \in SetToSeqs(done) : rows' = rows \o results
         /\ pc' = IF pending' = {} THEN "table" ELSE "wait"
    /\ UNCHANGED <<run, collate, exists, files, treatment, tables, torn>>

\* Mutant: one treatment more than there are.
OneTreatmentMore ==
    IF treatment <= Len(Treatments)
    THEN pc' = "submit" /\ treatment' = treatment + 1
    ELSE pc' = "idle" /\ UNCHANGED treatment

NextTreatment ==
    IF treatment < Len(Treatments)
    THEN pc' = "submit" /\ treatment' = treatment + 1
    ELSE pc' = "idle" /\ UNCHANGED treatment

\* Mutant: the rows stay in the order in which the results came.
AsCollected(results) == results

\* sort_values by ignition number and duration, of rows that are all different.
Before(a, b) == a[1] < b[1] \/ (a[1] = b[1] /\ a[2] < b[2])

SortedRows(results) ==
    CHOOSE sorted \in [DOMAIN results -> Range(results)] :
        /\ Range(sorted) = Range(results)
        /\ \A j, k \in DOMAIN sorted : j < k => Before(sorted[j], sorted[k])

WriteTable ==
    /\ pc = "table"
    /\ Write(Table(Treatments[treatment]))
    /\ tables' = [tables EXCEPT ![Treatments[treatment]] = SortedRows(rows)]
    /\ IF collate THEN pc' = "cbp" /\ UNCHANGED treatment ELSE NextTreatment
    /\ UNCHANGED <<run, collate, exists, pending, ready, rows, torn>>

\* The mean of what burned, one task one vote.
WriteCbp ==
    /\ pc = "cbp"
    /\ Write(Cbp(Treatments[treatment]))
    /\ NextTreatment
    /\ UNCHANGED <<run, collate, exists, pending, ready, rows, tables, torn>>

Die ==
    /\ pc # "idle"
    /\ pc' = "idle"
    /\ torn' = (torn \/ pc = "remove")
    /\ UNCHANGED <<run, collate, exists, files, taskVars, tables>>

Step ==
    \/ RemoveData \/ WriteInput \/ SubmitTasks \/ Collect
    \/ WriteTable \/ WriteCbp
    \/ \E task \in Tasks : EndTask(task)

Next ==
    \/ \E overwrite, collated \in BOOLEAN : Begin(overwrite, collated)
    \/ Step
    \/ Die

Spec == Init /\ [][Next]_vars

-----------------------------------------------------------------------------
\* Properties

TypeOK ==
    /\ pc \in {"idle", "remove", "inputs", "submit", "wait", "table", "cbp"}
    /\ run \in 0 .. MaxRuns /\ collate \in BOOLEAN
    /\ exists \in BOOLEAN
    /\ \A f \in files : f.run \in 1 .. MaxRuns
    /\ files # {} => exists
    /\ treatment \in DOMAIN Treatments
    /\ ready \subseteq pending /\ pending \subseteq Tasks
    /\ rows \in Seq(Tasks)
    /\ tables \in [Range(Treatments) -> Seq(Tasks)]
    /\ torn \in BOOLEAN

\* Fires of one run are never found beside inputs of another, whatever runs
\* died before and with or without overwrite.
SingleRun == \A f, g \in files : f.run = g.run

\* What complete data has, the collated raster of legalmax apart.
CompleteFiles ==
    {Inputs[k] : k \in DOMAIN Inputs}
    \cup {Table(Treatments[k]) : k \in DOMAIN Treatments}
    \cup (IF collate THEN {Cbp("baseline")}
          ELSE {Fire(Treatments[k], i) : k \in DOMAIN Treatments, i \in Ignitions})

(***************************************************************************)
(* README: complete once legalmax/outputs_table.csv exists.  It does, with *)
(* every file of the same run in place, unless a run died in the removal   *)
(* of complete data: rmtree may take the table last.                       *)
(***************************************************************************)
MarkerMeansComplete ==
    Table("legalmax") \in Written /\ ~torn /\ pc # "remove"
        => CompleteFiles \subseteq Written

(***************************************************************************)
(* VarLoc takes the wind of an ignition from the table's row of the same   *)
(* position.  It finds it there, although the results came in any order,   *)
(* as long as there is one duration, the default.                          *)
(***************************************************************************)
WindsByPosition ==
    Cardinality(Durations) = 1 =>
        \A t \in Range(Treatments) : Table(t) \in Written =>
            \A i \in Ignitions : tables[t][i + 1][1] = i

=============================================================================
