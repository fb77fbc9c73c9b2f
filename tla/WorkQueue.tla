------------------------------ MODULE WorkQueue ------------------------------
(***************************************************************************)
(* The work queue of the slurm workers (slurm/queue.sh, queue_mark.sh): a  *)
(* file with one line per varloc that every worker rewrites in place under *)
(* a lock made by mkdir.  A line is named by its number.  Workers are      *)
(* slurm jobs; marks are calls of queue_mark.sh.  The work that the writer *)
(* of a file does in one write is one step; where two processes are in the *)
(* section, after a lock was broken, their writes may mix further.         *)
(***************************************************************************)
EXTENDS Naturals, FiniteSets

CONSTANTS
  Workers, Marks,
  Mortal,        \* the processes that may be cancelled or lose their node
  MarkEdits,     \* what the marks do: "skip", "pending"
  NoJob,         \* the job of a line that names none
  NoFile,        \* the contents of a file that does not exist
  Lines,         \* the line numbers
  Patience,      \* failed mkdirs after which a waiter breaks the lock
  SectionPolls   \* failed mkdirs of one waiter that a live holder can cause

Procs == Workers \cup Marks

ASSUME ProcsAssumption ==
  /\ Workers \cap Marks = {} /\ NoJob \notin Workers
  /\ Mortal \subseteq Procs /\ MarkEdits \subseteq {"skip", "pending"}
  /\ IsFiniteSet(Procs)
ASSUME LinesAssumption == Lines \subseteq Nat \ {0} /\ Lines # {} /\ IsFiniteSet(Lines)
ASSUME PatienceAssumption == Patience \in Nat \ {0} /\ SectionPolls \in Nat

VARIABLES
  lockdir,   \* whether $QUEUE.lockdir exists
  queue,     \* the queue file
  tmp,       \* $QUEUE.tmp, NoFile if it does not exist
  pc,        \* where a process is
  edit,      \* what it is to do to a line: "claim", "ok", "failed", "skip", "pending"
  line,      \* that line; 0 before a claim found one
  waited,    \* the counter of queue_lock
  polls,     \* failed mkdirs of a waiter during the present holding
  overrun    \* history: the lock of a live holder has been broken

files == <<queue, tmp>>
lockVars == <<lockdir, waited, polls, overrun>>
vars == <<lockVars, files, pc, edit, line>>

Statuses == {"pending", "running", "ok", "failed", "skip"}
Entries  == [status : Statuses, job : Workers \cup {NoJob}]
Whole    == [Lines -> Entries]
Emptied  == [l \in {} |-> 0]   \* a file without lines

ASSUME NoFileAssumption == NoFile \notin Whole \cup {Emptied}

Section == {"picking", "drafting", "truncating", "copying", "removing", "unlocking"}
Ended   == {"done", "notfound", "dead", "fallen"}   \* fallen: dead in the section
Pcs     == {"marking", "locking", "refused", "working"} \cup Section \cup Ended

TypeOK ==
  /\ lockdir \in BOOLEAN
  /\ queue \in Whole \cup {Emptied}
  /\ tmp \in Whole \cup {Emptied, NoFile}
  /\ pc \in [Procs -> Pcs]
  /\ edit \in [Procs -> {"claim", "ok", "failed", "skip", "pending"}]
  /\ line \in [Procs -> Lines \cup {0}]
  /\ waited \in [Procs -> 0..Patience]
  /\ polls \in [Procs -> 0..SectionPolls]
  /\ overrun \in BOOLEAN

(* submit_*_all.sh has written the queue before it submits the workers *)
Init ==
  /\ lockdir = FALSE
  /\ queue = [l \in Lines |-> [status |-> "pending", job |-> NoJob]]
  /\ tmp = NoFile
  /\ pc = [p \in Procs |-> IF p \in Workers THEN "locking" ELSE "marking"]
  /\ edit = [p \in Procs |-> "claim"]
  /\ line = [p \in Procs |-> 0]
  /\ waited = [p \in Procs |-> 0]
  /\ polls = [p \in Procs |-> 0]
  /\ overrun = FALSE

Goto(p, l) == pc' = [pc EXCEPT ![p] = l]

-----------------------------------------------------------------------------
(* queue_lock                                                              *)

Inside == {p \in Procs : pc[p] \in Section}

(* mutant: mkdir -p, which does not mind that the directory exists *)
AcquireAnyway(p) ==
  /\ pc[p] = "locking"
  /\ lockdir' = TRUE
  /\ waited' = [waited EXCEPT ![p] = 0]
  /\ polls' = [q \in Procs |-> 0]
  /\ Goto(p, IF edit[p] = "claim" THEN "picking" ELSE "drafting")
  /\ UNCHANGED <<overrun, files, edit, line>>

Acquire(p) ==
  /\ pc[p] = "locking" /\ ~lockdir
  /\ lockdir' = TRUE
  /\ waited' = [waited EXCEPT ![p] = 0]
  /\ polls' = [q \in Procs |-> 0]
  /\ Goto(p, IF edit[p] = "claim" THEN "picking" ELSE "drafting")
  /\ UNCHANGED <<overrun, files, edit, line>>

(* mkdir fails; a live holder is done before the waiter has polled more    *)
(* than SectionPolls times                                                 *)
Refused(p) ==
  /\ pc[p] = "locking" /\ lockdir
  /\ \/ Inside # {} /\ polls[p] < SectionPolls /\ polls' = [polls EXCEPT ![p] = @ + 1]
     \/ Inside = {} /\ UNCHANGED polls
  /\ Goto(p, "refused")
  /\ UNCHANGED <<lockdir, waited, overrun, files, edit, line>>

Sleep(p) ==
  /\ pc[p] = "refused" /\ waited[p] < Patience
  /\ waited' = [waited EXCEPT ![p] = @ + 1]
  /\ Goto(p, "locking")
  /\ UNCHANGED <<lockdir, polls, overrun, files, edit, line>>

(* mutant: a lock is never broken *)
KeepLock(p) ==
  /\ pc[p] = "refused" /\ waited[p] >= Patience
  /\ Goto(p, "locking")
  /\ UNCHANGED <<lockVars, files, edit, line>>

(* mutant: breaks the lock at the first refusal *)
BreakEarly(p) ==
  /\ pc[p] = "refused"
  /\ lockdir' = FALSE
  /\ overrun' = (overrun \/ Inside # {})
  /\ waited' = [waited EXCEPT ![p] = 1]
  /\ Goto(p, "locking")
  /\ UNCHANGED <<polls, files, edit, line>>

(* rmdir || true, whoever has made the directory since p began to wait *)
BreakLock(p) ==
  /\ pc[p] = "refused" /\ waited[p] >= Patience
  /\ lockdir' = FALSE
  /\ overrun' = (overrun \/ Inside # {})
  /\ waited' = [waited EXCEPT ![p] = 1]
  /\ Goto(p, "locking")
  /\ UNCHANGED <<polls, files, edit, line>>

-----------------------------------------------------------------------------
(* queue_claim, queue_edit: read the queue, rewrite one line in it         *)

(* mutant: takes the first line that is not finished *)
FirstUnfinished(f) ==
  {l \in DOMAIN f : /\ f[l].status \in {"pending", "running"}
                    /\ \A k \in DOMAIN f : k < l => f[k].status \notin {"pending", "running"}}

(* the first pending line, if there is one *)
FirstPending(f) ==
  {l \in DOMAIN f : /\ f[l].status = "pending"
                    /\ \A k \in DOMAIN f : k < l => f[k].status # "pending"}

PickPending(p) ==
  /\ pc[p] = "picking"
  /\ \/ /\ FirstPending(queue) = {}
        /\ line' = [line EXCEPT ![p] = 0]
        /\ Goto(p, "unlocking")
     \/ /\ \E l \in FirstPending(queue) : line' = [line EXCEPT ![p] = l]
        /\ Goto(p, "drafting")
  /\ UNCHANGED <<lockVars, files, edit>>

(* mutant: "pending" requeues a running line too *)
RewrittenUnchecked(e, do, p) ==
  IF do = "claim"
    THEN IF e.status = "pending" THEN [status |-> "running", job |-> p] ELSE e
  ELSE IF do = "skip"
    THEN IF e.status = "pending" THEN [status |-> "skip", job |-> e.job] ELSE e
  ELSE IF do = "pending"
    THEN [status |-> "pending", job |-> NoJob]
  ELSE [status |-> do, job |-> e.job]

(* what the awk program of an edit does to the entry *)
Rewritten(e, do, p) ==
  IF do = "claim"
    THEN IF e.status = "pending" THEN [status |-> "running", job |-> p] ELSE e
  ELSE IF do = "skip"
    THEN IF e.status = "pending" THEN [status |-> "skip", job |-> e.job] ELSE e
  ELSE IF do = "pending"
    THEN IF e.status = "running" THEN e ELSE [status |-> "pending", job |-> NoJob]
  ELSE [status |-> do, job |-> e.job]

(* queue_write: awk's output goes to $QUEUE.tmp, which is copied over the  *)
(* truncated queue file and removed                                        *)
Draft(p) ==
  /\ pc[p] = "drafting"
  /\ tmp' = [l \in DOMAIN queue |->
               IF l = line[p] THEN Rewritten(queue[l], edit[p], p) ELSE queue[l]]
  /\ Goto(p, "truncating")
  /\ UNCHANGED <<lockVars, queue, edit, line>>

Truncate(p) ==
  /\ pc[p] = "truncating"
  /\ queue' = Emptied
  /\ Goto(p, "copying")
  /\ UNCHANGED <<lockVars, tmp, edit, line>>

(* without a draft, which another process removed, the edit fails; that    *)
(* ends queue_mark.sh (set -e), which leaves its lock                      *)
Copy(p) ==
  /\ pc[p] = "copying"
  /\ \/ tmp # NoFile /\ queue' = tmp /\ Goto(p, "removing")
     \/ tmp = NoFile /\ UNCHANGED queue /\ Goto(p, IF p \in Marks THEN "done" ELSE "unlocking")
  /\ UNCHANGED <<lockVars, tmp, edit, line>>

Remove(p) ==
  /\ pc[p] = "removing"
  /\ tmp' = NoFile
  /\ Goto(p, "unlocking")
  /\ UNCHANGED <<lockVars, queue, edit, line>>

(* rmdir; that the directory is gone already stops no worker *)
Unlock(p) ==
  /\ pc[p] = "unlocking"
  /\ lockdir' = FALSE
  /\ \/ /\ p \in Marks \/ line[p] = 0
        /\ Goto(p, "done")
        /\ UNCHANGED <<edit, line>>
     \/ /\ p \in Workers /\ edit[p] = "claim" /\ line[p] # 0
        /\ Goto(p, "working")
        /\ UNCHANGED <<edit, line>>
     \/ /\ p \in Workers /\ edit[p] # "claim"
        /\ Goto(p, "locking")
        /\ edit' = [edit EXCEPT ![p] = "claim"]
        /\ line' = [line EXCEPT ![p] = 0]
  /\ UNCHANGED <<waited, polls, overrun, files>>

-----------------------------------------------------------------------------
(* mutant: a failed job ends its worker, as set -e would *)
WorkStopsOnFailure(p) ==
  /\ pc[p] = "working"
  /\ \/ edit' = [edit EXCEPT ![p] = "ok"] /\ Goto(p, "locking")
     \/ edit' = [edit EXCEPT ![p] = "failed"] /\ Goto(p, "done")
  /\ UNCHANGED <<lockVars, files, line>>

(* queue_run: the worker's job for its varloc succeeds or fails            *)
Work(p) ==
  /\ pc[p] = "working"
  /\ \E result \in {"ok", "failed"} : edit' = [edit EXCEPT ![p] = result]
  /\ Goto(p, "locking")
  /\ UNCHANGED <<lockVars, files, line>>

(* queue_mark.sh looks for the line, without the lock, before it edits it  *)
Mark(p) ==
  /\ pc[p] = "marking"
  /\ \E l \in Lines, do \in MarkEdits :
       /\ line' = [line EXCEPT ![p] = l]
       /\ edit' = [edit EXCEPT ![p] = do]
       /\ Goto(p, IF l \in DOMAIN queue THEN "locking" ELSE "notfound")
  /\ UNCHANGED <<lockVars, files>>

(* scancel, the time limit or a node failure *)
Kill(p) ==
  /\ p \in Mortal /\ pc[p] \notin Ended
  /\ Goto(p, IF pc[p] \in Section THEN "fallen" ELSE "dead")
  /\ UNCHANGED <<lockVars, files, edit, line>>

Step(p) ==
  \/ Acquire(p) \/ Refused(p) \/ Sleep(p) \/ BreakLock(p)
  \/ PickPending(p) \/ Draft(p) \/ Truncate(p) \/ Copy(p) \/ Remove(p) \/ Unlock(p)
  \/ Work(p) \/ Mark(p)

Next == \E p \in Procs : Step(p) \/ Kill(p)

Spec == Init /\ [][Next]_vars

(* Nothing keeps a process from its next step for ever; a kill is not fair *)
FairSpec == Spec /\ \A p \in Procs : WF_vars(Step(p))

-----------------------------------------------------------------------------
(* The queue file implements the board.  A rewrite takes effect when it    *)
(* truncates the file: from then on the draft is what the file will be.    *)
(* The board is lost with the first live lock that is broken, and when a   *)
(* queue that a dead holder left truncated has been drafted from.          *)
Shown == IF queue = Emptied /\ tmp # NoFile THEN tmp ELSE queue
Lost  == overrun \/ Shown = Emptied

Board == INSTANCE TaskBoard WITH board <- Shown, lost <- Lost

BoardSpec == Board!BoardSpec

(* w has claimed its line and not yet written how it went *)
Engaged(w) ==
  /\ w \in Workers /\ line[w] # 0
  /\ \/ edit[w] = "claim" /\ pc[w] \in {"truncating", "copying", "removing", "unlocking", "working"}
     \/ edit[w] \in {"ok", "failed"} /\ pc[w] \in {"locking", "refused", "drafting"}

(* No two workers are at work on one varloc (queue.sh queue_claim), whoever *)
(* died and wherever, as long as no live holder's lock has been broken.    *)
OneWorkerPerLine ==
  ~overrun => \A v, w \in Workers : Engaged(v) /\ Engaged(w) /\ line[v] = line[w] => v = w

-----------------------------------------------------------------------------
(* Why: the inductive invariant.                                           *)

MutualExclusion ==
  /\ \A p, q \in Inside : p = q
  /\ Inside # {} => lockdir

Copying == {p \in Procs : pc[p] \in {"truncating", "copying"}}

Owns(w, f) == f = Emptied \/ f[line[w]] = [status |-> "running", job |-> w]

(* what a process is about to do, and that it may *)
Intent(p) ==
  /\ pc[p] = "drafting" => line[p] # 0
  /\ pc[p] = "working" => p \in Workers /\ edit[p] = "claim" /\ line[p] # 0
  /\ pc[p] = "drafting" /\ edit[p] = "claim"
       => queue # Emptied /\ queue[line[p]].status = "pending"
  /\ p \in Marks => edit[p] \in MarkEdits \cup {"claim"} /\ pc[p] # "picking"
  /\ p \in Marks /\ pc[p] \notin {"marking", "dead"} => edit[p] # "claim"
  /\ p \in Workers => edit[p] \in {"claim", "ok", "failed"} /\ pc[p] # "marking"
  /\ edit[p] \in {"ok", "failed"} => line[p] # 0 /\ pc[p] # "picking"
  /\ pc[p] \in {"locking", "refused", "drafting"} /\ edit[p] # "claim" => line[p] # 0

(* a claimed line says so in the file, and in the draft that replaces it *)
Held(w) ==
  /\ w \notin Copying => Owns(w, queue)
  /\ Copying # {} => Owns(w, tmp)

ClaimedLines ==
  /\ Copying # {} => tmp # NoFile
  /\ \A p \in Procs : Intent(p)
  /\ \A w \in Workers : Engaged(w) => Held(w)

(* Mutual exclusion under the lock, and what a claimed line says in the    *)
(* queue file and in the draft that is about to replace it, as long as no  *)
(* live holder's lock has been broken (queue.sh queue_lock, queue_edit).   *)
QueueInv == TypeOK /\ (~overrun => MutualExclusion /\ ClaimedLines)

-----------------------------------------------------------------------------
(* How often the lock is taken, and how patient a waiter has to be.        *)

(* what the lock is taken for, each time once: a claim and a result of     *)
(* every line, a look of every worker that finds none, the edit of every   *)
(* mark, and a claim and a result of the line it may have requeued         *)
Turns ==
  (Lines \X {"claim", "finish"}) \cup (Workers \X {"look"}) \cup (Marks \X {"edit", "reclaim", "refinish"})

(* no turns of others outlast a waiter *)
Patient == Patience >= SectionPolls * Cardinality(Turns)

(* A patient waiter breaks no live holder's lock ("breaking stale queue    *)
(* lock", queue.sh queue_lock) before a holder has died: only then can a   *)
(* second waiter have waited as long as the first, which has broken the    *)
(* dead one's lock and taken it.                                           *)
LiveLocksStay == overrun => \E p \in Procs : pc[p] = "fallen"

-----------------------------------------------------------------------------
(* A waiter does not wait for ever, whoever died in the section            *)
(* (queue.sh queue_lock).                                                  *)
WaitersGetThrough ==
  \A p \in Procs : pc[p] = "refused" ~> pc[p] \in Section \cup Ended

(* Until the board is lost, a varloc that a worker has claimed gets a      *)
(* result, or the worker is dead, and one that is pending does not stay so *)
(* while a worker is left (queue.sh queue_run).                            *)
QueueDrains ==
  \A l \in Lines :
    /\ \A w \in Workers :
         ~Lost /\ Board!Running(l, w) ~> Lost \/ ~Board!Running(l, w) \/ pc[w] \in {"dead", "fallen"}
    /\ ~Lost /\ Board!Pending(l)
         ~> Lost \/ ~Board!Pending(l) \/ \A w \in Workers : pc[w] \in Ended

=============================================================================
