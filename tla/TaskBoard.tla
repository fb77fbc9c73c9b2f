------------------------------ MODULE TaskBoard ------------------------------
(***************************************************************************)
(* What the work queue promises: a board of entries that workers claim one *)
(* at a time and finish themselves; nobody else touches a running entry,   *)
(* and every entry stays on the board, until the board is lost.            *)
(***************************************************************************)
CONSTANTS Workers, NoJob, Lines

VARIABLES board, lost

Running(l, w) == board[l] = [status |-> "running", job |-> w]
Pending(l)    == board[l].status = "pending"

BoardInit == board = [l \in Lines |-> [status |-> "pending", job |-> NoJob]] /\ lost = FALSE

Claim(w, l) ==
  /\ Pending(l) /\ \A k \in Lines : ~Running(k, w)
  /\ board' = [board EXCEPT ![l] = [status |-> "running", job |-> w]]

Finish(w, l) ==
  /\ Running(l, w)
  /\ \E result \in {"ok", "failed"} : board' = [board EXCEPT ![l].status = result]

Skip(l) ==
  /\ Pending(l)
  /\ board' = [board EXCEPT ![l].status = "skip"]

Requeue(l) ==
  /\ board[l].status \in {"ok", "failed", "skip"}
  /\ board' = [board EXCEPT ![l] = [status |-> "pending", job |-> NoJob]]

Change(l) ==
  \/ \E w \in Workers : Claim(w, l) \/ Finish(w, l)
  \/ Skip(l)
  \/ Requeue(l)

Turn == ~lost /\ ~lost' /\ \E l \in Lines : Change(l)

(* losing the board for good *)
Lose == lost'

BoardNext == Turn \/ Lose

BoardSpec == BoardInit /\ [][BoardNext]_<<board, lost>>

=============================================================================
