----------------------------- MODULE WorkQueue -----------------------------
(***************************************************************************)
(* The single-threaded workqueue "suspend" (kernel/workqueue.c), created   *)
(* by wakelocks_init and shared by the three work items of Android power   *)
(* management: suspend_work, early_suspend_work and late_resume_work.      *)
(*                                                                         *)
(* worklist is cwq->worklist.  A work item is on the list exactly while    *)
(* its WORK_STRUCT_PENDING bit is set: the bit and the list entry are set  *)
(* together by queue_work and cleared together, before the function runs,  *)
(* by run_workqueue.  pc is the control point of the worker thread:        *)
(* "idle" between work items, the name of the work item at the start of    *)
(* its function, and then the labels of the function's later steps, which  *)
(* SystemSuspend and EarlySuspend define.                                  *)
(***************************************************************************)
EXTENDS Integers, Sequences, Functions

VARIABLES worklist, pc

wqVars == <<worklist, pc>>

Works == {"suspend", "early_suspend", "late_resume"}

Pending(w) == w \in Range(worklist)

WorkQueueInit ==
  /\ worklist = << >>
  /\ pc = "idle"

(* Mutant: one pending bit for the whole queue. *)
queue_work_if_empty(list, w) == IF list # << >> THEN list ELSE << w >>

(* queue_work leaves an item that is already pending where it is. *)
queue_work(list, w) ==
  IF w \in Range(list) THEN list ELSE Append(list, w)

(***************************************************************************)
(* run_workqueue takes the first item off the list, clears its pending     *)
(* bit and calls its function: from then on the item can be queued again,  *)
(* also by itself, while it is still running.                              *)
(***************************************************************************)
run_workqueue ==
  /\ pc = "idle"
  /\ worklist # << >>
  /\ pc' = Head(worklist)
  /\ worklist' = Tail(worklist)

(* The worker moves from one label of its function to another one. *)
Goto(from, to) ==
  /\ pc = from
  /\ pc' = to
=============================================================================
