--------------------------- MODULE FbEarlySuspend ---------------------------
(***************************************************************************)
(* The framebuffer handler of early suspend (kernel/power/                 *)
(* fbearlysuspend.c).  The worker of the suspend workqueue asks user space *)
(* to stop drawing and waits up to a second for the answer; user space     *)
(* learns of the request by reading wait_for_fb_sleep, answers by reading  *)
(* wait_for_fb_wake, and is told by the latter's return to draw again.     *)
(*                                                                         *)
(* wait_event is modelled in the steps that matter for wakeups: a task     *)
(* looks at the condition, puts itself on the queue, looks once more, and  *)
(* only then sleeps; wake_up takes every task off the queue, and a task    *)
(* that is off the queue does not stay asleep.  fb_state is read without a *)
(* lock, so an assignment of it and the wake_up after it are two steps.    *)
(* fb_state_lock is held across both by wait_for_fb_wake_show alone, which *)
(* is then at the label ack_wake.                                          *)
(*                                                                         *)
(* Of the handlers' caller only this is taken: calls of the suspend hook   *)
(* and of the resume hook alternate (HandlersMatchState of PowerManager).  *)
(***************************************************************************)
EXTENDS Naturals

CONSTANTS
  Readers,    \* the threads of user space that draw
  Worker      \* the worker thread of the suspend workqueue

ASSUME WorkerAssumption == Worker \notin Readers

VARIABLES
  fb_state,     \* the enum fb_state
  fb_state_wq,  \* the tasks on the wait queue fb_state_wq
  at,           \* task -> what it is doing
  waits,        \* task -> how far it is in wait_event
  signalled,    \* the readers with a signal pending
  expired       \* has the second of wait_event_timeout passed

fbVars == <<fb_state, fb_state_wq, at, waits, signalled, expired>>

Tasks == Readers \cup {Worker}

STOPPED_DRAWING == "FB_STATE_STOPPED_DRAWING"
REQUEST_STOP_DRAWING == "FB_STATE_REQUEST_STOP_DRAWING"
DRAWING_OK == "FB_STATE_DRAWING_OK"

(* A reader draws, reads wait_for_fb_sleep, has stopped, reads             *)
(* wait_for_fb_wake (holding fb_state_lock at ack_wake).                   *)
ReaderLabels == {"draw", "sleep_show", "stopped", "ack_wake", "wake_show"}

(* The worker is between two handlers, or in one of the two hooks.         *)
WorkerLabels == {"resumed", "stop_wake", "stop_wait", "suspended",
                 "start_wake"}

InWait(t) == at[t] \in {"sleep_show", "wake_show", "stop_wait"}

(* The type of the state.  An entry on the wait queue lives on the stack   *)
(* of the call that waits (DEFINE_WAIT), so it is gone when that returns.  *)
FbTypeOK ==
  /\ fb_state \in {STOPPED_DRAWING, REQUEST_STOP_DRAWING, DRAWING_OK}
  /\ fb_state_wq \subseteq {t \in Tasks : InWait(t)}
  /\ at \in [Tasks -> ReaderLabels \cup WorkerLabels]
  /\ at[Worker] \in WorkerLabels
  /\ \A r \in Readers : at[r] \in ReaderLabels
  /\ waits \in [Tasks -> {"running", "prepare", "queued", "asleep",
                       "interrupted"}]
  /\ signalled \subseteq Readers
  /\ expired \in BOOLEAN

android_power_init ==
  /\ fb_state = DRAWING_OK
  /\ fb_state_wq = {}
  /\ at = [t \in Tasks |-> IF t = Worker THEN "resumed" ELSE "draw"]
  /\ waits = [t \in Tasks |-> "running"]
  /\ signalled = {}
  /\ expired = FALSE

-----------------------------------------------------------------------------
(* The wait queue.                                                         *)

(* Mutant: wait_for_fb_wake ends on any answer to the request. *)
WakeOnAnswer(t) ==
  \/ at[t] = "sleep_show" /\ fb_state # DRAWING_OK
  \/ at[t] = "wake_show" /\ fb_state # REQUEST_STOP_DRAWING
  \/ at[t] = "stop_wait" /\ fb_state = STOPPED_DRAWING

Condition(t) ==
  \/ at[t] = "sleep_show" /\ fb_state # DRAWING_OK
  \/ at[t] = "wake_show" /\ fb_state = DRAWING_OK
  \/ at[t] = "stop_wait" /\ fb_state = STOPPED_DRAWING

wake_up == fb_state_wq' = {}

wait_event(t) ==
  /\ InWait(t)
  /\ waits[t] = "running"
  /\ ~ Condition(t)
  /\ waits' = [waits EXCEPT ![t] = "prepare"]
  /\ UNCHANGED <<fb_state, fb_state_wq, at, signalled, expired>>

prepare_to_wait(t) ==
  /\ InWait(t)
  /\ waits[t] = "prepare"
  /\ waits' = [waits EXCEPT ![t] = "queued"]
  /\ fb_state_wq' = fb_state_wq \cup {t}
  /\ UNCHANGED <<fb_state, at, signalled, expired>>

(* Mutant: the condition is not looked at again after prepare_to_wait. *)
SleepUnchecked(t) ==
  /\ waits[t] = "queued"
  /\ t \notin signalled
  /\ waits' = [waits EXCEPT ![t] = "asleep"]
  /\ UNCHANGED <<fb_state, fb_state_wq, at, signalled, expired>>

schedule(t) ==
  /\ waits[t] = "queued"
  /\ ~ Condition(t)
  /\ t \notin signalled
  /\ waits' = [waits EXCEPT ![t] = "asleep"]
  /\ UNCHANGED <<fb_state, fb_state_wq, at, signalled, expired>>

(* A task awake again loops to prepare_to_wait, which finds it on the      *)
(* queue or puts it back, unless its time is up.                           *)
WakesUp(t) ==
  /\ waits[t] = "asleep"
  /\ t \notin fb_state_wq \/ t \in signalled
  /\ ~ (t = Worker /\ expired)
  /\ waits' = [waits EXCEPT ![t] = "prepare"]
  /\ UNCHANGED <<fb_state, fb_state_wq, at, signalled, expired>>

(* finish_wait, and the task goes on at label l.                           *)
FinishWait(t, l) ==
  /\ waits' = [waits EXCEPT ![t] = "running"]
  /\ fb_state_wq' = fb_state_wq \ {t}
  /\ at' = [at EXCEPT ![t] = l]

-----------------------------------------------------------------------------
(* The hooks of stop_drawing_early_suspend_desc, run by the worker.        *)

LockFree == \A r \in Readers : at[r] # "ack_wake"

stop_drawing_early_suspend ==
  /\ at[Worker] = "resumed"
  /\ LockFree
  /\ fb_state' = REQUEST_STOP_DRAWING
  /\ at' = [at EXCEPT ![Worker] = "stop_wake"]
  /\ UNCHANGED <<fb_state_wq, waits, signalled, expired>>

StopWake ==
  /\ at[Worker] = "stop_wake"
  /\ wake_up
  /\ at' = [at EXCEPT ![Worker] = "stop_wait"]
  /\ expired' = FALSE
  /\ UNCHANGED <<fb_state, waits, signalled>>

(* The second is over: the timer of schedule_timeout wakes the worker.     *)
Timeout ==
  /\ waits[Worker] = "asleep"
  /\ expired' = TRUE
  /\ UNCHANGED <<fb_state, fb_state_wq, at, waits, signalled>>

(* Mutant: wait_event without a timeout. *)
StopOnlyAnswered ==
  /\ at[Worker] = "stop_wait"
  /\ waits[Worker] \in {"running", "queued"}
  /\ Condition(Worker)
  /\ FinishWait(Worker, "suspended")
  /\ UNCHANGED <<fb_state, signalled, expired>>

(* The hook returns, with or without an answer: a missing one is only      *)
(* warned about.                                                           *)
StopReturn ==
  /\ at[Worker] = "stop_wait"
  /\ \/ waits[Worker] \in {"running", "queued"} /\ Condition(Worker)
     \/ waits[Worker] = "asleep" /\ expired
  /\ FinishWait(Worker, "suspended")
  /\ UNCHANGED <<fb_state, signalled, expired>>

start_drawing_late_resume ==
  /\ at[Worker] = "suspended"
  /\ LockFree
  /\ fb_state' = DRAWING_OK
  /\ at' = [at EXCEPT ![Worker] = "start_wake"]
  /\ UNCHANGED <<fb_state_wq, waits, signalled, expired>>

StartWake ==
  /\ at[Worker] = "start_wake"
  /\ wake_up
  /\ at' = [at EXCEPT ![Worker] = "resumed"]
  /\ UNCHANGED <<fb_state, waits, signalled, expired>>

-----------------------------------------------------------------------------
(* The reads of user space.                                                *)

(* A reader that draws looks for a request to stop.                        *)
ReadSleep(r) ==
  /\ at[r] = "draw"
  /\ at' = [at EXCEPT ![r] = "sleep_show"]
  /\ UNCHANGED <<fb_state, fb_state_wq, waits, signalled, expired>>

(* The first part of wait_for_fb_wake_show.                                *)
Acknowledge(r) ==
  /\ at[r] = "stopped"
  /\ LockFree
  /\ IF fb_state = REQUEST_STOP_DRAWING
       THEN /\ fb_state' = STOPPED_DRAWING
            /\ at' = [at EXCEPT ![r] = "ack_wake"]
       ELSE /\ at' = [at EXCEPT ![r] = "wake_show"]
            /\ UNCHANGED fb_state
  /\ UNCHANGED <<fb_state_wq, waits, signalled, expired>>

AckWake(r) ==
  /\ at[r] = "ack_wake"
  /\ wake_up
  /\ at' = [at EXCEPT ![r] = "wake_show"]
  /\ UNCHANGED <<fb_state, waits, signalled, expired>>

SendSignal(r) ==
  /\ InWait(r)
  /\ signalled' = signalled \cup {r}
  /\ UNCHANGED <<fb_state, fb_state_wq, at, waits, expired>>

(* wait_event_interruptible gives up with -ERESTARTSYS.                    *)
Interrupt(r) ==
  /\ waits[r] = "queued"
  /\ ~ Condition(r)
  /\ r \in signalled
  /\ waits' = [waits EXCEPT ![r] = "interrupted"]
  /\ UNCHANGED <<fb_state, fb_state_wq, at, signalled, expired>>

(* Mutant: the length returned does not count "awake", and user space     *)
(* repeats the read.                                                       *)
ToldNothing(r) == "stopped"

(* A read that ends says sleeping or awake if its condition holds, also    *)
(* after an interrupted wait; otherwise it fails and user space repeats    *)
(* it.  The signal is delivered on the way to user space.                  *)
Told(r) ==
  IF at[r] = "sleep_show" THEN "stopped" ELSE "draw"

Retried(r) ==
  IF at[r] = "sleep_show" THEN "draw" ELSE "stopped"

ReadReturn(r) ==
  /\ at[r] \in {"sleep_show", "wake_show"}
  /\ \/ waits[r] \in {"running", "queued", "interrupted"}
        /\ Condition(r)
        /\ FinishWait(r, Told(r))
     \/ waits[r] = "interrupted"
        /\ ~ Condition(r)
        /\ FinishWait(r, Retried(r))
  /\ signalled' = signalled \ {r}
  /\ UNCHANGED <<fb_state, expired>>

-----------------------------------------------------------------------------
WaitStep(t) ==
  wait_event(t) \/ prepare_to_wait(t) \/ schedule(t) \/ WakesUp(t)

HookStep == StopWake \/ StopReturn \/ StartWake

ReaderStep(r) ==
  ReadSleep(r) \/ Acknowledge(r) \/ AckWake(r) \/ Interrupt(r)
    \/ ReadReturn(r)

FbNext ==
  \/ \E t \in Tasks : WaitStep(t)
  \/ HookStep
  \/ stop_drawing_early_suspend
  \/ start_drawing_late_resume
  \/ Timeout
  \/ \E r \in Readers : ReaderStep(r) \/ SendSignal(r)

(* Every thread that can run does run, and time passes.  Nobody is obliged *)
(* to put the device to sleep, to wake it or to send a signal.             *)
FbFairness ==
  /\ \A t \in Tasks : WF_fbVars(WaitStep(t))
  /\ WF_fbVars(HookStep)
  /\ WF_fbVars(Timeout)
  /\ \A r \in Readers : WF_fbVars(ReaderStep(r))

FbSafety == android_power_init /\ [][FbNext]_fbVars

FbSpec == FbSafety /\ FbFairness

-----------------------------------------------------------------------------
(* No wakeup is lost (the comment of wait_event asks for wake_up after any *)
(* change of the condition): a task asleep on the queue whose condition    *)
(* has come true is about to be woken by the task that made it true.       *)
WakePending ==
  \/ at[Worker] \in {"stop_wake", "start_wake"}
  \/ \E r \in Readers : at[r] = "ack_wake"

NoLostWakeup ==
  \A t \in Tasks :
    waits[t] = "asleep" /\ t \in fb_state_wq /\ Condition(t) => WakePending

(* The answer is true: while fb_state says that drawing has stopped, some  *)
(* reader has stopped, and it draws no more until late resume, whatever    *)
(* signals it receives and however late its answer was.                    *)
AnswerTrue ==
  fb_state = STOPPED_DRAWING =>
    \E r \in Readers : at[r] \in {"stopped", "ack_wake", "wake_show"}

(* User space that does not answer delays the other handlers for a second, *)
(* not for ever: stop_drawing_early_suspend returns.                       *)
StopReturns ==
  at[Worker] = "stop_wake" ~> at[Worker] = "suspended"

(* After late resume for good, every reader draws again: the handshake     *)
(* leaves nobody waiting in wait_for_fb_wake.                              *)
DrawingResumes ==
  \A r \in Readers :
    <>[](fb_state = DRAWING_OK) => []<>(at[r] \in {"draw", "sleep_show"})
=============================================================================
