------------------------ MODULE FbEarlySuspendProofs ------------------------
(***************************************************************************)
(* For any set of readers: the framebuffer handshake loses no wakeup and   *)
(* its answers are true.                                                   *)
(***************************************************************************)
EXTENDS FbEarlySuspend, TLAPS

FbInv == FbTypeOK /\ NoLostWakeup /\ AnswerTrue

(* One step of the worker or of a reader, with its task named.             *)
LEMMA FbTypeStep == FbTypeOK /\ [FbNext]_fbVars => FbTypeOK'
<1> SUFFICES ASSUME FbTypeOK, [FbNext]_fbVars PROVE FbTypeOK'
  OBVIOUS
<1> USE WorkerAssumption
    DEF FbTypeOK, Tasks, InWait, ReaderLabels, WorkerLabels,
        STOPPED_DRAWING, REQUEST_STOP_DRAWING, DRAWING_OK
<1>1. ASSUME NEW t \in Tasks, WaitStep(t) PROVE FbTypeOK'
  <2>1. CASE prepare_to_wait(t)
    BY <2>1 DEF prepare_to_wait
  <2>2. CASE wait_event(t) \/ schedule(t) \/ WakesUp(t)
    BY <2>2 DEF wait_event, schedule, WakesUp
  <2> QED BY <1>1, <2>1, <2>2 DEF WaitStep
<1>2. CASE HookStep
  <2>1. CASE StopWake \/ StartWake
    BY <2>1 DEF StopWake, StartWake, wake_up
  <2>2. CASE StopReturn
    BY <2>2 DEF StopReturn, FinishWait
  <2> QED BY <1>2, <2>1, <2>2 DEF HookStep
<1>3. CASE stop_drawing_early_suspend \/ start_drawing_late_resume
  BY <1>3 DEF stop_drawing_early_suspend, start_drawing_late_resume
<1>4. CASE Timeout
  BY <1>4 DEF Timeout
<1>5. ASSUME NEW r \in Readers, ReaderStep(r) \/ SendSignal(r)
      PROVE  FbTypeOK'
  <2>1. CASE ReadSleep(r) \/ Interrupt(r) \/ SendSignal(r)
    BY <2>1 DEF ReadSleep, Interrupt, SendSignal
  <2>2. CASE Acknowledge(r) \/ AckWake(r)
    BY <2>2 DEF Acknowledge, AckWake, wake_up
  <2>3. CASE ReadReturn(r)
    BY <2>3 DEF ReadReturn, FinishWait, Told, Retried
  <2> QED BY <1>5, <2>1, <2>2, <2>3 DEF ReaderStep
<1>6. CASE UNCHANGED fbVars
  BY <1>6 DEF fbVars
<1> QED BY <1>1, <1>2, <1>3, <1>4, <1>5, <1>6 DEF FbNext

(* A wakeup is lost only if some step makes a sleeper's condition true     *)
(* without a wake_up to come, or ends the last one to come without waking. *)
LEMMA FbWakeupStep ==
  FbTypeOK /\ NoLostWakeup /\ [FbNext]_fbVars => NoLostWakeup'
<1> SUFFICES ASSUME FbTypeOK, NoLostWakeup, [FbNext]_fbVars,
                    NEW s \in Tasks,
                    waits'[s] = "asleep", s \in fb_state_wq', Condition(s)'
             PROVE  WakePending'
  BY DEF NoLostWakeup, Tasks
<1> USE WorkerAssumption
    DEF FbTypeOK, NoLostWakeup, Tasks, WakePending, Condition,
        STOPPED_DRAWING, REQUEST_STOP_DRAWING, DRAWING_OK
<1>1. ASSUME NEW t \in Tasks, WaitStep(t) PROVE WakePending'
  BY <1>1 DEF WaitStep, wait_event, prepare_to_wait, schedule, WakesUp
<1>2. CASE HookStep
  BY <1>2 DEF HookStep, StopWake, StopReturn, StartWake, FinishWait, wake_up
<1>3. CASE stop_drawing_early_suspend \/ start_drawing_late_resume
  BY <1>3 DEF stop_drawing_early_suspend, start_drawing_late_resume
<1>4. CASE Timeout
  BY <1>4 DEF Timeout
<1>5. ASSUME NEW r \in Readers, ReaderStep(r) \/ SendSignal(r)
      PROVE  WakePending'
  <2>1. CASE ReadSleep(r) \/ Interrupt(r) \/ SendSignal(r)
    BY <2>1 DEF ReadSleep, Interrupt, SendSignal, InWait
  <2>2. CASE Acknowledge(r)
    BY <2>2 DEF Acknowledge, InWait
  <2>3. CASE AckWake(r)
    BY <2>3 DEF AckWake, wake_up
  <2>4. CASE ReadReturn(r)
    BY <2>4 DEF ReadReturn, FinishWait, Told, Retried
  <2> QED BY <1>5, <2>1, <2>2, <2>3, <2>4 DEF ReaderStep
<1>6. CASE UNCHANGED fbVars
  BY <1>6 DEF fbVars
<1> QED BY <1>1, <1>2, <1>3, <1>4, <1>5, <1>6 DEF FbNext

(* The reader that answered leaves wait_for_fb_wake only for DRAWING_OK.   *)
LEMMA FbAnswerStep ==
  FbTypeOK /\ AnswerTrue /\ [FbNext]_fbVars => AnswerTrue'
<1> SUFFICES ASSUME FbTypeOK, AnswerTrue, [FbNext]_fbVars PROVE AnswerTrue'
  OBVIOUS
<1> USE WorkerAssumption
    DEF FbTypeOK, AnswerTrue, Tasks, Condition, ReaderLabels,
        STOPPED_DRAWING, REQUEST_STOP_DRAWING, DRAWING_OK
<1>1. ASSUME NEW t \in Tasks, WaitStep(t) PROVE AnswerTrue'
  BY <1>1 DEF WaitStep, wait_event, prepare_to_wait, schedule, WakesUp
<1>2. CASE HookStep
  BY <1>2 DEF HookStep, StopWake, StopReturn, StartWake, FinishWait
<1>3. CASE stop_drawing_early_suspend \/ start_drawing_late_resume
  BY <1>3 DEF stop_drawing_early_suspend, start_drawing_late_resume
<1>4. CASE Timeout
  BY <1>4 DEF Timeout
<1>5. ASSUME NEW r \in Readers, ReaderStep(r) \/ SendSignal(r)
      PROVE  AnswerTrue'
  <2>1. CASE ReadSleep(r) \/ Interrupt(r) \/ SendSignal(r)
    BY <2>1 DEF ReadSleep, Interrupt, SendSignal
  <2>2. CASE Acknowledge(r) \/ AckWake(r)
    BY <2>2 DEF Acknowledge, AckWake
  <2>3. CASE ReadReturn(r)
    BY <2>3 DEF ReadReturn, FinishWait, Told, Retried
  <2> QED BY <1>5, <2>1, <2>2, <2>3 DEF ReaderStep
<1>6. CASE UNCHANGED fbVars
  BY <1>6 DEF fbVars
<1> QED BY <1>1, <1>2, <1>3, <1>4, <1>5, <1>6 DEF FbNext

(* The invariant of the handshake of fbearlysuspend.c.                     *)
THEOREM FbInvariance == FbSafety => []FbInv
<1>1. android_power_init => FbInv
  BY WorkerAssumption
     DEF android_power_init, FbInv, FbTypeOK, NoLostWakeup, AnswerTrue, Tasks,
         ReaderLabels, WorkerLabels, STOPPED_DRAWING, REQUEST_STOP_DRAWING,
         DRAWING_OK
<1>2. FbInv /\ [FbNext]_fbVars => FbInv'
  BY FbTypeStep, FbWakeupStep, FbAnswerStep DEF FbInv
<1> QED BY <1>1, <1>2, PTL DEF FbSafety

(* The tasks and fb_state keep their types; a task is on fb_state_wq only  *)
(* inside a wait, whichever way it leaves it.                              *)
THEOREM FbTypeCorrect == FbSafety => []FbTypeOK
<1>1. FbInv => FbTypeOK
  BY DEF FbInv
<1> QED BY <1>1, FbInvariance, PTL

(* No task sleeps on fb_state_wq after the wake_up it is waiting for,      *)
(* however many readers there are.                                         *)
THEOREM WakeupsNotLost == FbSafety => []NoLostWakeup
<1>1. FbInv => NoLostWakeup
  BY DEF FbInv
<1> QED BY <1>1, FbInvariance, PTL

(* STOPPED_DRAWING is only ever seen while some reader has stopped.        *)
THEOREM AnswersTrue == FbSafety => []AnswerTrue
<1>1. FbInv => AnswerTrue
  BY DEF FbInv
<1> QED BY <1>1, FbInvariance, PTL
=============================================================================
