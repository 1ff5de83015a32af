-------------------------- MODULE SuspendContract --------------------------
(***************************************************************************)
(* What opportunistic suspend promises to user space and to drivers,       *)
(* without timers, work items or the steps of a suspend: who holds a wake  *)
(* lock, whether the user wants the device off, whether the screen         *)
(* handlers were told so, and whether the CPU sleeps.                      *)
(***************************************************************************)
CONSTANTS
  Locks,     \* the wake locks that prevent suspend
  MainLock,  \* the one held on behalf of the user
  Exempt     \* locks that may still be taken when sleep is certain

VARIABLES
  held,      \* the locks that are held
  wantOff,   \* the user asked for sleep last
  dark,      \* the handlers of early suspend were called
  asleep

vars == <<held, wantOff, dark, asleep>>

Init ==
  /\ held = {MainLock}
  /\ wantOff = FALSE
  /\ dark = FALSE
  /\ asleep = FALSE

(* Locks other than the main lock come and go by calls and by timeouts. *)
ChangeLocks ==
  /\ ~asleep
  /\ held' \in SUBSET Locks
  /\ MainLock \in held' <=> MainLock \in held
  /\ UNCHANGED <<wantOff, dark, asleep>>

RequestOff ==
  /\ ~asleep /\ ~wantOff
  /\ wantOff' = TRUE
  /\ UNCHANGED <<held, dark, asleep>>

(* Turning the device on takes the main lock in the same step. *)
RequestOn ==
  /\ ~asleep /\ wantOff
  /\ wantOff' = FALSE
  /\ held' = held \cup {MainLock}
  /\ UNCHANGED <<dark, asleep>>

ScreenOff ==
  /\ ~asleep /\ wantOff /\ ~dark
  /\ dark' = TRUE
  /\ UNCHANGED <<held, wantOff, asleep>>

ScreenOn ==
  /\ ~asleep /\ ~wantOff /\ dark
  /\ dark' = FALSE
  /\ UNCHANGED <<held, wantOff, asleep>>

(* Only for a dark device that is still to be off is the main lock given   *)
(* back; locks whose timeout is over go with it.                           *)
ReleaseMain ==
  /\ ~asleep /\ wantOff /\ dark
  /\ held' \in SUBSET (held \ {MainLock})
  /\ UNCHANGED <<wantOff, dark, asleep>>

Sleep ==
  /\ ~asleep /\ wantOff /\ dark
  /\ held \subseteq Exempt
  /\ asleep' = TRUE
  /\ UNCHANGED <<held, wantOff, dark>>

Wake ==
  /\ asleep
  /\ asleep' = FALSE
  /\ UNCHANGED <<held, wantOff, dark>>

Next ==
  \/ ChangeLocks \/ RequestOff \/ RequestOn \/ ScreenOff \/ ScreenOn
  \/ ReleaseMain \/ Sleep \/ Wake

Spec == Init /\ [][Next]_vars
=============================================================================
