------------------------- MODULE PowerManagerProofs -------------------------
(***************************************************************************)
(* The power manager is safe for every set of locks and handlers, every    *)
(* width of a long and every timeout: IInv is an inductive invariant of    *)
(* Spec and implies the safety properties that the runs check on small     *)
(* instances, and every step is a step of the contract.                    *)
(*                                                                         *)
(* The first part is about the operators of WakeLock and WorkQueue alone.  *)
(***************************************************************************)
EXTENDS PowerManager, WellFoundedInduction, TLAPS

(* A set of natural numbers has a smallest element. *)
LEMMA MinOfNat ==
  ASSUME NEW D \in SUBSET Nat, D # {}
  PROVE  \E d \in D : \A e \in D : d <= e
<1> DEFINE Less == OpToRel(<, Nat)
<1>1. IsWellFoundedOn(Less, Nat)
  BY NatLessThanWellFounded
<1>2. \A i, j \in Nat : i < j => <<i, j>> \in Less
  BY DEF OpToRel
<1> HIDE DEF Less
<1>3. PICK d \in D : \A e \in D : ~ (<<e, d>> \in Less)
  BY <1>1, WFMin
<1>4. \A e \in D : ~ (e < d)
  BY <1>2, <1>3
<1>5. QED
  BY <1>4

(* A set of numbers bounded by n has a largest element, and Max is it: the *)
(* smallest distance to the bound belongs to it.                           *)
LEMMA MaxOfBounded ==
  ASSUME NEW n \in Nat, NEW S \in SUBSET (0 .. n), S # {}
  PROVE  Max(S) \in S /\ \A x \in S : x <= Max(S)
<1> DEFINE D == {n - x : x \in S}
<1>1. PICK x0 \in S : TRUE
  OBVIOUS
<1>2. D \subseteq Nat /\ n - x0 \in D
  OBVIOUS
<1>3. PICK d \in D : \A e \in D : d <= e
  BY <1>2, MinOfNat
<1>4. PICK m \in S : d = n - m
  BY <1>3
<1>5. \A x \in S : x <= m
  <2> SUFFICES ASSUME NEW x \in S PROVE x <= m
    OBVIOUS
  <2>1. n - m <= n - x
    BY <1>3, <1>4
  <2>2. QED
    BY <2>1
<1>6. QED
  BY <1>4, <1>5 DEF Max

-----------------------------------------------------------------------------
(* What the walk over the active locks returns (has_wake_lock_locked): -1  *)
(* exactly if a lock without timeout is held, otherwise the largest time   *)
(* left, and 0 exactly if no timeout is still running.                     *)
LEMMA HasWakeLockValue ==
  ASSUME NEW A \in SUBSET Locks, NEW T, NEW L \in [Locks -> Long]
  PROVE  LET h == has_wake_lock_locked(A, T, L) IN
         /\ h \in -1 .. LongMax
         /\ h = -1 <=> Untimed(A, T) # {}
         /\ Untimed(A, T) = {} => \A l \in A \cap SuspendLocks : L[l] <= h
         /\ h > 0 => \E l \in A \cap SuspendLocks : L[l] = h
<1> DEFINE S == {0} \cup {L[l] : l \in A \cap SuspendLocks}
           P == {x \in S : x >= 0}
           h == has_wake_lock_locked(A, T, L)
<1>1. \A l \in A \cap SuspendLocks : L[l] \in Long
  BY DEF SuspendLocks
<1>2. P \in SUBSET (0 .. LongMax) /\ 0 \in P
  BY <1>1, LongMaxAssumption DEF Long
<1>3. Max(P) \in P /\ \A x \in P : x <= Max(P)
  <2> HIDE DEF P
  <2>1. QED
    BY <1>2, MaxOfBounded, LongMaxAssumption
<1>4. PICK m \in P : \A x \in P : x <= m
  BY <1>3
<1>5. m \in S /\ m \in 0 .. LongMax /\ \A x \in S : m >= x
  <2>1. S \subseteq Int
    BY <1>1, LongMaxAssumption DEF Long
  <2>2. QED
    BY <1>2, <1>4, <2>1
<1>6. Max(S) = m
  <2>1. S \subseteq Int
    BY <1>1, LongMaxAssumption DEF Long
  <2> HIDE DEF S
  <2>2. \A y \in S : (\A x \in S : y >= x) => y = m
    BY <1>5, <2>1
  <2>3. QED
    BY <1>5, <2>2 DEF Max
<1>7. CASE Untimed(A, T) # {}
  <2>1. h = -1
    BY <1>7 DEF has_wake_lock_locked
  <2>2. QED
    BY <1>7, <2>1, LongMaxAssumption
<1>8. CASE Untimed(A, T) = {}
  <2>1. h = m
    BY <1>6, <1>8 DEF has_wake_lock_locked
  <2>2. \A l \in A \cap SuspendLocks : L[l] <= m
    BY <1>1, <1>5 DEF Long
  <2>3. m > 0 => \E l \in A \cap SuspendLocks : L[l] = m
    BY <1>5
  <2>4. m # -1
    BY <1>5
  <2>5. QED
    BY <1>5, <1>8, <2>1, <2>2, <2>3, <2>4
<1>9. QED
  BY <1>7, <1>8

-----------------------------------------------------------------------------
(* The walk removes locks whose timeout is over from the lists, never one  *)
(* without timeout, and leaves the time left of the others alone.          *)
LEMMA ExpiredLocks ==
  ASSUME NEW A \in SUBSET Locks, NEW T \in SUBSET A,
         NEW L \in [Locks -> Long]
  PROVE  LET E == Expired(A, T, L) IN
         /\ E \subseteq T \cap SuspendLocks
         /\ Untimed(A \ E, T \ E) = Untimed(A, T)
         /\ [l \in Locks |-> IF l \in E THEN 0 ELSE L[l]] \in [Locks -> Long]
         /\ Untimed(A, T) = {} =>
              \A l \in A \ E : l \in SuspendLocks => L[l] > 0
<1> DEFINE E == Expired(A, T, L)
<1>1. 0 \in Long
  BY LongMaxAssumption DEF Long
<1>2. E \subseteq T \cap SuspendLocks
  BY DEF Expired, Untimed
<1>3. Untimed(A, T) = {} => \A l \in A \ E : l \in SuspendLocks => L[l] > 0
  BY DEF Expired, Long
<1> HIDE DEF E
<1>4. Untimed(A \ E, T \ E) = Untimed(A, T)
  BY <1>2 DEF Untimed
<1>5. [l \in Locks |-> IF l \in E THEN 0 ELSE L[l]] \in [Locks -> Long]
  BY <1>1
<1>6. QED
  BY <1>2, <1>3, <1>4, <1>5 DEF E

(* queue_work leaves the item pending, and every item that was. *)
LEMMA QueueWorkPending ==
  ASSUME worklist \in Seq(Works), NEW w \in Works,
         worklist' = queue_work(worklist, w)
  PROVE  /\ worklist' \in Seq(Works)
         /\ Pending(w)'
         /\ \A v \in Works : Pending(v) => Pending(v)'
<1>1. CASE w \in Range(worklist)
  BY <1>1 DEF queue_work, Pending
<1>2. CASE w \notin Range(worklist)
  <2>1. worklist' = Append(worklist, w)
    BY <1>2 DEF queue_work
  <2>2. /\ worklist' \in Seq(Works)
        /\ Len(worklist') = Len(worklist) + 1
        /\ worklist'[Len(worklist) + 1] = w
        /\ \A i \in 1 .. Len(worklist) : worklist'[i] = worklist[i]
    BY <2>1
  <2>3. Pending(w)'
    BY <2>2 DEF Pending, Range
  <2>4. \A v \in Works : Pending(v) => Pending(v)'
    BY <2>2 DEF Pending, Range
  <2>5. QED
    BY <2>2, <2>3, <2>4
<1>3. QED
  BY <1>1, <1>2

(* run_workqueue removes the item it runs and no other. *)
LEMMA TakeWorkPending ==
  ASSUME worklist \in Seq(Works), run_workqueue
  PROVE  /\ worklist' \in Seq(Works)
         /\ pc' \in Works
         /\ \A v \in Works : Pending(v) => Pending(v)' \/ pc' = v
<1>1. /\ worklist # << >>
      /\ pc' = Head(worklist)
      /\ worklist' = Tail(worklist)
  BY DEF run_workqueue
<1>2. /\ worklist' \in Seq(Works)
      /\ pc' = worklist[1]
      /\ pc' \in Works
      /\ Len(worklist') = Len(worklist) - 1
      /\ \A i \in 2 .. Len(worklist) : worklist'[i - 1] = worklist[i]
  BY <1>1
<1>3. ASSUME NEW v \in Works, Pending(v), pc' # v
      PROVE  Pending(v)'
  <2>1. PICK i \in 1 .. Len(worklist) : worklist[i] = v
    BY <1>3 DEF Pending, Range
  <2>2. i \in 2 .. Len(worklist) /\ i - 1 \in 1 .. Len(worklist')
    BY <1>2, <1>3, <2>1
  <2>3. QED
    BY <1>2, <2>1, <2>2 DEF Pending, Range
<1>4. QED
  BY <1>2, <1>3

(* The locks that are left after the walk, by its result. *)
LEMMA WalkResult ==
  ASSUME NEW A \in SUBSET Locks, NEW T \in SUBSET A,
         NEW L \in [Locks -> Long]
  PROVE  LET E == Expired(A, T, L)
             h == has_wake_lock_locked(A, T, L)
         IN  /\ h \in -1 .. LongMax
             /\ h = -1 <=> Untimed(A \ E, T \ E) # {}
             /\ h = 0 => (A \ E) \cap SuspendLocks = {}
             /\ h > 0 => \A l \in (A \ E) \cap SuspendLocks : L[l] \in 1 .. h
<1> DEFINE E == Expired(A, T, L)
           h == has_wake_lock_locked(A, T, L)
<1>1. /\ h \in -1 .. LongMax
      /\ h = -1 <=> Untimed(A, T) # {}
      /\ Untimed(A, T) = {} => \A l \in A \cap SuspendLocks : L[l] <= h
  BY HasWakeLockValue
<1>2. /\ Untimed(A \ E, T \ E) = Untimed(A, T)
      /\ Untimed(A, T) = {} =>
           \A l \in A \ E : l \in SuspendLocks => L[l] > 0
  BY ExpiredLocks
<1>3. \A l \in A \cap SuspendLocks : L[l] \in Int
  BY LongMaxAssumption DEF SuspendLocks, Long
<1> HIDE DEF E, h
<1>4. h # -1 => \A l \in (A \ E) \cap SuspendLocks : L[l] \in 1 .. h
  BY <1>1, <1>2, <1>3
<1>5. h = 0 => (A \ E) \cap SuspendLocks = {}
  BY <1>4
<1>6. QED
  BY <1>1, <1>2, <1>4, <1>5 DEF E, h

(* The end of wake_lock_timeout and of wake_unlock, for a lock of type     *)
(* WAKE_LOCK_SUSPEND: with the timer set and suspend_work queued by the    *)
(* result h of the walk, the timer covers the locks again and a suspend is *)
(* prevented or on its way.                                                *)
LEMMA ArmByResult ==
  ASSUME worklist \in Seq(Works), NEW h \in -1 .. LongMax,
         expire_timer' = IF h > 0 THEN h ELSE NoTimer,
         worklist' = IF h = 0 THEN queue_work(worklist, "suspend")
                              ELSE worklist,
         h = -1 <=> Untimed(active', auto_expire') # {},
         h = 0 => active' \cap SuspendLocks = {},
         h > 0 => \A l \in active' \cap SuspendLocks : left'[l] \in 1 .. h
  PROVE  /\ expire_timer' \in NoTimer .. LongMax
         /\ worklist' \in Seq(Works)
         /\ \A v \in Works : Pending(v) => Pending(v)'
         /\ TimerCoversLocks'
         /\ SuspendArmed'
<1>1. expire_timer' \in NoTimer .. LongMax
  BY LongMaxAssumption DEF NoTimer
<1>2. /\ worklist' \in Seq(Works)
      /\ \A v \in Works : Pending(v) => Pending(v)'
      /\ h = 0 => Pending("suspend")'
  <2>1. CASE h = 0
    BY <2>1, QueueWorkPending DEF Works
  <2>2. CASE h # 0
    BY <2>2 DEF Pending
  <2>3. QED
    BY <2>1, <2>2
<1>3. TimerCoversLocks'
  <2>1. CASE h = -1
    BY <2>1 DEF TimerCoversLocks
  <2>2. CASE h = 0
    BY <2>2 DEF TimerCoversLocks
  <2>3. CASE h > 0
    BY <2>3, LongMaxAssumption DEF TimerCoversLocks, NoTimer
  <2>4. QED
    BY <2>1, <2>2, <2>3
<1>4. SuspendArmed'
  <2>1. CASE h = -1
    BY <2>1 DEF SuspendArmed
  <2>2. CASE h = 0
    BY <1>2, <2>2 DEF SuspendArmed
  <2>3. CASE h > 0
    BY <2>3 DEF SuspendArmed, NoTimer
  <2>4. QED
    BY <2>1, <2>2, <2>3
<1>5. QED
  BY <1>1, <1>2, <1>3, <1>4

-----------------------------------------------------------------------------
(* has_wake_lock keeps the invariant; if it returns 0 no lock is held any  *)
(* more, and if it does not a suspend is prevented or on its way.          *)
LEMMA WalkLocksInv ==
  ASSUME WakeLockInv, WalkLocks,
         wait_for_wakeup' \in BOOLEAN, event' \in BOOLEAN
  PROVE  /\ WakeLockInv'
         /\ active' \subseteq active
         /\ MainLock \in active' <=> MainLock \in active
         /\ UNCHANGED worklist /\ SuspendArmed => SuspendArmed'
         /\ has_wake_lock = 0 => active' \cap SuspendLocks = {}
         /\ UNCHANGED worklist /\ has_wake_lock # 0 => SuspendArmed'
<1> DEFINE h == has_wake_lock_locked(active, auto_expire, left)
<1>1. /\ WakeLockTypeOK /\ MainLockUntimed
      /\ TimerCoversLocks /\ PreventingCharged
  BY DEF WakeLockInv
<1>2. /\ active \in SUBSET Locks /\ auto_expire \in SUBSET active
      /\ left \in [Locks -> Long] /\ preventing \in SUBSET active
      /\ expire_timer \in NoTimer .. LongMax /\ expiring \in BOOLEAN
      /\ initialized \subseteq Locks /\ active \subseteq initialized
  BY <1>1 DEF WakeLockTypeOK
<1>3. /\ ExpireLocks(active, auto_expire, left, preventing)
      /\ UNCHANGED <<initialized, expire_timer, expiring>>
  BY DEF WalkLocks
<1>4. /\ active' \subseteq active
      /\ auto_expire' \subseteq active'
      /\ left' \in [Locks -> Long]
      /\ preventing' = preventing \cap active'
      /\ Untimed(active', auto_expire') = Untimed(active, auto_expire)
      /\ \A l \in active' : left'[l] = left[l]
      /\ active \ auto_expire \subseteq active'
      /\ auto_expire' = auto_expire \cap active'
      /\ Untimed(active, auto_expire) = {} =>
           \A l \in active' \cap SuspendLocks : left[l] > 0
  <2> DEFINE E == Expired(active, auto_expire, left)
  <2>1. /\ active' = active \ E
        /\ auto_expire' = auto_expire \ E
        /\ left' = [l \in Locks |-> IF l \in E THEN 0 ELSE left[l]]
        /\ preventing' = preventing \ E
    BY <1>3 DEF ExpireLocks
  <2>2. /\ E \subseteq auto_expire \cap SuspendLocks
        /\ Untimed(active \ E, auto_expire \ E) = Untimed(active, auto_expire)
        /\ [l \in Locks |-> IF l \in E THEN 0 ELSE left[l]] \in [Locks -> Long]
        /\ Untimed(active, auto_expire) = {} =>
             \A l \in active \ E : l \in SuspendLocks => left[l] > 0
    BY <1>2, ExpiredLocks
  <2> HIDE DEF E
  <2>3. QED
    BY <1>2, <2>1, <2>2
<1>5. /\ h \in -1 .. LongMax
      /\ h = -1 <=> Untimed(active, auto_expire) # {}
      /\ Untimed(active, auto_expire) = {} =>
           \A l \in active \cap SuspendLocks : left[l] <= h
      /\ h > 0 => \E l \in active \cap SuspendLocks : left[l] = h
  BY <1>2, HasWakeLockValue
<1> HIDE DEF h
<1>6. MainLock \in active' <=> MainLock \in active
  BY <1>1, <1>4 DEF MainLockUntimed
<1>7. WakeLockTypeOK' /\ MainLockUntimed'
  BY <1>1, <1>2, <1>3, <1>4 DEF WakeLockTypeOK, MainLockUntimed
<1>8. TimerCoversLocks'
  <2>1. (TimerCoversLocks)' =
          (Untimed(active', auto_expire') = {} =>
             /\ (expire_timer' = NoTimer /\ ~expiring') =>
                  active' \cap SuspendLocks = {}
             /\ \A l \in active' \cap SuspendLocks :
                  /\ left'[l] > 0 => left'[l] <= expire_timer'
                  /\ expire_timer' > 0 => left'[l] >= expire_timer' - LongMax)
    BY DEF TimerCoversLocks
  <2>2. QED
    BY <1>1, <1>3, <1>4, <2>1 DEF TimerCoversLocks
<1>9. PreventingCharged'
  <2>1. preventing' \subseteq SuspendLocks
    BY <1>1, <1>4 DEF PreventingCharged
  <2>2. MainLock \in active' => preventing' = {}
    BY <1>1, <1>4, <1>6 DEF PreventingCharged
  <2>3. Untimed(active, auto_expire) \subseteq active'
    BY <1>4 DEF Untimed
  <2>4. MainLock \notin active' =>
          Untimed(active', auto_expire') \subseteq preventing'
    BY <1>1, <1>4, <1>6, <2>3 DEF PreventingCharged
  <2>5. QED
    BY <2>1, <2>2, <2>4 DEF PreventingCharged
<1>10. UNCHANGED worklist /\ SuspendArmed => SuspendArmed'
  BY <1>3, <1>4 DEF SuspendArmed, Pending
<1>11. has_wake_lock = h
  BY DEF has_wake_lock, h
<1>12. h = 0 => active' \cap SuspendLocks = {}
  <2> SUFFICES ASSUME h = 0, NEW l \in active' \cap SuspendLocks PROVE FALSE
    OBVIOUS
  <2>1. left[l] > 0 /\ left[l] <= 0
    BY <1>4, <1>5
  <2>2. left[l] \in Int
    BY <1>2, LongMaxAssumption DEF Long, SuspendLocks
  <2>3. QED
    BY <2>1, <2>2
<1>13. h # 0 => SuspendArmed
  <2>1. CASE h = -1
    BY <1>5, <2>1 DEF SuspendArmed
  <2>2. CASE h > 0
    <3>1. Untimed(active, auto_expire) = {}
      BY <1>5, <2>2
    <3>2. PICK l \in active \cap SuspendLocks : left[l] = h
      BY <1>5, <2>2
    <3>3. h <= expire_timer
      BY <1>1, <2>2, <3>1, <3>2 DEF TimerCoversLocks
    <3>4. QED
      BY <1>2, <1>5, <2>2, <3>3 DEF SuspendArmed, NoTimer
  <2>3. QED
    BY <1>5, <2>1, <2>2
<1>14. QED
  BY <1>4, <1>6, <1>7, <1>8, <1>9, <1>10, <1>11, <1>12, <1>13 DEF WakeLockInv

-----------------------------------------------------------------------------
(* The preventing flags that wake_lock_internal sets on taking l. *)
LEMMA LockedPreventingCharged ==
  ASSUME WakeLockTypeOK, PreventingCharged, NEW l \in Locks,
         NEW T \in SUBSET (active \cup {l}), T \ {l} = auto_expire \ {l},
         NEW L
  PROVE  LET A == active \cup {l}
             P == LockedPreventing(l, T, L)
         IN  /\ P \subseteq A \cap SuspendLocks
             /\ MainLock \in A => P = {}
             /\ MainLock \notin A => Untimed(A, T) \subseteq P
<1> DEFINE A == active \cup {l}
           Q == IF l \in auto_expire /\ left[l] <= 0
                THEN preventing \ {l} ELSE preventing
           P == LockedPreventing(l, T, L)
<1>1. /\ preventing \subseteq active \cap SuspendLocks
      /\ MainLock \in active => preventing = {}
      /\ MainLock \notin active => Untimed(active, auto_expire) \subseteq preventing
  BY DEF WakeLockTypeOK, PreventingCharged
<1>2. Q \subseteq preventing /\ preventing \ {l} \subseteq Q
  OBVIOUS
<1>3. P = IF l \in SuspendLocks /\ (l = MainLock \/ MainLock \notin A)
          THEN update_sleep_wait_stats_locked(A, T, L, Q, l = MainLock)
          ELSE Q
  BY DEF LockedPreventing
<1> HIDE DEF Q, P
<1>4. CASE l \in SuspendLocks /\ l = MainLock
  <2>1. P = {}
    BY <1>1, <1>2, <1>3, <1>4 DEF update_sleep_wait_stats_locked
  <2>2. QED
    BY <1>4, <2>1 DEF P
<1>5. CASE l \in SuspendLocks /\ MainLock \notin A
  <2>1. P \subseteq A \cap SuspendLocks
    BY <1>1, <1>2, <1>3, <1>5 DEF update_sleep_wait_stats_locked
  <2>2. Untimed(A, T) \subseteq P
    BY <1>3, <1>5 DEF update_sleep_wait_stats_locked, Untimed
  <2>3. QED
    BY <1>5, <2>1, <2>2 DEF P
<1>6. CASE l \in SuspendLocks /\ l # MainLock /\ MainLock \in A
  <2>1. P = {}
    BY <1>1, <1>2, <1>3, <1>6
  <2>2. QED
    BY <1>6, <2>1 DEF P
<1>7. CASE l \notin SuspendLocks
  <2>1. l # MainLock
    BY <1>7, LocksAssumption
  <2>2. P = Q
    BY <1>3, <1>7
  <2>3. Untimed(A, T) = Untimed(active, auto_expire)
    BY <1>7 DEF Untimed
  <2>4. l \notin Untimed(A, T)
    BY <1>7 DEF Untimed
  <2>5. QED
    BY <1>1, <1>2, <1>7, <2>1, <2>2, <2>3, <2>4 DEF P
<1>8. QED
  BY <1>4, <1>5, <1>6, <1>7

-----------------------------------------------------------------------------
(* What every operation on a lock guarantees: the invariant holds again,   *)
(* and unless a suspend is prevented or on its way after it, none was      *)
(* before and no event was counted.                                        *)
LockStep ==
  /\ WakeLockInv'
  /\ SuspendArmed' \/ (~SuspendArmed /\ event' = event)

(* Locks of type WAKE_LOCK_SUSPEND may go, if all without timeout stay and *)
(* neither the timer nor the time left changes.                            *)
LEMMA FewerLocksCovered ==
  ASSUME TimerCoversLocks, UNCHANGED <<expire_timer, expiring>>,
         Untimed(active', auto_expire') = Untimed(active, auto_expire),
         active' \cap SuspendLocks \subseteq active,
         \A x \in active' \cap SuspendLocks : left'[x] = left[x]
  PROVE  TimerCoversLocks'
<1>1. (TimerCoversLocks)' =
        (Untimed(active', auto_expire') = {} =>
           /\ (expire_timer' = NoTimer /\ ~expiring') =>
                active' \cap SuspendLocks = {}
           /\ \A l \in active' \cap SuspendLocks :
                /\ left'[l] > 0 => left'[l] <= expire_timer'
                /\ expire_timer' > 0 => left'[l] >= expire_timer' - LongMax)
  BY DEF TimerCoversLocks
<1>2. QED
  BY <1>1 DEF TimerCoversLocks

(* The preventing flags P of the locks A are right again after the walk,   *)
(* which takes locks with a timeout away.                                  *)
LEMMA ChargedAfterWalk ==
  ASSUME NEW A \in SUBSET Locks, NEW T \in SUBSET A,
         NEW L \in [Locks -> Long], NEW P \in SUBSET Locks,
         active' = A \ Expired(A, T, L),
         auto_expire' = T \ Expired(A, T, L),
         preventing' = P \ Expired(A, T, L),
         MainLock \notin T,
         P \ Expired(A, T, L) \subseteq A \cap SuspendLocks,
         MainLock \in A => P = {},
         MainLock \notin A =>
           Untimed(A, T) \subseteq P \cup Expired(A, T, L)
  PROVE  PreventingCharged' /\ preventing' \subseteq active'
                            /\ (MainLock \in active' <=> MainLock \in A)
<1> DEFINE E == Expired(A, T, L)
<1>1. E \subseteq T /\ Untimed(A \ E, T \ E) = Untimed(A, T)
  BY ExpiredLocks
<1>2. E \cap Untimed(A, T) = {}
  BY <1>1 DEF Untimed
<1> HIDE DEF E
<1>3. active' = A \ E /\ auto_expire' = T \ E /\ preventing' = P \ E
      /\ P \ E \subseteq A \cap SuspendLocks
      /\ (MainLock \notin A => Untimed(A, T) \subseteq P \cup E)
  BY DEF E
<1>4. MainLock \in active' <=> MainLock \in A
  BY <1>1, <1>3
<1>5. preventing' \subseteq SuspendLocks /\ preventing' \subseteq active'
  BY <1>3
<1>6. MainLock \in active' => preventing' = {}
  BY <1>3, <1>4
<1>7. MainLock \notin active' =>
        Untimed(active', auto_expire') \subseteq preventing'
  BY <1>1, <1>2, <1>3, <1>4
<1>8. PreventingCharged'
  BY <1>5, <1>6, <1>7 DEF PreventingCharged
<1>9. QED
  BY <1>4, <1>5, <1>8

-----------------------------------------------------------------------------
(* Taking a lock without a timeout; other work may be queued in the step. *)
LEMMA LockUntimed ==
  ASSUME WakeLockInv, NEW l \in Locks,
         initialized' \in SUBSET Locks, initialized \subseteq initialized',
         l \in initialized', wake_lock_internal(l, FALSE, 0),
         \A v \in Works : Pending(v) => Pending(v)'
  PROVE  LockStep /\ active' = active \cup {l}
<1>1. /\ WakeLockTypeOK /\ MainLockUntimed
      /\ TimerCoversLocks /\ PreventingCharged
  BY DEF WakeLockInv
<1> DEFINE T == auto_expire \ {l}
           L == LockedLeft(l, FALSE, 0)
           P == LockedPreventing(l, T, L)
<1>2. /\ active' = active \cup {l} /\ auto_expire' = T /\ left' = L
      /\ preventing' = P /\ UNCHANGED expiring
      /\ ArmAfterLock(l, FALSE, 0)
  BY DEF wake_lock_internal, LockedTimed
<1>3. T \in SUBSET (active \cup {l}) /\ T \ {l} = auto_expire \ {l}
  BY <1>1 DEF WakeLockTypeOK
<1>4. /\ P \subseteq (active \cup {l}) \cap SuspendLocks
      /\ MainLock \in active \cup {l} => P = {}
      /\ MainLock \notin active \cup {l} =>
           Untimed(active \cup {l}, T) \subseteq P
  <2> HIDE DEF T, L
  <2>1. QED
    BY <1>1, <1>3, LockedPreventingCharged DEF P
<1> HIDE DEF P
<1>5. PreventingCharged'
  BY <1>2, <1>4 DEF PreventingCharged
<1>6. L \in [Locks -> Long]
  BY <1>1, LongMaxAssumption DEF LockedLeft, WakeLockTypeOK, Long
<1>7. \A x \in Locks \ {l} : L[x] = left[x]
  BY <1>1 DEF LockedLeft, WakeLockTypeOK
<1>8. CASE l \in SuspendLocks
  <2>1. l \in Untimed(active', auto_expire')
    BY <1>2, <1>8 DEF Untimed
  <2>2. /\ wait_for_wakeup' = FALSE /\ event' = TRUE
        /\ expire_timer' = NoTimer
    BY <1>2, <1>8 DEF ArmAfterLock, SetExpireTimer, expire_in
  <2>3. TimerCoversLocks'
    BY <2>1 DEF TimerCoversLocks
  <2>4. SuspendArmed'
    BY <2>1 DEF SuspendArmed
  <2>5. WakeLockTypeOK' /\ MainLockUntimed'
    <3>1. expire_timer' \in NoTimer .. LongMax
      BY <2>2, LongMaxAssumption DEF NoTimer
    <3>2. QED
      BY <1>1, <1>2, <1>3, <1>4, <1>6, <2>2, <3>1
      DEF WakeLockTypeOK, MainLockUntimed
  <2>6. QED
    BY <1>2, <1>5, <2>3, <2>4, <2>5 DEF LockStep, WakeLockInv
<1>9. CASE l \notin SuspendLocks
  <2>1. UNCHANGED <<wait_for_wakeup, event, expire_timer>>
    BY <1>2, <1>9 DEF ArmAfterLock
  <2>2. /\ Untimed(active', auto_expire') = Untimed(active, auto_expire)
        /\ active' \cap SuspendLocks \subseteq active
    BY <1>2, <1>9 DEF Untimed
  <2>3. \A x \in active' \cap SuspendLocks : left'[x] = left[x]
    BY <1>2, <1>7, <1>9 DEF SuspendLocks
  <2>4. TimerCoversLocks'
    BY <1>1, <1>2, <2>1, <2>2, <2>3, FewerLocksCovered
  <2>5. SuspendArmed => SuspendArmed'
    BY <1>2, <2>1, <2>2 DEF SuspendArmed, Works
  <2>6. WakeLockTypeOK' /\ MainLockUntimed'
    BY <1>1, <1>2, <1>3, <1>4, <1>6, <2>1
    DEF WakeLockTypeOK, MainLockUntimed
  <2>7. QED
    BY <1>2, <1>5, <2>1, <2>4, <2>5, <2>6 DEF LockStep, WakeLockInv
<1>10. QED
  BY <1>8, <1>9

(* Taking a lock with a timeout, which may lie in the past. *)
LEMMA LockTimed ==
  ASSUME WakeLockInv, worklist \in Seq(Works), NEW l \in Locks, l # MainLock,
         NEW t \in Long,
         initialized' \in SUBSET Locks, initialized \subseteq initialized',
         l \in initialized', wake_lock_internal(l, TRUE, t),
         QueueIfExpired(l, t)
  PROVE  /\ LockStep
         /\ worklist' \in Seq(Works)
         /\ \A v \in Works : Pending(v) => Pending(v)'
         /\ active' \subseteq active \cup {l}
         /\ MainLock \in active' <=> MainLock \in active
         /\ l \in SuspendLocks => SuspendArmed'
<1>1. /\ WakeLockTypeOK /\ MainLockUntimed
      /\ TimerCoversLocks /\ PreventingCharged
  BY DEF WakeLockInv
<1> DEFINE A == active \cup {l}
           T == auto_expire \cup {l}
           L == LockedLeft(l, TRUE, t)
           P == LockedPreventing(l, T, L)
<1>2. T \in SUBSET A /\ T \ {l} = auto_expire \ {l} /\ A \in SUBSET Locks
      /\ A \subseteq initialized' /\ MainLock \notin T
  BY <1>1 DEF WakeLockTypeOK, MainLockUntimed
<1>3. L \in [Locks -> Long] /\ \A x \in Locks \ {l} : L[x] = left[x]
  BY <1>1 DEF LockedLeft, WakeLockTypeOK
<1>4. /\ P \subseteq A \cap SuspendLocks
      /\ MainLock \in A => P = {}
      /\ MainLock \notin A => Untimed(A, T) \subseteq P
  <2> HIDE DEF T, L
  <2>1. QED
    BY <1>1, <1>2, LockedPreventingCharged DEF P
<1>5. CASE l \in SuspendLocks
  <2> DEFINE E == Expired(A, T, L)
             h == has_wake_lock_locked(A, T, L)
  <2>1. /\ active' = A \ E /\ auto_expire' = T \ E /\ preventing' = P \ E
        /\ left' = [x \in Locks |-> IF x \in E THEN 0 ELSE L[x]]
        /\ UNCHANGED expiring /\ ArmAfterLock(l, TRUE, t)
    BY <1>5 DEF wake_lock_internal, LockedTimed, ExpireLocks
  <2>2. expire_in(l, TRUE, t) = h
    BY DEF expire_in, LockedTimed
  <2>3. /\ wait_for_wakeup' = FALSE /\ event' = TRUE
        /\ expire_timer' = IF h > 0 THEN h ELSE NoTimer
        /\ worklist' = IF h = 0 THEN queue_work(worklist, "suspend")
                                ELSE worklist
    BY <1>5, <2>1, <2>2
    DEF ArmAfterLock, SetExpireTimer, QueueIfExpired, QueueSuspend
  <2> HIDE DEF A, T, L, P
  <2>4. /\ h \in -1 .. LongMax
        /\ h = -1 <=> Untimed(A \ E, T \ E) # {}
        /\ h = 0 => (A \ E) \cap SuspendLocks = {}
        /\ h > 0 => \A x \in (A \ E) \cap SuspendLocks : L[x] \in 1 .. h
    BY <1>2, <1>3, WalkResult
  <2>5. PreventingCharged' /\ preventing' \subseteq active'
        /\ (MainLock \in active' <=> MainLock \in A)
    <3>1. P \in SUBSET Locks
      BY <1>2, <1>4
    <3>2. QED
      BY <1>2, <1>3, <1>4, <2>1, <3>1, ChargedAfterWalk
  <2>6. left' \in [Locks -> Long]
    BY <1>3, <2>1, LongMaxAssumption DEF Long
  <2> HIDE DEF E, h
  <2>7. \A x \in active' \cap SuspendLocks : left'[x] = L[x]
    BY <1>2, <2>1
  <2>8. /\ expire_timer' \in NoTimer .. LongMax
        /\ worklist' \in Seq(Works)
        /\ \A v \in Works : Pending(v) => Pending(v)'
        /\ TimerCoversLocks'
        /\ SuspendArmed'
    <3>1. /\ h = -1 <=> Untimed(active', auto_expire') # {}
          /\ h = 0 => active' \cap SuspendLocks = {}
          /\ h > 0 => \A x \in active' \cap SuspendLocks : left'[x] \in 1 .. h
      BY <2>1, <2>4, <2>7
    <3>2. QED
      BY <2>3, <2>4, <3>1, ArmByResult
  <2>9. WakeLockTypeOK' /\ MainLockUntimed'
    BY <1>1, <1>2, <2>1, <2>3, <2>5, <2>6, <2>8
    DEF WakeLockTypeOK, MainLockUntimed
  <2>10. QED
    BY <2>1, <2>5, <2>8, <2>9 DEF LockStep, WakeLockInv, A
<1>6. CASE l \notin SuspendLocks
  <2>1. /\ active' = A /\ auto_expire' = T /\ left' = L /\ preventing' = P
        /\ UNCHANGED <<expiring, wait_for_wakeup, event, expire_timer>>
        /\ UNCHANGED worklist
    BY <1>6 DEF wake_lock_internal, LockedTimed, ArmAfterLock, QueueIfExpired
  <2> HIDE DEF P, L
  <2>2. /\ Untimed(active', auto_expire') = Untimed(active, auto_expire)
        /\ active' \cap SuspendLocks \subseteq active
    BY <1>6, <2>1 DEF Untimed
  <2>3. \A x \in active' \cap SuspendLocks : left'[x] = left[x]
    BY <1>3, <1>6, <2>1 DEF SuspendLocks
  <2>4. TimerCoversLocks'
    BY <1>1, <2>1, <2>2, <2>3, FewerLocksCovered
  <2>5. PreventingCharged'
    BY <1>4, <2>1 DEF PreventingCharged
  <2>6. SuspendArmed => SuspendArmed'
    BY <2>1, <2>2 DEF SuspendArmed, Pending
  <2>7. WakeLockTypeOK' /\ MainLockUntimed'
    BY <1>1, <1>2, <1>3, <1>4, <2>1 DEF WakeLockTypeOK, MainLockUntimed
  <2>8. MainLock \in active' <=> MainLock \in active
    BY <2>1
  <2>9. QED
    BY <1>6, <2>1, <2>4, <2>5, <2>6, <2>7, <2>8
    DEF LockStep, WakeLockInv, Pending
<1>7. QED
  BY <1>5, <1>6

-----------------------------------------------------------------------------
(* Releasing a lock, held or not. *)
LEMMA UnlockInv ==
  ASSUME WakeLockInv, worklist \in Seq(Works), NEW l \in Locks, wake_unlock(l)
  PROVE  /\ LockStep
         /\ worklist' \in Seq(Works)
         /\ \A v \in Works : Pending(v) => Pending(v)'
         /\ active' \subseteq active \ {l}
         /\ l # MainLock => (MainLock \in active' <=> MainLock \in active)
<1>1. /\ WakeLockTypeOK /\ MainLockUntimed
      /\ TimerCoversLocks /\ PreventingCharged
  BY DEF WakeLockInv
<1> DEFINE A == active \ {l}
           T == auto_expire \ {l}
           L == [left EXCEPT ![l] = 0]
           P == preventing \ {l}
<1>2. /\ A \in SUBSET Locks /\ T \in SUBSET A /\ P \in SUBSET A
      /\ A \subseteq initialized /\ MainLock \notin T
      /\ P \subseteq SuspendLocks /\ (MainLock \in active => P = {})
  BY <1>1 DEF WakeLockTypeOK, MainLockUntimed, PreventingCharged
<1>3. L \in [Locks -> Long] /\ \A x \in Locks \ {l} : L[x] = left[x]
  BY <1>1, LongMaxAssumption DEF WakeLockTypeOK, Long
<1>4. /\ UNCHANGED <<initialized, expiring, wait_for_wakeup, event>>
      /\ l \in initialized
  BY DEF wake_unlock
<1>5. MainLock \notin active => Untimed(A, T) \subseteq P
  BY <1>1 DEF PreventingCharged, Untimed
<1>6. CASE l \in SuspendLocks
  <2> DEFINE E == Expired(A, T, L)
             h == has_wake_lock_locked(A, T, L)
             Q == IF l = MainLock
                  THEN update_sleep_wait_stats_locked(A \ E, T \ E, L, P, FALSE)
                  ELSE P
  <2>1. /\ active' = A \ E /\ auto_expire' = T \ E /\ preventing' = Q \ E
        /\ left' = [x \in Locks |-> IF x \in E THEN 0 ELSE L[x]]
    BY <1>6 DEF wake_unlock, ExpireLocks
  <2>2. /\ expire_timer' = IF h > 0 THEN h ELSE NoTimer
        /\ worklist' = IF h = 0 THEN queue_work(worklist, "suspend")
                                ELSE worklist
    BY <1>6 DEF wake_unlock, SetExpireTimer, QueueSuspend
  <2> HIDE DEF A, T, L, P
  <2>3. /\ h \in -1 .. LongMax
        /\ h = -1 <=> Untimed(A \ E, T \ E) # {}
        /\ h = 0 => (A \ E) \cap SuspendLocks = {}
        /\ h > 0 => \A x \in (A \ E) \cap SuspendLocks : L[x] \in 1 .. h
    BY <1>2, <1>3, WalkResult
  <2>4. /\ Q \subseteq A \cap SuspendLocks
        /\ MainLock \in A => Q = {}
        /\ MainLock \notin A => Untimed(A, T) \subseteq Q \cup E
    <3> HIDE DEF E
    <3>1. CASE l = MainLock
      <4>1. Q = (P \ ((A \ E) \cap SuspendLocks)) \cup
                {x \in (A \ E) \cap SuspendLocks : ~(x \in T \ E /\ L[x] <= 0)}
        BY <3>1 DEF update_sleep_wait_stats_locked
      <4>2. MainLock \notin A
        BY <3>1 DEF A
      <4>3. Q \subseteq A \cap SuspendLocks
        BY <1>2, <4>1
      <4>4. Untimed(A, T) \subseteq Q \cup E
        BY <4>1 DEF Untimed
      <4>5. QED
        BY <4>2, <4>3, <4>4
    <3>2. CASE l # MainLock
      <4>1. Q = P /\ (MainLock \in A <=> MainLock \in active)
        BY <3>2 DEF A
      <4>2. QED
        BY <1>2, <1>5, <4>1
    <3>3. QED
      BY <3>1, <3>2
  <2> HIDE DEF Q
  <2>5. PreventingCharged' /\ preventing' \subseteq active'
        /\ (MainLock \in active' <=> MainLock \in A)
    <3>1. Q \in SUBSET Locks /\ Q \ E \subseteq A \cap SuspendLocks
      BY <1>2, <2>4
    <3>2. QED
      BY <1>2, <1>3, <2>1, <2>4, <3>1, ChargedAfterWalk
  <2>6. left' \in [Locks -> Long]
    BY <1>3, <2>1, LongMaxAssumption DEF Long
  <2> HIDE DEF E, h
  <2>7. \A x \in active' \cap SuspendLocks : left'[x] = L[x]
    BY <1>2, <2>1
  <2>8. /\ expire_timer' \in NoTimer .. LongMax
        /\ worklist' \in Seq(Works)
        /\ \A v \in Works : Pending(v) => Pending(v)'
        /\ TimerCoversLocks'
        /\ SuspendArmed'
    <3>1. /\ h = -1 <=> Untimed(active', auto_expire') # {}
          /\ h = 0 => active' \cap SuspendLocks = {}
          /\ h > 0 => \A x \in active' \cap SuspendLocks : left'[x] \in 1 .. h
      BY <2>1, <2>3, <2>7
    <3>2. QED
      BY <2>2, <2>3, <3>1, ArmByResult
  <2>9. WakeLockTypeOK' /\ MainLockUntimed'
    BY <1>1, <1>2, <1>4, <2>1, <2>5, <2>6, <2>8
    DEF WakeLockTypeOK, MainLockUntimed
  <2>10. QED
    BY <2>1, <2>5, <2>8, <2>9 DEF LockStep, WakeLockInv, A
<1>7. CASE l \notin SuspendLocks
  <2>1. /\ active' = A /\ auto_expire' = T /\ left' = L /\ preventing' = P
        /\ UNCHANGED <<expire_timer, worklist>>
    BY <1>7 DEF wake_unlock
  <2> HIDE DEF L
  <2>2. /\ Untimed(active', auto_expire') = Untimed(active, auto_expire)
        /\ active' \cap SuspendLocks \subseteq active
    BY <1>7, <2>1 DEF Untimed
  <2>3. \A x \in active' \cap SuspendLocks : left'[x] = left[x]
    BY <1>3, <1>7, <2>1 DEF SuspendLocks
  <2>4. TimerCoversLocks'
    BY <1>1, <1>4, <2>1, <2>2, <2>3, FewerLocksCovered
  <2>5. MainLock \in active' <=> MainLock \in active
    BY <1>7, <2>1, LocksAssumption
  <2>6. PreventingCharged'
    BY <1>2, <1>5, <2>1, <2>5 DEF PreventingCharged
  <2>7. SuspendArmed => SuspendArmed'
    BY <1>4, <2>1, <2>2 DEF SuspendArmed, Pending
  <2>8. WakeLockTypeOK' /\ MainLockUntimed'
    BY <1>1, <1>2, <1>3, <1>4, <2>1 DEF WakeLockTypeOK, MainLockUntimed
  <2>9. QED
    BY <1>4, <2>1, <2>4, <2>5, <2>6, <2>7, <2>8
    DEF LockStep, WakeLockInv, Pending
<1>8. QED
  BY <1>6, <1>7

(* Creating a lock. *)
LEMMA CreateLockInv ==
  ASSUME WakeLockInv, NEW l \in Locks, wake_lock_init(l), UNCHANGED worklist
  PROVE  LockStep /\ UNCHANGED active
<1>1. /\ initialized' = initialized \cup {l}
      /\ UNCHANGED <<active, auto_expire, left, preventing, expire_timer,
                     expiring, wait_for_wakeup, event>>
  BY DEF wake_lock_init
<1>2. WakeLockTypeOK' /\ MainLockUntimed'
  BY <1>1 DEF WakeLockInv, WakeLockTypeOK, MainLockUntimed
<1>3. TimerCoversLocks' /\ PreventingCharged'
  BY <1>1 DEF WakeLockInv, TimerCoversLocks, PreventingCharged, Untimed
<1>4. SuspendArmed => SuspendArmed'
  BY <1>1 DEF SuspendArmed, Pending, Untimed
<1>5. QED
  BY <1>1, <1>2, <1>3, <1>4 DEF LockStep, WakeLockInv

(* Destroying a lock, which must not be held without a timeout. *)
LEMMA DestroyLockInv ==
  ASSUME WakeLockInv, NEW l \in Locks \ {MainLock, UnknownWakeup},
         l \notin Untimed(active, auto_expire), wake_lock_destroy(l),
         UNCHANGED worklist
  PROVE  LockStep /\ active' = active \ {l}
<1>1. /\ WakeLockTypeOK /\ MainLockUntimed
      /\ TimerCoversLocks /\ PreventingCharged
  BY DEF WakeLockInv
<1>2. /\ initialized' = initialized \ {l} /\ active' = active \ {l}
      /\ auto_expire' = auto_expire \ {l} /\ preventing' = preventing \ {l}
      /\ left' = [left EXCEPT ![l] = 0]
      /\ UNCHANGED <<expire_timer, expiring, wait_for_wakeup, event>>
  BY DEF wake_lock_destroy
<1>3. left' \in [Locks -> Long] /\ \A x \in Locks \ {l} : left'[x] = left[x]
  BY <1>1, <1>2, LongMaxAssumption DEF WakeLockTypeOK, Long
<1>4. WakeLockTypeOK' /\ MainLockUntimed'
  BY <1>1, <1>2, <1>3 DEF WakeLockTypeOK, MainLockUntimed
<1>5. Untimed(active', auto_expire') = Untimed(active, auto_expire)
  BY <1>2 DEF Untimed
<1>6. TimerCoversLocks'
  <2>1. /\ active' \cap SuspendLocks \subseteq active
        /\ \A x \in active' \cap SuspendLocks : left'[x] = left[x]
    BY <1>2, <1>3 DEF SuspendLocks
  <2>2. QED
    BY <1>1, <1>2, <1>5, <2>1, FewerLocksCovered
<1>7. PreventingCharged'
  BY <1>1, <1>2, <1>5 DEF PreventingCharged
<1>8. SuspendArmed => SuspendArmed'
  BY <1>2, <1>5 DEF SuspendArmed, Pending
<1>9. QED
  BY <1>2, <1>4, <1>6, <1>7, <1>8 DEF LockStep, WakeLockInv

-----------------------------------------------------------------------------
(* The timer is taken off its queue. *)
LEMMA TimerDueInv ==
  ASSUME WakeLockInv, run_timers
  PROVE  LockStep /\ UNCHANGED <<active, worklist, pc>>
<1>1. /\ expire_timer = 0 /\ ~expiring /\ expire_timer' = NoTimer
      /\ expiring' = TRUE
      /\ UNCHANGED <<initialized, active, auto_expire, left, preventing,
                     wait_for_wakeup, event, worklist, pc>>
  BY DEF run_timers, wqVars
<1>2. WakeLockTypeOK' /\ MainLockUntimed'
  <2>1. expire_timer' \in NoTimer .. LongMax
    BY <1>1, LongMaxAssumption DEF NoTimer
  <2>2. QED
    BY <1>1, <2>1 DEF WakeLockInv, WakeLockTypeOK, MainLockUntimed
<1>3. PreventingCharged'
  BY <1>1 DEF WakeLockInv, PreventingCharged, Untimed
<1>4. TimerCoversLocks'
  <2>1. Untimed(active, auto_expire) = {} =>
          \A l \in active \cap SuspendLocks : ~(left[l] > 0)
    BY <1>1 DEF WakeLockInv, WakeLockTypeOK, TimerCoversLocks, Long,
                SuspendLocks
  <2>2. (TimerCoversLocks)' =
          (Untimed(active, auto_expire) = {} =>
             /\ (expire_timer' = NoTimer /\ ~expiring') =>
                  active \cap SuspendLocks = {}
             /\ \A l \in active \cap SuspendLocks :
                  /\ left[l] > 0 => left[l] <= expire_timer'
                  /\ expire_timer' > 0 => left[l] >= expire_timer' - LongMax)
    BY <1>1 DEF TimerCoversLocks
  <2>3. ~(expire_timer' > 0)
    BY <1>1 DEF NoTimer
  <2>4. QED
    BY <1>1, <2>1, <2>2, <2>3
<1>5. SuspendArmed'
  BY <1>1 DEF SuspendArmed
<1>6. QED
  BY <1>1, <1>2, <1>3, <1>4, <1>5 DEF LockStep, WakeLockInv

(* The timer's function: the walk, and suspend_work if nothing is held. *)
LEMMA ExpireInv ==
  ASSUME WakeLockInv, worklist \in Seq(Works), expire_wake_locks
  PROVE  /\ LockStep
         /\ worklist' \in Seq(Works)
         /\ \A v \in Works : Pending(v) => Pending(v)'
         /\ active' \subseteq active
         /\ MainLock \in active' <=> MainLock \in active
<1> DEFINE h == has_wake_lock_locked(active, auto_expire, left)
           E == Expired(active, auto_expire, left)
<1>1. /\ WakeLockTypeOK /\ MainLockUntimed
      /\ TimerCoversLocks /\ PreventingCharged
  BY DEF WakeLockInv
<1>2. /\ active \in SUBSET Locks /\ auto_expire \in SUBSET active
      /\ left \in [Locks -> Long] /\ preventing \in SUBSET Locks
      /\ expire_timer \in NoTimer .. LongMax
      /\ MainLock \notin auto_expire
      /\ preventing \subseteq active \cap SuspendLocks
      /\ MainLock \in active => preventing = {}
      /\ MainLock \notin active =>
           Untimed(active, auto_expire) \subseteq preventing
  BY <1>1 DEF WakeLockTypeOK, MainLockUntimed, PreventingCharged
<1>3. /\ expiring' = FALSE /\ active' = active \ E
      /\ auto_expire' = auto_expire \ E
      /\ preventing' = preventing \ E
      /\ left' = [l \in Locks |-> IF l \in E THEN 0 ELSE left[l]]
      /\ worklist' = IF h = 0 THEN queue_work(worklist, "suspend")
                              ELSE worklist
      /\ UNCHANGED <<initialized, expire_timer, wait_for_wakeup, event>>
  BY DEF expire_wake_locks, ExpireLocks, QueueSuspend, has_wake_lock
<1>4. /\ h \in -1 .. LongMax
      /\ h = -1 <=> Untimed(active, auto_expire) # {}
      /\ h > 0 => \E l \in active \cap SuspendLocks : left[l] = h
  BY <1>2, HasWakeLockValue
<1>5. /\ Untimed(active \ E, auto_expire \ E) = Untimed(active, auto_expire)
      /\ left' \in [Locks -> Long]
  BY <1>2, <1>3, ExpiredLocks
<1>6. h = 0 => active' \cap SuspendLocks = {}
  BY <1>2, <1>3, WalkResult
<1>7. PreventingCharged' /\ preventing' \subseteq active'
      /\ (MainLock \in active' <=> MainLock \in active)
  <2>1. /\ preventing \ E \subseteq active \cap SuspendLocks
        /\ MainLock \notin active =>
             Untimed(active, auto_expire) \subseteq preventing \cup E
    BY <1>2
  <2>2. QED
    BY <1>2, <1>3, <2>1, ChargedAfterWalk
<1> HIDE DEF E, h
<1>8. WakeLockTypeOK' /\ MainLockUntimed'
  BY <1>1, <1>2, <1>3, <1>5, <1>7 DEF WakeLockTypeOK, MainLockUntimed
<1>9. h > 0 => expire_timer # NoTimer
  <2>1. h > 0 => h <= expire_timer
    BY <1>1, <1>4 DEF TimerCoversLocks
  <2>2. QED
    BY <1>2, <1>4, <2>1 DEF NoTimer
<1>10. TimerCoversLocks'
  <2>1. (TimerCoversLocks)' =
          (Untimed(active', auto_expire') = {} =>
             /\ (expire_timer' = NoTimer /\ ~expiring') =>
                  active' \cap SuspendLocks = {}
             /\ \A l \in active' \cap SuspendLocks :
                  /\ left'[l] > 0 => left'[l] <= expire_timer'
                  /\ expire_timer' > 0 => left'[l] >= expire_timer' - LongMax)
    BY DEF TimerCoversLocks
  <2>2. \A l \in active' \cap SuspendLocks :
          l \in active \cap SuspendLocks /\ left'[l] = left[l]
    BY <1>2, <1>3
  <2>3. h = -1 \/ h = 0 \/ h > 0
    BY <1>4
  <2>4. Untimed(active', auto_expire') = {} => h = 0 \/ h > 0
    BY <1>3, <1>4, <1>5, <2>3
  <2>5. QED
    BY <1>1, <1>3, <1>5, <1>6, <1>9, <2>1, <2>2, <2>4 DEF TimerCoversLocks
<1>11. /\ worklist' \in Seq(Works)
       /\ \A v \in Works : Pending(v) => Pending(v)'
       /\ h = 0 => Pending("suspend")'
  <2>1. CASE h = 0
    BY <1>3, <2>1, QueueWorkPending DEF Works
  <2>2. CASE h # 0
    BY <1>3, <2>2 DEF Pending
  <2>3. QED
    BY <2>1, <2>2
<1>12. SuspendArmed'
  <2>1. h = -1 \/ h = 0 \/ h > 0
    BY <1>4
  <2>2. QED
    BY <1>3, <1>4, <1>5, <1>9, <1>11, <2>1 DEF SuspendArmed
<1>13. QED
  BY <1>3, <1>7, <1>8, <1>10, <1>11, <1>12 DEF LockStep, WakeLockInv

(* A tick: no timeout the timer still covers wraps around. *)
LEMMA TickInv ==
  ASSUME WakeLockInv, Tick
  PROVE  LockStep /\ UNCHANGED <<active, worklist, pc>>
<1>1. /\ WakeLockTypeOK /\ MainLockUntimed
      /\ TimerCoversLocks /\ PreventingCharged
  BY DEF WakeLockInv
<1>2. /\ (expire_timer = 0 \/ expiring) =>
            \A l \in auto_expire : left[l] > -LongMax - 1
      /\ left' = [l \in Locks |->
                    IF l \notin auto_expire THEN left[l]
                    ELSE IF left[l] = -LongMax - 1 THEN LongMax
                    ELSE left[l] - 1]
      /\ expire_timer' = IF expire_timer > 0 THEN expire_timer - 1
                                             ELSE expire_timer
      /\ UNCHANGED <<initialized, active, auto_expire, preventing, expiring,
                     wait_for_wakeup, event, worklist, pc>>
  BY DEF Tick, wqVars
<1>3. left \in [Locks -> Long] /\ active \subseteq Locks
      /\ expire_timer \in NoTimer .. LongMax
  BY <1>1 DEF WakeLockTypeOK
<1>4. left' \in [Locks -> Long]
  BY <1>2, <1>3, LongMaxAssumption DEF Long
<1>5. expire_timer' \in NoTimer .. LongMax
      /\ (expire_timer = NoTimer <=> expire_timer' = NoTimer)
  BY <1>2, <1>3, LongMaxAssumption DEF NoTimer
<1>6. WakeLockTypeOK' /\ MainLockUntimed'
  BY <1>1, <1>2, <1>4, <1>5 DEF WakeLockTypeOK, MainLockUntimed
<1>7. PreventingCharged'
  BY <1>1, <1>2 DEF PreventingCharged, Untimed
<1>8. SuspendArmed => SuspendArmed'
  BY <1>2, <1>5 DEF SuspendArmed, Pending, Untimed
<1>9. TimerCoversLocks'
  <2>1. (TimerCoversLocks)' =
          (Untimed(active, auto_expire) = {} =>
             /\ (expire_timer' = NoTimer /\ ~expiring) =>
                  active \cap SuspendLocks = {}
             /\ \A l \in active \cap SuspendLocks :
                  /\ left'[l] > 0 => left'[l] <= expire_timer'
                  /\ expire_timer' > 0 => left'[l] >= expire_timer' - LongMax)
    BY <1>2 DEF TimerCoversLocks
  <2>2. SUFFICES ASSUME Untimed(active, auto_expire) = {},
                        NEW l \in active \cap SuspendLocks
                 PROVE  /\ left'[l] > 0 => left'[l] <= expire_timer'
                        /\ expire_timer' > 0 => left'[l] >= expire_timer' - LongMax
    BY <1>1, <1>5, <2>1 DEF TimerCoversLocks
  <2>3. l \in auto_expire /\ l \in Locks
    BY <1>3, <2>2 DEF Untimed
  <2>4. /\ left[l] > 0 => left[l] <= expire_timer
        /\ expire_timer > 0 => left[l] >= expire_timer - LongMax
        /\ expire_timer # NoTimer \/ expiring
    BY <1>1, <2>2 DEF TimerCoversLocks
  <2>5. left[l] \in Int /\ expire_timer \in Int
    BY <1>3, <2>3, LongMaxAssumption DEF Long, NoTimer
  <2>6. left[l] # -LongMax - 1
    <3>1. CASE expire_timer > 0
      BY <2>4, <2>5, <3>1, LongMaxAssumption
    <3>2. CASE expire_timer = 0 \/ expiring
      BY <1>2, <2>3, <2>5, <3>2, LongMaxAssumption
    <3>3. QED
      BY <1>3, <2>4, <3>1, <3>2, LongMaxAssumption DEF NoTimer
  <2>7. left'[l] = left[l] - 1
    BY <1>2, <2>3, <2>6
  <2>8. QED
    BY <1>2, <1>3, <2>4, <2>5, <2>7, LongMaxAssumption DEF NoTimer
<1>10. QED
  BY <1>2, <1>6, <1>7, <1>8, <1>9 DEF LockStep, WakeLockInv

(* wakelocks_init leaves the main lock held and nothing else. *)
LEMMA WakeLockInitInv ==
  ASSUME wakelocks_init
  PROVE  WakeLockInv /\ SuspendArmed /\ active = {MainLock}
<1>1. MainLock \in Untimed(active, auto_expire)
  BY LocksAssumption DEF wakelocks_init, Untimed
<1>2. WakeLockTypeOK /\ MainLockUntimed
  <2>1. expire_timer \in NoTimer .. LongMax /\ left \in [Locks -> Long]
    BY LongMaxAssumption DEF wakelocks_init, NoTimer, Long
  <2>2. QED
    BY <2>1, LocksAssumption
    DEF wakelocks_init, WakeLockTypeOK, MainLockUntimed, SuspendLocks
<1>3. TimerCoversLocks
  BY <1>1 DEF TimerCoversLocks
<1>4. PreventingCharged
  BY DEF wakelocks_init, PreventingCharged
<1>5. QED
  BY <1>1, <1>2, <1>3, <1>4 DEF wakelocks_init, WakeLockInv, SuspendArmed

-----------------------------------------------------------------------------
(* The power manager.                                                      *)

(* The labels of the worker are strings, all different. *)
USE DEF SuspendLabels, EarlyLabels, Works

(* A timeout written by user space is stored as a long. *)
LEMMA JiffiesTimeoutLong ==
  ASSUME NEW nsec \in UserTimeouts \cup {NoTimeout}
  PROVE  lookup_timeout(nsec) \in Long
<1>1. \A n \in Int : ToLong(n) \in Long
  <2> SUFFICES ASSUME NEW n \in Int PROVE ToLong(n) \in Long
    OBVIOUS
  <2>1. n % (2 * LongMax + 2) \in 0 .. (2 * LongMax + 1)
    BY LongMaxAssumption
  <2>2. QED
    BY <2>1, LongMaxAssumption DEF ToLong, Long
<1>2. CASE nsec = NoTimeout
  BY <1>2, LongMaxAssumption DEF lookup_timeout, Long
<1>3. CASE nsec # NoTimeout
  <2>1. nsec \in Nat /\ NsecPerJiffy \in Nat \ {0} /\ U64Max + 1 \in Nat \ {0}
    BY <1>3, UserTimeoutsAssumption
  <2> DEFINE s == (nsec + NsecPerJiffy - 1) % (U64Max + 1)
             j == s \div NsecPerJiffy
  <2>2. s \in Int
    BY <2>1
  <2> HIDE DEF s
  <2>3. j \in Int
    BY <2>1, <2>2
  <2>4. jiffies_timeout(nsec) = ToLong(IF j <= 0 THEN 1 ELSE j)
    BY DEF jiffies_timeout, s
  <2> HIDE DEF j
  <2>5. QED
    BY <1>1, <1>3, <2>3, <2>4 DEF lookup_timeout
<1>4. QED
  BY <1>2, <1>3

-----------------------------------------------------------------------------
(* What is shown of every step: the invariant holds again, and the step is *)
(* one of the contract.                                                    *)
ContractStep == [Contract!Next]_(Contract!vars)

SafeStep == IInv' /\ ContractStep

(* Where the locks and the worker are all that changes, the contract knows *)
(* four cases.                                                             *)
LEMMA KeepsContract ==
  ASSUME IInv, UNCHANGED state,
         MainLock \in active' <=> MainLock \in active,
         pc = "asleep" \/ pc' = "asleep" => UNCHANGED active,
         pc' = "asleep" => pc \in {"late", "asleep"}
  PROVE  ContractStep
<1> USE DEF ContractStep, Contract!Next, Contract!vars
<1>1. CASE pc = "asleep" /\ pc' = "asleep"
  BY <1>1
<1>2. CASE pc # "asleep" /\ pc' # "asleep"
  <2>1. (MainLock \in active \cap SuspendLocks)' <=>
          MainLock \in active \cap SuspendLocks
    BY LocksAssumption
  <2>2. Contract!ChangeLocks
    BY <1>2, <2>1 DEF Contract!ChangeLocks
  <2>3. QED
    BY <2>2
<1>3. CASE pc = "asleep" /\ pc' # "asleep"
  BY <1>3 DEF Contract!Wake
<1>4. CASE pc # "asleep" /\ pc' = "asleep"
  <2>1. active \cap SuspendLocks \subseteq LateLocks
    BY <1>4 DEF IInv, LateUnlocked
  <2>2. MainLock \notin active
    BY <2>1, LocksAssumption, DriverLocksAssumption
  <2>3. REQUESTED \in state /\ SUSPENDED \in state
    BY <2>2 DEF IInv, MainLockState, REQUESTED_AND_SUSPENDED
  <2>4. Contract!Sleep
    BY <1>4, <2>1, <2>3 DEF Contract!Sleep
  <2>5. QED
    BY <2>4
<1>5. QED
  BY <1>1, <1>2, <1>3, <1>4

(* Steps that touch neither the handlers nor the requested state: the      *)
(* worker inside suspend(), or everybody else around it.                   *)
LEMMA KeepsRequests ==
  ASSUME IInv, UNCHANGED <<earlyVars, requested_suspend_state>>,
         \/ pc' = pc
         \/ pc \in SuspendLabels /\ pc' \in SuspendLabels \cup {"idle"},
         WakeLockInv', ret' \in BOOLEAN, g_wkup_wkst' \in BOOLEAN,
         worklist' \in Seq(Works),
         \A v \in Works : Pending(v) => Pending(v)',
         MainLock \in active' <=> MainLock \in active,
         pc = "asleep" \/ pc' = "asleep" => UNCHANGED active,
         pc' = "asleep" => pc \in {"late", "asleep"},
         LateUnlocked', SuspendReArms'
  PROVE  SafeStep
<1>1. /\ TypeOK /\ HandlersSorted /\ HandlersCalled /\ MainLockState
      /\ NoLostRequest
  BY DEF IInv
<1>2. UNCHANGED <<state, handlers, pos, off>>
  BY DEF earlyVars
<1>3. TypeOK'
  BY <1>1, <1>2
  DEF TypeOK, WakeLockInv, SystemSuspendTypeOK, EarlySuspendTypeOK, Registered
<1>4. HandlersSorted'
  BY <1>1, <1>2 DEF HandlersSorted
<1>5. HandlersCalled'
  BY <1>1, <1>2
  DEF HandlersCalled, HandlersMatchState, MutexFree, Registered
<1>6. MainLockState'
  BY <1>1, <1>2 DEF MainLockState
<1>7. NoLostRequest'
  BY <1>1, <1>2 DEF NoLostRequest
<1>8. IInv'
  BY <1>3, <1>4, <1>5, <1>6, <1>7 DEF IInv
<1>9. QED
  BY <1>2, <1>8, KeepsContract DEF SafeStep

(* An operation on locks beside the worker. *)
LEMMA LockOperation ==
  ASSUME IInv, UNCHANGED <<pc, suspendVars, earlyVars>>, LockStep,
         worklist' \in Seq(Works),
         \A v \in Works : Pending(v) => Pending(v)',
         MainLock \in active' <=> MainLock \in active,
         pc # "asleep",
         pc = "late" => active' \cap SuspendLocks \subseteq LateLocks
  PROVE  SafeStep
<1>1. SuspendReArms /\ TypeOK
  BY DEF IInv
<1>2. UNCHANGED <<ret, g_wkup_wkst, requested_suspend_state>>
  BY DEF suspendVars
<1>3. SuspendReArms'
  BY <1>1 DEF SuspendReArms, LockStep
<1>4. LateUnlocked'
  BY DEF LateUnlocked
<1>5. QED
  BY <1>1, <1>2, <1>3, <1>4, KeepsRequests
  DEF LockStep, TypeOK, SystemSuspendTypeOK

-----------------------------------------------------------------------------
(* The clock and the timer. *)
LEMMA ClockInv == IInv /\ Clock => SafeStep
<1> SUFFICES ASSUME IInv, Clock PROVE SafeStep
  OBVIOUS
<1>1. /\ pc # "asleep" /\ Tick /\ UNCHANGED <<suspendVars, earlyVars>>
      /\ WakeLockInv /\ worklist \in Seq(Works) /\ LateUnlocked
  BY DEF Clock, KernelRuns, IInv, TypeOK
<1>2. LockStep /\ UNCHANGED <<active, worklist, pc>>
  BY <1>1, TickInv
<1>3. QED
  BY <1>1, <1>2, LockOperation DEF LateUnlocked, Pending

LEMMA TimerDueStep == IInv /\ TimerDue => SafeStep
<1> SUFFICES ASSUME IInv, TimerDue PROVE SafeStep
  OBVIOUS
<1>1. /\ pc # "asleep" /\ run_timers /\ UNCHANGED <<suspendVars, earlyVars>>
      /\ WakeLockInv /\ worklist \in Seq(Works) /\ LateUnlocked
  BY DEF TimerDue, KernelRuns, IInv, TypeOK
<1>2. LockStep /\ UNCHANGED <<active, worklist, pc>>
  BY <1>1, TimerDueInv
<1>3. QED
  BY <1>1, <1>2, LockOperation DEF LateUnlocked, Pending

LEMMA TimerRunsInv == IInv /\ TimerRuns => SafeStep
<1> SUFFICES ASSUME IInv, TimerRuns PROVE SafeStep
  OBVIOUS
<1>1. /\ pc # "asleep" /\ expire_wake_locks
      /\ UNCHANGED <<suspendVars, earlyVars>>
      /\ WakeLockInv /\ worklist \in Seq(Works) /\ LateUnlocked
  BY DEF TimerRuns, KernelRuns, IInv, TypeOK
<1>2. UNCHANGED pc
  BY <1>1 DEF expire_wake_locks
<1>3. /\ LockStep
      /\ worklist' \in Seq(Works)
      /\ \A v \in Works : Pending(v) => Pending(v)'
      /\ active' \subseteq active
      /\ MainLock \in active' <=> MainLock \in active
  BY <1>1, ExpireInv
<1>4. QED
  BY <1>1, <1>2, <1>3, LockOperation DEF LateUnlocked

-----------------------------------------------------------------------------
(* The drivers. *)
LEMMA UseLockInv ==
  ASSUME IInv, NEW l \in Locks \ {MainLock, UnknownWakeup}, UseLock(l),
         UNCHANGED <<pc, suspendVars, earlyVars>>,
         pc # "asleep", l \in LateLocks \/ pc # "late"
  PROVE  SafeStep
<1>1. WakeLockInv /\ worklist \in Seq(Works) /\ LateUnlocked
      /\ initialized \in SUBSET Locks
  BY DEF IInv, TypeOK, WakeLockTypeOK
<1>2. /\ LockStep
      /\ worklist' \in Seq(Works)
      /\ \A v \in Works : Pending(v) => Pending(v)'
      /\ active' \subseteq active \cup {l}
      /\ MainLock \in active' <=> MainLock \in active
  <2>1. CASE wake_lock(l) /\ UNCHANGED worklist
    <3>1. /\ l \in initialized /\ wake_lock_internal(l, FALSE, 0)
          /\ UNCHANGED <<initialized, worklist>>
      BY <2>1 DEF wake_lock
    <3>2. LockStep /\ active' = active \cup {l}
      BY <1>1, <3>1, LockUntimed DEF Pending
    <3>3. QED
      BY <1>1, <3>1, <3>2 DEF Pending
  <2>2. ASSUME NEW timeout \in DriverTimeouts, wake_lock_timeout(l, timeout)
        PROVE  <1>2!1 /\ <1>2!2 /\ <1>2!3 /\ <1>2!4 /\ <1>2!5
    <3>1. /\ l \in initialized /\ wake_lock_internal(l, TRUE, timeout)
          /\ QueueIfExpired(l, timeout) /\ UNCHANGED initialized
      BY <2>2 DEF wake_lock_timeout
    <3>2. timeout \in Long
      BY DriverLocksAssumption
    <3>3. QED
      BY <1>1, <3>1, <3>2, LockTimed
  <2>3. CASE wake_unlock(l)
    BY <1>1, <2>3, UnlockInv
  <2>4. QED
    BY <2>1, <2>2, <2>3 DEF UseLock
<1>3. QED
  BY <1>1, <1>2, LockOperation DEF LateUnlocked

LEMMA DriverInterruptInv == IInv /\ DriverInterrupt => SafeStep
<1> SUFFICES ASSUME IInv, DriverInterrupt PROVE SafeStep
  OBVIOUS
<1>1. PICK l \in DriverLocks : UseLock(l)
  BY DEF DriverInterrupt
<1>2. pc \notin {"late", "asleep"} /\ UNCHANGED <<pc, suspendVars, earlyVars>>
  BY DEF DriverInterrupt, DriversRun
<1>3. QED
  BY <1>1, <1>2, UseLockInv, DriverLocksAssumption

LEMMA LateDriverInv == IInv /\ LateDriver => SafeStep
<1> SUFFICES ASSUME IInv, LateDriver PROVE SafeStep
  OBVIOUS
<1>1. PICK l \in LateLocks : UseLock(l)
  BY DEF LateDriver
<1>2. pc # "asleep" /\ UNCHANGED <<pc, suspendVars, earlyVars>>
  BY DEF LateDriver, KernelRuns
<1>3. QED
  BY <1>1, <1>2, UseLockInv, DriverLocksAssumption

LEMMA CreateOrDestroyLockInv == IInv /\ CreateOrDestroyLock => SafeStep
<1> SUFFICES ASSUME IInv, CreateOrDestroyLock PROVE SafeStep
  OBVIOUS
<1>1. WakeLockInv /\ worklist \in Seq(Works)
  BY DEF IInv, TypeOK
<1>2. PICK l \in DriverLocks \cup LateLocks :
        \/ wake_lock_init(l)
        \/ l \notin Untimed(active, auto_expire) /\ wake_lock_destroy(l)
  BY DEF CreateOrDestroyLock
<1>3. /\ UNCHANGED <<worklist, pc, suspendVars, earlyVars>>
      /\ pc \notin {"late", "asleep"}
  BY DEF CreateOrDestroyLock, TasksRun, wqVars
<1>4. l \in Locks \ {MainLock, UnknownWakeup}
  BY DriverLocksAssumption
<1>5. LockStep /\ active' \subseteq active
      /\ (MainLock \in active' <=> MainLock \in active)
  BY <1>1, <1>2, <1>3, <1>4, CreateLockInv, DestroyLockInv
<1>6. QED
  BY <1>1, <1>3, <1>5, LockOperation DEF Pending

(* User space writing to /sys/power/wake_lock and wake_unlock. *)
LEMMA WriteWakeLockInv == IInv /\ WriteWakeLock => SafeStep
<1> SUFFICES ASSUME IInv, WriteWakeLock PROVE SafeStep
  OBVIOUS
<1>1. WakeLockInv /\ worklist \in Seq(Works) /\ initialized \in SUBSET Locks
  BY DEF IInv, TypeOK, WakeLockTypeOK
<1>2. PICK l \in UserLocks :
        \/ \E nsec \in UserTimeouts \cup {NoTimeout} : wake_lock_store(l, nsec)
        \/ wake_unlock_store(l)
  BY DEF WriteWakeLock
<1>3. UNCHANGED <<pc, suspendVars, earlyVars>> /\ pc \notin {"late", "asleep"}
  BY DEF WriteWakeLock, TasksRun
<1>4. l \in Locks /\ l # MainLock
  BY UserLocksAssumption DEF SuspendLocks
<1>5. /\ LockStep
      /\ worklist' \in Seq(Works)
      /\ \A v \in Works : Pending(v) => Pending(v)'
      /\ MainLock \in active' <=> MainLock \in active
  <2>1. ASSUME NEW nsec \in UserTimeouts \cup {NoTimeout},
               wake_lock_store(l, nsec)
        PROVE  <1>5!1 /\ <1>5!2 /\ <1>5!3 /\ <1>5!4
    <3> DEFINE timeout == lookup_timeout(nsec)
    <3>1. /\ initialized' = initialized \cup {l}
          /\ wake_lock_internal(l, timeout # 0, timeout)
          /\ IF timeout # 0 THEN QueueIfExpired(l, timeout)
                            ELSE UNCHANGED worklist
      BY <2>1 DEF wake_lock_store
    <3>2. timeout \in Long
      BY JiffiesTimeoutLong
    <3> HIDE DEF timeout
    <3>3. CASE timeout # 0
      <4>1. wake_lock_internal(l, TRUE, timeout) /\ QueueIfExpired(l, timeout)
        BY <3>1, <3>3
      <4>2. initialized' \in SUBSET Locks
        BY <1>1, <1>4, <3>1
      <4>3. QED
        BY <1>1, <1>4, <3>1, <3>2, <4>1, <4>2, LockTimed
    <3>4. CASE timeout = 0
      <4>1. wake_lock_internal(l, FALSE, 0) /\ UNCHANGED worklist
        BY <3>1, <3>4
      <4>2. LockStep /\ active' = active \cup {l}
        BY <1>1, <1>4, <3>1, <4>1, LockUntimed DEF Pending
      <4>3. QED
        BY <1>1, <1>4, <4>1, <4>2 DEF Pending
    <3>5. QED
      BY <3>3, <3>4
  <2>2. CASE wake_unlock_store(l)
    BY <1>1, <1>4, <2>2, UnlockInv DEF wake_unlock_store
  <2>3. QED
    BY <1>2, <2>1, <2>2
<1>6. QED
  BY <1>3, <1>5, LockOperation

-----------------------------------------------------------------------------
(* The worker inside suspend().  Three kinds of steps: those that leave    *)
(* the locks alone, those that walk the list, and those that hold a lock   *)
(* for a while.                                                            *)

LEMMA SuspendMoves ==
  ASSUME IInv, UNCHANGED <<wlVars, worklist, requested_suspend_state, earlyVars>>,
         pc \in SuspendLabels, pc' \in SuspendLabels \cup {"idle"},
         ret' \in BOOLEAN, g_wkup_wkst' \in BOOLEAN,
         pc' \in {"late", "asleep"} => pc \in {"late", "asleep"},
         SuspendReArms'
  PROVE  SafeStep
<1>1. UNCHANGED <<initialized, active, auto_expire, left, preventing,
                  expire_timer, expiring, wait_for_wakeup, event>>
  BY DEF wlVars
<1>2. WakeLockInv' /\ worklist' \in Seq(Works)
  BY <1>1 DEF IInv, TypeOK, WakeLockInv, WakeLockTypeOK, MainLockUntimed,
              TimerCoversLocks, PreventingCharged, Untimed
<1>3. LateUnlocked'
  BY <1>1 DEF IInv, LateUnlocked
<1>4. QED
  BY <1>1, <1>2, <1>3, KeepsRequests DEF Pending

(* Between its entry and its end suspend() relies on the event count. *)
LEMMA ReArmsUnchanged ==
  ASSUME IInv, UNCHANGED <<wlVars, worklist>>,
         pc \in SuspendLabels \ {"suspend", "entry", "no_event"},
         pc' \in SuspendLabels
  PROVE  SuspendReArms'
BY DEF IInv, SuspendReArms, SuspendArmed, Pending, Untimed, wlVars

LEMMA SuspendWalks ==
  ASSUME IInv, WalkLocks, wait_for_wakeup' \in BOOLEAN,
         UNCHANGED <<event, worklist, g_wkup_wkst, requested_suspend_state,
                     earlyVars>>,
         pc \in SuspendLabels, pc' \in SuspendLabels \cup {"idle"},
         ret' \in BOOLEAN,
         pc # "asleep", pc' # "asleep", pc' = "late" => has_wake_lock = 0,
         \/ pc' = "entry"
         \/ pc' = "idle" /\ has_wake_lock # 0
         \/ pc \notin {"suspend", "entry", "no_event"} /\ pc' # "idle"
  PROVE  SafeStep
<1>1. TypeOK /\ WakeLockInv /\ LateUnlocked /\ SuspendReArms
  BY DEF IInv
<1>2. event' \in BOOLEAN /\ worklist' \in Seq(Works) /\ g_wkup_wkst' \in BOOLEAN
  BY <1>1 DEF TypeOK, WakeLockTypeOK, SystemSuspendTypeOK
<1>3. /\ WakeLockInv'
      /\ active' \subseteq active
      /\ MainLock \in active' <=> MainLock \in active
      /\ SuspendArmed => SuspendArmed'
      /\ has_wake_lock = 0 => active' \cap SuspendLocks = {}
      /\ has_wake_lock # 0 => SuspendArmed'
  BY <1>1, <1>2, WalkLocksInv
<1>4. LateUnlocked'
  BY <1>3 DEF LateUnlocked
<1>5. SuspendReArms'
  BY <1>1, <1>3 DEF SuspendReArms
<1>6. QED
  BY <1>2, <1>3, <1>4, <1>5, KeepsRequests DEF Pending

LEMMA SuspendHolds ==
  ASSUME IInv, NEW l \in SuspendLocks \ {MainLock}, NEW t \in Long,
         wake_lock_timeout(l, t),
         UNCHANGED <<ret, requested_suspend_state, earlyVars>>,
         g_wkup_wkst' \in BOOLEAN,
         pc \in SuspendLabels \ {"asleep"},
         pc' \in (SuspendLabels \cup {"idle"}) \ {"late", "asleep"}
  PROVE  SafeStep
<1>1. TypeOK /\ WakeLockInv
  BY DEF IInv
<1>2. /\ worklist \in Seq(Works) /\ ret' \in BOOLEAN /\ l \in Locks
      /\ initialized \in SUBSET Locks
  BY <1>1 DEF TypeOK, SystemSuspendTypeOK, WakeLockTypeOK, SuspendLocks
<1>3. /\ l \in initialized /\ wake_lock_internal(l, TRUE, t)
      /\ QueueIfExpired(l, t) /\ UNCHANGED initialized
  BY DEF wake_lock_timeout
<1>4. /\ LockStep
      /\ worklist' \in Seq(Works)
      /\ \A v \in Works : Pending(v) => Pending(v)'
      /\ MainLock \in active' <=> MainLock \in active
      /\ SuspendArmed'
  BY <1>1, <1>2, <1>3, LockTimed
<1>5. LateUnlocked' /\ SuspendReArms'
  BY <1>4 DEF LateUnlocked, SuspendReArms
<1>6. QED
  BY <1>2, <1>4, <1>5, KeepsRequests DEF LockStep

LEMMA SuspendInv == IInv /\ (RunSuspend \/ Wake) => SafeStep
<1> SUFFICES ASSUME IInv, RunSuspend \/ Wake PROVE SafeStep
  OBVIOUS
<1>1. /\ ret \in BOOLEAN /\ g_wkup_wkst \in BOOLEAN
      /\ wait_for_wakeup \in BOOLEAN
      /\ SuspendReArms
  BY DEF IInv, TypeOK, SystemSuspendTypeOK, WakeLockTypeOK
<1>2. UNCHANGED earlyVars
  BY DEF RunSuspend, Wake
<1> USE DEF Goto
<1>3. CASE StartSuspend
  <2>1. /\ pc = "suspend" /\ WalkLocks
        /\ pc' = IF has_wake_lock = 0 THEN "entry" ELSE "idle"
        /\ UNCHANGED <<wait_for_wakeup, event, worklist, ret, g_wkup_wkst,
                       requested_suspend_state>>
    BY <1>3 DEF StartSuspend, suspendVars
  <2>2. QED
    BY <1>1, <1>2, <2>1, SuspendWalks
<1>4. CASE ReadEventNum
  <2>1. /\ pc = "entry" /\ pc' = "pm_suspend" /\ event' = FALSE
        /\ UNCHANGED <<initialized, active, auto_expire, left, preventing,
                       expire_timer, expiring, wait_for_wakeup, worklist,
                       ret, g_wkup_wkst, requested_suspend_state>>
    BY <1>4 DEF ReadEventNum, suspendVars
  <2>2. WakeLockInv' /\ worklist' \in Seq(Works)
    BY <2>1 DEF IInv, TypeOK, WakeLockInv, WakeLockTypeOK, MainLockUntimed,
                TimerCoversLocks, PreventingCharged, Untimed
  <2>3. LateUnlocked' /\ SuspendReArms'
    BY <2>1 DEF LateUnlocked, SuspendReArms
  <2>4. QED
    BY <1>1, <1>2, <2>1, <2>2, <2>3, KeepsRequests DEF Pending
<1>5. CASE pm_suspend
  <2>1. /\ pc = "pm_suspend" /\ pc' \in {"prepare", "exit"} /\ ret' \in BOOLEAN
        /\ UNCHANGED <<wlVars, worklist, g_wkup_wkst, requested_suspend_state>>
    BY <1>5 DEF pm_suspend
  <2>2. SuspendReArms'
    BY <2>1, ReArmsUnchanged
  <2>3. QED
    BY <1>1, <1>2, <2>1, <2>2, SuspendMoves
<1>6. CASE suspend_prepare
  <2>1. /\ pc = "prepare" /\ pc' \in {"freeze_user", "exit"} /\ ret' \in BOOLEAN
        /\ UNCHANGED <<wlVars, worklist, g_wkup_wkst, requested_suspend_state>>
    BY <1>1, <1>6 DEF suspend_prepare
  <2>2. SuspendReArms'
    BY <2>1, ReArmsUnchanged
  <2>3. QED
    BY <1>1, <1>2, <2>1, <2>2, SuspendMoves
<1>7. ASSUME NEW from \in {"freeze_user", "freeze_tasks"},
             NEW to \in {"freeze_tasks", "devices"},
             try_to_freeze_tasks(from, to)
      PROVE  SafeStep
  <2>1. /\ pc = from
        /\ UNCHANGED <<worklist, g_wkup_wkst, requested_suspend_state>>
    BY <1>7 DEF try_to_freeze_tasks
  <2>2. CASE pc' = to /\ UNCHANGED <<wlVars, ret>>
    <3>1. SuspendReArms'
      BY <2>1, <2>2, ReArmsUnchanged
    <3>2. QED
      BY <1>1, <1>2, <2>1, <2>2, <3>1, SuspendMoves
  <2>3. CASE /\ WalkLocks /\ UNCHANGED <<wait_for_wakeup, event>>
             /\ \/ pc' = "thaw" /\ ret' = TRUE
                \/ has_wake_lock = 0 /\ UNCHANGED <<pc, ret>>
    BY <1>1, <1>2, <2>1, <2>3, SuspendWalks
  <2>4. QED
    BY <1>7, <2>2, <2>3 DEF try_to_freeze_tasks
<1>8. CASE SuspendDevices
  <2>1. /\ pc = "devices" /\ pc' \in {"noirq", "resume"} /\ ret' \in BOOLEAN
        /\ UNCHANGED <<wlVars, worklist, g_wkup_wkst, requested_suspend_state>>
    BY <1>1, <1>8 DEF SuspendDevices
  <2>2. SuspendReArms'
    BY <2>1, ReArmsUnchanged
  <2>3. QED
    BY <1>1, <1>2, <2>1, <2>2, SuspendMoves
<1>9. CASE power_suspend_late
  <2>1. /\ pc = "noirq" /\ WalkLocks /\ wait_for_wakeup' = TRUE
        /\ pc' = IF has_wake_lock = 0 THEN "late" ELSE "resume"
        /\ UNCHANGED <<event, worklist, ret, g_wkup_wkst,
                       requested_suspend_state>>
    BY <1>9 DEF power_suspend_late, suspendVars
  <2>2. QED
    BY <1>1, <1>2, <2>1, SuspendWalks
<1>10. CASE NoirqCallbackFails \/ EnterSleep \/ WakeUp \/ ResumeDevices
            \/ ThawProcesses
  <2>1. /\ pc \in {"noirq", "late", "asleep", "resume", "thaw"}
        /\ pc' \in {"asleep", "resume", "thaw", "exit"}
        /\ pc' = "asleep" => pc = "late"
        /\ g_wkup_wkst' \in BOOLEAN
        /\ UNCHANGED <<wlVars, worklist, ret, requested_suspend_state>>
    BY <1>1, <1>10 DEF NoirqCallbackFails, EnterSleep, WakeUp, ResumeDevices,
                       ThawProcesses, suspendVars
  <2>2. SuspendReArms'
    BY <2>1, ReArmsUnchanged
  <2>3. QED
    BY <1>1, <1>2, <2>1, <2>2, SuspendMoves
<1>11. CASE HandleWakeupReason
  <2>1. /\ pc = "exit" /\ pc' = "retry" /\ g_wkup_wkst' = FALSE
        /\ UNCHANGED <<ret, requested_suspend_state>>
        /\ \/ wake_lock_timeout(PowerKeyLock, KeyTimeout)
           \/ UNCHANGED <<wlVars, worklist>>
    BY <1>11 DEF HandleWakeupReason, SendPowerbuttonEvent
  <2>2. CASE wake_lock_timeout(PowerKeyLock, KeyTimeout)
    <3>1. PowerKeyLock \in SuspendLocks \ {MainLock} /\ KeyTimeout \in Long
      BY PowerKeyLockAssumption, SuspendTimeoutsAssumption, LongMaxAssumption
      DEF Long
    <3>2. QED
      BY <1>2, <2>1, <2>2, <3>1, SuspendHolds
  <2>3. CASE UNCHANGED <<wlVars, worklist>>
    <3>1. SuspendReArms'
      BY <2>1, <2>3, ReArmsUnchanged
    <3>2. QED
      BY <1>1, <1>2, <2>1, <2>3, <3>1, SuspendMoves
  <2>4. QED
    BY <2>1, <2>2, <2>3
<1>12. CASE HoldAfterError
  <2>1. /\ pc = "retry" /\ pc' = "check_event"
        /\ UNCHANGED <<ret, g_wkup_wkst, requested_suspend_state>>
        /\ \/ wake_lock_timeout(UnknownWakeup, RetryTimeout)
           \/ UNCHANGED <<wlVars, worklist>>
    BY <1>12 DEF HoldAfterError, suspendVars
  <2>2. CASE wake_lock_timeout(UnknownWakeup, RetryTimeout)
    <3>1. UnknownWakeup \in SuspendLocks \ {MainLock} /\ RetryTimeout \in Long
      BY LocksAssumption, SuspendTimeoutsAssumption, LongMaxAssumption
      DEF Long
    <3>2. QED
      BY <1>1, <1>2, <2>1, <2>2, <3>1, SuspendHolds
  <2>3. CASE UNCHANGED <<wlVars, worklist>>
    <3>1. SuspendReArms'
      BY <2>1, <2>3, ReArmsUnchanged
    <3>2. QED
      BY <1>1, <1>2, <2>1, <2>3, <3>1, SuspendMoves
  <2>4. QED
    BY <2>1, <2>2, <2>3
<1>13. CASE CheckEventNum
  <2>1. /\ pc = "check_event"
        /\ pc' = IF event THEN "idle" ELSE "no_event"
        /\ UNCHANGED <<wlVars, worklist, ret, g_wkup_wkst,
                       requested_suspend_state>>
    BY <1>13 DEF CheckEventNum, suspendVars
  <2>2. SuspendReArms'
    <3>1. event => SuspendArmed
      BY <1>1, <2>1 DEF SuspendReArms
    <3>2. SuspendArmed => SuspendArmed'
      BY <2>1 DEF SuspendArmed, Pending, Untimed, wlVars
    <3>3. QED
      BY <2>1, <3>1, <3>2 DEF SuspendReArms
  <2>3. QED
    BY <1>1, <1>2, <2>1, <2>2, SuspendMoves
<1>14. CASE HoldAfterNoEvent
  <2>1. /\ pc = "no_event" /\ pc' = "idle"
        /\ wake_lock_timeout(UnknownWakeup, NoEventTimeout)
        /\ UNCHANGED <<ret, g_wkup_wkst, requested_suspend_state>>
    BY <1>14 DEF HoldAfterNoEvent, suspendVars
  <2>2. UnknownWakeup \in SuspendLocks \ {MainLock} /\ NoEventTimeout \in Long
    BY LocksAssumption, SuspendTimeoutsAssumption, LongMaxAssumption DEF Long
  <2>3. QED
    BY <1>1, <1>2, <2>1, <2>2, SuspendHolds
<1>15. QED
  BY <1>3, <1>4, <1>5, <1>6, <1>7, <1>8, <1>9, <1>10, <1>11, <1>12, <1>13,
     <1>14
  DEF RunSuspend, Wake, suspend, freeze_processes

-----------------------------------------------------------------------------
(* The worker takes its next work item. *)
LEMMA TakeWorkInv == IInv /\ TakeWork => SafeStep
<1> SUFFICES ASSUME IInv, TakeWork PROVE SafeStep
  OBVIOUS
<1>1. /\ TypeOK /\ WakeLockInv /\ HandlersSorted /\ HandlersCalled
      /\ MainLockState /\ NoLostRequest /\ LateUnlocked /\ SuspendReArms
  BY DEF IInv
<1>2. /\ run_workqueue /\ pc = "idle"
      /\ UNCHANGED <<initialized, active, auto_expire, left, preventing,
                     expire_timer, expiring, wait_for_wakeup, event,
                     ret, g_wkup_wkst, requested_suspend_state,
                     state, handlers, pos, off>>
  BY DEF TakeWork, run_workqueue, wlVars, suspendVars, earlyVars
<1>3. /\ worklist' \in Seq(Works)
      /\ pc' \in Works
      /\ \A v \in Works : Pending(v) => Pending(v)' \/ pc' = v
  BY <1>1, <1>2, TakeWorkPending DEF TypeOK
<1>4. TypeOK' /\ WakeLockInv'
  BY <1>1, <1>2, <1>3
  DEF TypeOK, WakeLockInv, WakeLockTypeOK, MainLockUntimed, TimerCoversLocks,
      PreventingCharged, Untimed, SystemSuspendTypeOK, EarlySuspendTypeOK,
      Registered
<1>5. HandlersSorted' /\ HandlersCalled' /\ MainLockState' /\ LateUnlocked'
  BY <1>1, <1>2, <1>3
  DEF HandlersSorted, HandlersCalled, HandlersMatchState, MutexFree,
      Registered, MainLockState, LateUnlocked
<1>6. NoLostRequest'
  BY <1>1, <1>2, <1>3 DEF NoLostRequest
<1>7. SuspendReArms'
  <2>1. SuspendArmed
    BY <1>1, <1>2 DEF SuspendReArms
  <2>2. SuspendArmed' \/ pc' = "suspend"
    BY <1>2, <1>3, <2>1 DEF SuspendArmed, Untimed
  <2>3. QED
    BY <2>2 DEF SuspendReArms
<1>8. ContractStep
  BY <1>2, <1>3, KeepsContract
<1>9. QED
  BY <1>4, <1>5, <1>6, <1>7, <1>8 DEF IInv, SafeStep

-----------------------------------------------------------------------------
(* Steps that leave the locks and the queue alone: the calls of the        *)
(* handlers, and registration.                                             *)
LEMMA LocksUntouched ==
  ASSUME IInv, UNCHANGED <<wlVars, worklist, suspendVars>>,
         \/ pc' = pc
         \/ pc \notin SuspendLabels /\ pc' \in {"idle"} \cup EarlyLabels,
         EarlySuspendTypeOK', HandlersSorted', HandlersCalled',
         MainLockState', NoLostRequest',
         UNCHANGED state \/ Contract!ScreenOff \/ Contract!ScreenOn
  PROVE  SafeStep
<1>1. TypeOK /\ WakeLockInv /\ LateUnlocked /\ SuspendReArms
  BY DEF IInv
<1>2. UNCHANGED <<initialized, active, auto_expire, left, preventing,
                  expire_timer, expiring, wait_for_wakeup, event,
                  ret, g_wkup_wkst, requested_suspend_state>>
  BY DEF wlVars, suspendVars
<1>3. TypeOK' /\ WakeLockInv'
  BY <1>1, <1>2
  DEF TypeOK, WakeLockInv, WakeLockTypeOK, MainLockUntimed, TimerCoversLocks,
      PreventingCharged, Untimed, SystemSuspendTypeOK
<1>4. LateUnlocked'
  BY <1>1, <1>2 DEF LateUnlocked
<1>5. SuspendReArms'
  BY <1>1, <1>2 DEF SuspendReArms, SuspendArmed, Pending, Untimed
<1>6. IInv'
  BY <1>3, <1>4, <1>5 DEF IInv
<1>7. ContractStep
  <2>1. CASE UNCHANGED state
    BY <1>2, <2>1, KeepsContract
  <2>2. CASE Contract!ScreenOff \/ Contract!ScreenOn
    BY <2>2 DEF ContractStep, Contract!Next
  <2>3. QED
    BY <2>1, <2>2
<1>8. QED
  BY <1>6, <1>7 DEF SafeStep

(* The registered handlers, by their places in the list. *)
LEMMA RegisteredPlaces ==
  ASSUME EarlySuspendTypeOK
  PROVE  /\ handlers \in [1 .. Len(handlers) -> Handlers]
         /\ Len(handlers) \in Nat
         /\ Registered = {handlers[i] : i \in 1 .. Len(handlers)}
<1>1. handlers \in Seq(Handlers)
  BY DEF EarlySuspendTypeOK
<1>2. DOMAIN handlers = 1 .. Len(handlers) /\ Len(handlers) \in Nat
      /\ handlers \in [1 .. Len(handlers) -> Handlers]
  BY <1>1
<1>3. QED
  BY <1>2 DEF Registered, Range

LEMMA EarlySuspendInv == IInv /\ early_suspend => SafeStep
<1> SUFFICES ASSUME IInv, early_suspend PROVE SafeStep
  OBVIOUS
<1>1. /\ TypeOK /\ WakeLockInv /\ HandlersSorted /\ HandlersCalled
      /\ MainLockState /\ NoLostRequest /\ LateUnlocked /\ SuspendReArms
      /\ EarlySuspendTypeOK /\ HandlersMatchState
  BY DEF IInv, TypeOK, HandlersCalled
<1>2. /\ handlers \in [1 .. Len(handlers) -> Handlers]
      /\ Len(handlers) \in Nat
      /\ Registered = {handlers[i] : i \in 1 .. Len(handlers)}
      /\ pos \in 0 .. Len(handlers) + 1
      /\ state \subseteq {REQUESTED, SUSPENDED}
  BY <1>1, RegisteredPlaces DEF EarlySuspendTypeOK, REQUESTED_AND_SUSPENDED
<1>3. CASE StartEarlySuspend
  <2>1. /\ pc = "early_suspend"
        /\ UNCHANGED <<wlVars, worklist, suspendVars, handlers, off>>
        /\ UNCHANGED <<active, requested_suspend_state>>
    BY <1>3 DEF StartEarlySuspend, wlVars, suspendVars
  <2>2. pos = 0
    BY <1>1, <2>1 DEF HandlersCalled, MutexFree
  <2>3. CASE /\ state = {REQUESTED} /\ state' = REQUESTED_AND_SUSPENDED
             /\ pc' = "call_suspend" /\ pos' = 1
    <3>1. off = {} /\ MainLock \in active
      BY <1>1, <2>1, <2>3
      DEF HandlersMatchState, MutexFree, MainLockState,
          REQUESTED_AND_SUSPENDED, REQUESTED, SUSPENDED
    <3>2. {handlers'[i] : i \in 1 .. pos' - 1} = {}
      BY <2>3
    <3>3. EarlySuspendTypeOK'
      BY <1>1, <1>2, <2>1, <2>3 DEF EarlySuspendTypeOK, Registered
    <3>4. HandlersSorted'
      BY <1>1, <2>1 DEF HandlersSorted
    <3>5. HandlersCalled'
      BY <2>1, <2>3, <3>1, <3>2
      DEF HandlersCalled, HandlersMatchState, MutexFree,
          REQUESTED_AND_SUSPENDED
    <3>6. MainLockState'
      BY <1>1, <2>1, <2>3 DEF MainLockState, REQUESTED_AND_SUSPENDED
    <3>7. NoLostRequest'
      BY <2>3 DEF NoLostRequest, REQUESTED_AND_SUSPENDED, REQUESTED, SUSPENDED
    <3>8. Contract!ScreenOff
      <4>1. /\ REQUESTED \in state /\ REQUESTED \in state'
            /\ SUSPENDED \notin state /\ SUSPENDED \in state'
            /\ pc # "asleep" /\ pc' # "asleep"
        BY <2>1, <2>3 DEF REQUESTED_AND_SUSPENDED, REQUESTED, SUSPENDED
      <4>2. QED
        BY <2>1, <4>1 DEF Contract!ScreenOff
    <3>9. QED
      BY <2>1, <2>3, <3>3, <3>4, <3>5, <3>6, <3>7, <3>8, LocksUntouched
  <2>4. CASE /\ state # {REQUESTED} /\ pc' = "early_unlock"
             /\ UNCHANGED <<state, pos>>
    <3>1. EarlySuspendTypeOK' /\ HandlersSorted'
      BY <1>1, <2>1, <2>4 DEF EarlySuspendTypeOK, Registered, HandlersSorted
    <3>2. HandlersCalled'
      BY <1>1, <2>1, <2>2, <2>4
      DEF HandlersCalled, HandlersMatchState, MutexFree, Registered
    <3>3. MainLockState' /\ NoLostRequest'
      BY <1>1, <2>1, <2>4 DEF MainLockState, NoLostRequest, Pending
    <3>4. QED
      BY <2>1, <2>4, <3>1, <3>2, <3>3, LocksUntouched
  <2>5. QED
    BY <1>3, <2>3, <2>4 DEF StartEarlySuspend
<1>4. CASE CallSuspend
  <2>1. /\ pc = "call_suspend"
        /\ UNCHANGED <<wlVars, worklist, suspendVars, state, handlers>>
        /\ UNCHANGED <<active, requested_suspend_state>>
    BY <1>4 DEF CallSuspend, wlVars, suspendVars
  <2>2. /\ SUSPENDED \in state /\ MainLock \in active /\ pos > 0
        /\ off = {handlers[i] : i \in 1 .. pos - 1}
    BY <1>1, <2>1 DEF HandlersCalled
  <2>3. HandlersSorted' /\ MainLockState'
    BY <1>1, <2>1 DEF HandlersSorted, MainLockState
  <2>4. CASE /\ pos <= Len(handlers) /\ off' = off \cup {handlers[pos]}
             /\ pos' = pos + 1 /\ UNCHANGED pc
    <3>1. off' = {handlers[i] : i \in 1 .. pos' - 1}
      BY <1>2, <2>2, <2>4
    <3>2. pos' \in 1 .. Len(handlers) + 1 /\ off' \subseteq Registered
      BY <1>2, <2>2, <2>4, <3>1
    <3>3. EarlySuspendTypeOK'
      BY <1>1, <1>2, <2>1, <3>2 DEF EarlySuspendTypeOK, Registered
    <3>4. HandlersCalled'
      <4>1. pos' > 0 /\ off' = {handlers'[i] : i \in 1 .. pos' - 1}
        BY <2>1, <3>1, <3>2
      <4>2. pc' = "call_suspend" /\ SUSPENDED \in state' /\ MainLock \in active'
        BY <2>1, <2>2, <2>4
      <4>3. QED
        BY <4>1, <4>2 DEF HandlersCalled, HandlersMatchState, MutexFree
    <3>5. NoLostRequest'
      BY <1>1, <2>1, <2>4 DEF NoLostRequest, Pending
    <3>6. QED
      BY <2>1, <2>3, <2>4, <3>3, <3>4, <3>5, LocksUntouched
  <2>5. CASE /\ ~(pos <= Len(handlers)) /\ pc' = "early_unlock" /\ pos' = 0
             /\ UNCHANGED off
    <3>1. off = Registered
      <4>1. pos - 1 = Len(handlers)
        BY <1>2, <2>5
      <4>2. QED
        BY <1>2, <2>2, <4>1
    <3>2. EarlySuspendTypeOK'
      BY <1>1, <1>2, <2>1, <2>5 DEF EarlySuspendTypeOK, Registered
    <3>3. HandlersCalled'
      BY <2>1, <2>2, <2>5, <3>1
      DEF HandlersCalled, HandlersMatchState, MutexFree, Registered
    <3>4. NoLostRequest'
      BY <1>1, <2>1, <2>5 DEF NoLostRequest, Pending
    <3>5. QED
      BY <2>1, <2>3, <2>5, <3>2, <3>3, <3>4, LocksUntouched
  <2>6. QED
    BY <1>4, <2>4, <2>5 DEF CallSuspend
<1>5. CASE EarlyUnlock
  <2>1. /\ pc = "early_unlock" /\ pc' = "idle"
        /\ UNCHANGED <<suspendVars, state, handlers, pos, off>>
        /\ UNCHANGED <<ret, g_wkup_wkst, requested_suspend_state>>
    BY <1>5 DEF EarlyUnlock, Goto, earlyVars, suspendVars
  <2>2. EarlySuspendTypeOK' /\ HandlersSorted'
    BY <1>1, <2>1 DEF EarlySuspendTypeOK, Registered, HandlersSorted
  <2>3. HandlersCalled'
    BY <1>1, <2>1 DEF HandlersCalled, HandlersMatchState, MutexFree, Registered
  <2>4. CASE state = REQUESTED_AND_SUSPENDED /\ wake_unlock(MainLock)
    <3>1. MainLock \in Locks
      BY LocksAssumption DEF SuspendLocks
    <3>2. /\ LockStep
          /\ worklist' \in Seq(Works)
          /\ active' \subseteq active \ {MainLock}
      BY <1>1, <2>4, <3>1, UnlockInv DEF TypeOK
    <3>3. TypeOK'
      BY <1>1, <2>1, <2>2, <3>2
      DEF TypeOK, LockStep, WakeLockInv, SystemSuspendTypeOK
    <3>4. MainLockState' /\ NoLostRequest' /\ LateUnlocked'
      <4>1. state' # {REQUESTED} /\ state' # {SUSPENDED}
        BY <2>1, <2>4 DEF REQUESTED_AND_SUSPENDED, REQUESTED, SUSPENDED
      <4>2. MainLockState'
        BY <1>1, <2>1, <2>4 DEF MainLockState
      <4>3. NoLostRequest'
        BY <3>2, <4>1 DEF NoLostRequest
      <4>4. QED
        BY <2>1, <4>2, <4>3 DEF LateUnlocked
    <3>5. SuspendReArms'
      BY <1>1, <2>1, <3>2 DEF SuspendReArms, LockStep
    <3>6. ContractStep
      <4>1. /\ REQUESTED \in state /\ SUSPENDED \in state
            /\ pc # "asleep" /\ pc' # "asleep"
        BY <2>1, <2>4 DEF REQUESTED_AND_SUSPENDED
      <4>2. (active \cap SuspendLocks)' \in
              SUBSET ((active \cap SuspendLocks) \ {MainLock})
        BY <3>2
      <4>3. Contract!ReleaseMain
        BY <2>1, <4>1, <4>2 DEF Contract!ReleaseMain
      <4>4. QED
        BY <4>3 DEF ContractStep, Contract!Next
    <3>7. QED
      BY <2>2, <2>3, <3>2, <3>3, <3>4, <3>5, <3>6 DEF IInv, LockStep, SafeStep
  <2>5. CASE state # REQUESTED_AND_SUSPENDED /\ UNCHANGED <<wlVars, worklist>>
    <3>1. UNCHANGED active
      BY <2>5 DEF wlVars
    <3>2. MainLockState' /\ NoLostRequest'
      BY <1>1, <2>1, <2>5, <3>1 DEF MainLockState, NoLostRequest, Pending
    <3>3. QED
      BY <2>1, <2>2, <2>3, <2>5, <3>2, LocksUntouched
  <2>6. QED
    BY <1>5, <2>4, <2>5 DEF EarlyUnlock
<1>6. QED
  BY <1>3, <1>4, <1>5 DEF early_suspend

LEMMA LateResumeInv == IInv /\ late_resume => SafeStep
<1> SUFFICES ASSUME IInv, late_resume PROVE SafeStep
  OBVIOUS
<1>1. /\ HandlersSorted /\ HandlersCalled /\ MainLockState /\ NoLostRequest
      /\ EarlySuspendTypeOK /\ HandlersMatchState
  BY DEF IInv, TypeOK, HandlersCalled
<1>2. /\ handlers \in [1 .. Len(handlers) -> Handlers]
      /\ Len(handlers) \in Nat
      /\ Registered = {handlers[i] : i \in 1 .. Len(handlers)}
      /\ pos \in 0 .. Len(handlers) + 1
  BY <1>1, RegisteredPlaces DEF EarlySuspendTypeOK
<1>3. CASE StartLateResume
  <2>1. /\ pc = "late_resume"
        /\ UNCHANGED <<wlVars, worklist, suspendVars, handlers, off>>
        /\ UNCHANGED <<active, requested_suspend_state>>
    BY <1>3 DEF StartLateResume, wlVars, suspendVars
  <2>2. HandlersSorted'
    BY <1>1, <2>1 DEF HandlersSorted
  <2>3. CASE /\ state = {SUSPENDED} /\ state' = {} /\ pc' = "call_resume"
             /\ pos' = Len(handlers)
    <3>1. off = Registered /\ MainLock \in active
      BY <1>1, <2>1, <2>3
      DEF HandlersMatchState, MutexFree, MainLockState,
          REQUESTED_AND_SUSPENDED, REQUESTED, SUSPENDED
    <3>2. EarlySuspendTypeOK'
      BY <1>1, <1>2, <2>1, <2>3 DEF EarlySuspendTypeOK, Registered
    <3>3. HandlersCalled'
      BY <1>2, <2>1, <2>3, <3>1
      DEF HandlersCalled, HandlersMatchState, MutexFree
    <3>4. MainLockState' /\ NoLostRequest'
      BY <2>1, <2>3, <3>1
      DEF MainLockState, NoLostRequest, REQUESTED_AND_SUSPENDED
    <3>5. Contract!ScreenOn
      <4>1. /\ REQUESTED \notin state /\ REQUESTED \notin state'
            /\ SUSPENDED \in state /\ SUSPENDED \notin state'
            /\ pc # "asleep" /\ pc' # "asleep"
        BY <2>1, <2>3 DEF REQUESTED, SUSPENDED
      <4>2. QED
        BY <2>1, <4>1 DEF Contract!ScreenOn
    <3>6. QED
      BY <2>1, <2>2, <2>3, <3>2, <3>3, <3>4, <3>5, LocksUntouched
  <2>4. CASE state # {SUSPENDED} /\ pc' = "idle" /\ UNCHANGED <<state, pos>>
    <3>1. EarlySuspendTypeOK'
      BY <1>1, <2>1, <2>4 DEF EarlySuspendTypeOK, Registered
    <3>2. HandlersCalled'
      BY <1>1, <2>1, <2>4
      DEF HandlersCalled, HandlersMatchState, MutexFree, Registered
    <3>3. MainLockState' /\ NoLostRequest'
      BY <1>1, <2>1, <2>4 DEF MainLockState, NoLostRequest, Pending
    <3>4. QED
      BY <2>1, <2>2, <2>4, <3>1, <3>2, <3>3, LocksUntouched
  <2>5. QED
    BY <1>3, <2>3, <2>4 DEF StartLateResume
<1>4. CASE CallResume
  <2>1. /\ pc = "call_resume"
        /\ UNCHANGED <<wlVars, worklist, suspendVars, state, handlers>>
        /\ UNCHANGED <<active, requested_suspend_state>>
    BY <1>4 DEF CallResume, wlVars, suspendVars
  <2>2. /\ SUSPENDED \notin state /\ pos <= Len(handlers)
        /\ off = {handlers[i] : i \in 1 .. pos}
    BY <1>1, <2>1 DEF HandlersCalled
  <2>3. HandlersSorted' /\ MainLockState'
    BY <1>1, <2>1 DEF HandlersSorted, MainLockState
  <2>4. CASE /\ pos > 0 /\ off' = off \ {handlers[pos]} /\ pos' = pos - 1
             /\ UNCHANGED pc
    <3>1. \A i \in 1 .. pos - 1 : handlers[i] # handlers[pos]
      BY <1>1, <1>2, <2>2, <2>4 DEF HandlersSorted
    <3>2. off' = {handlers[i] : i \in 1 .. pos'}
      BY <1>2, <2>2, <2>4, <3>1
    <3>3. pos' \in 0 .. Len(handlers) /\ off' \subseteq Registered
      BY <1>2, <2>2, <2>4, <3>2
    <3>4. EarlySuspendTypeOK'
      BY <1>1, <1>2, <2>1, <3>3 DEF EarlySuspendTypeOK, Registered
    <3>5. HandlersCalled'
      <4>1. pos' <= Len(handlers') /\ off' = {handlers'[i] : i \in 1 .. pos'}
        BY <1>2, <2>1, <3>2, <3>3
      <4>2. pc' = "call_resume" /\ SUSPENDED \notin state'
        BY <2>1, <2>2, <2>4
      <4>3. QED
        BY <4>1, <4>2 DEF HandlersCalled, HandlersMatchState, MutexFree
    <3>6. NoLostRequest'
      BY <1>1, <2>1, <2>4 DEF NoLostRequest, Pending
    <3>7. QED
      BY <2>1, <2>3, <2>4, <3>4, <3>5, <3>6, LocksUntouched
  <2>5. CASE ~(pos > 0) /\ pc' = "idle" /\ UNCHANGED <<off, pos>>
    <3>1. pos = 0 /\ off = {}
      BY <1>2, <2>2, <2>5
    <3>2. EarlySuspendTypeOK'
      BY <1>1, <2>1, <2>5 DEF EarlySuspendTypeOK, Registered
    <3>3. HandlersCalled'
      BY <2>1, <2>2, <2>5, <3>1
      DEF HandlersCalled, HandlersMatchState, MutexFree, Registered
    <3>4. NoLostRequest'
      BY <1>1, <2>1, <2>5 DEF NoLostRequest, Pending
    <3>5. QED
      BY <2>1, <2>3, <2>5, <3>2, <3>3, <3>4, LocksUntouched
  <2>6. QED
    BY <1>4, <2>4, <2>5 DEF CallResume
<1>5. QED
  BY <1>3, <1>4 DEF late_resume

-----------------------------------------------------------------------------
(* A write of "on" or "mem" to /sys/power/state. *)
LEMMA WriteStateInv == IInv /\ WriteState => SafeStep
<1> SUFFICES ASSUME IInv, WriteState PROVE SafeStep
  OBVIOUS
<1>1. /\ TypeOK /\ WakeLockInv /\ HandlersSorted /\ HandlersCalled
      /\ MainLockState /\ NoLostRequest /\ LateUnlocked /\ SuspendReArms
      /\ EarlySuspendTypeOK /\ worklist \in Seq(Works)
  BY DEF IInv, TypeOK
<1>2. PICK new_state \in {"on", "mem"} : request_suspend_state(new_state)
  BY DEF WriteState, state_store
<1>3. /\ requested_suspend_state' = new_state
      /\ UNCHANGED <<pc, ret, g_wkup_wkst, handlers, pos, off>>
  BY <1>2 DEF request_suspend_state
<1>4. pc \notin {"late", "asleep"}
  BY DEF WriteState, TasksRun
<1>5. HandlersSorted' /\ LateUnlocked' /\ SystemSuspendTypeOK'
      /\ pc' \in {"idle"} \cup SuspendLabels \cup EarlyLabels
  BY <1>1, <1>3, <1>4
  DEF HandlersSorted, LateUnlocked, TypeOK, SystemSuspendTypeOK
<1>6. SUSPENDED # REQUESTED
  BY DEF SUSPENDED, REQUESTED
<1>7. CASE /\ REQUESTED \notin state /\ new_state # "on"
           /\ state' = state \cup {REQUESTED}
           /\ worklist' = queue_work(worklist, "early_suspend")
           /\ UNCHANGED wlVars
  <2>1. /\ worklist' \in Seq(Works)
        /\ Pending("early_suspend")'
        /\ \A v \in Works : Pending(v) => Pending(v)'
    BY <1>1, <1>7, QueueWorkPending
  <2>2. UNCHANGED <<initialized, active, auto_expire, left, preventing,
                    expire_timer, expiring, wait_for_wakeup, event>>
    BY <1>7 DEF wlVars
  <2>3. SUSPENDED \in state' <=> SUSPENDED \in state
    BY <1>6, <1>7
  <2>4. WakeLockInv' /\ WakeLockTypeOK'
    BY <1>1, <2>2 DEF WakeLockInv, WakeLockTypeOK, MainLockUntimed,
                      TimerCoversLocks, PreventingCharged, Untimed
  <2>5. EarlySuspendTypeOK'
    BY <1>1, <1>3, <1>7
    DEF EarlySuspendTypeOK, Registered, REQUESTED_AND_SUSPENDED
  <2>6. HandlersCalled'
    BY <1>1, <1>3, <2>2, <2>3
    DEF HandlersCalled, HandlersMatchState, MutexFree, Registered
  <2>7. MainLockState'
    BY <1>1, <1>2, <1>3, <1>7, <2>2
    DEF MainLockState, REQUESTED_AND_SUSPENDED
  <2>8. NoLostRequest'
    <3>1. state' # {SUSPENDED}
      BY <1>6, <1>7
    <3>2. QED
      BY <2>1, <3>1 DEF NoLostRequest
  <2>9. SuspendReArms'
    BY <1>1, <1>3, <2>1, <2>2 DEF SuspendReArms, SuspendArmed, Untimed
  <2>10. ContractStep
    <3>1. REQUESTED \in state' /\ pc # "asleep" /\ pc' # "asleep"
      BY <1>3, <1>4, <1>7
    <3>2. Contract!RequestOff
      BY <1>7, <2>2, <2>3, <3>1 DEF Contract!RequestOff
    <3>3. QED
      BY <3>2 DEF ContractStep, Contract!Next
  <2>11. QED
    BY <1>5, <2>1, <2>4, <2>5, <2>6, <2>7, <2>8, <2>9, <2>10
    DEF IInv, TypeOK, SafeStep
<1>8. CASE /\ REQUESTED \in state /\ new_state = "on"
           /\ state' = state \ {REQUESTED}
           /\ wake_lock(MainLock)
           /\ worklist' = queue_work(worklist, "late_resume")
  <2>1. /\ worklist' \in Seq(Works)
        /\ Pending("late_resume")'
        /\ \A v \in Works : Pending(v) => Pending(v)'
    BY <1>1, <1>8, QueueWorkPending
  <2>2. LockStep /\ active' = active \cup {MainLock}
    <3>1. MainLock \in Locks
      BY LocksAssumption DEF SuspendLocks
    <3>2. /\ MainLock \in initialized /\ UNCHANGED initialized
          /\ wake_lock_internal(MainLock, FALSE, 0)
      BY <1>8 DEF wake_lock
    <3>3. initialized' \in SUBSET Locks
      BY <1>1, <3>2 DEF TypeOK, WakeLockTypeOK
    <3>4. QED
      BY <1>1, <2>1, <3>1, <3>2, <3>3, LockUntimed
  <2>3. SUSPENDED \in state' <=> SUSPENDED \in state
    BY <1>6, <1>8
  <2>4. EarlySuspendTypeOK'
    BY <1>1, <1>3, <1>8
    DEF EarlySuspendTypeOK, Registered, REQUESTED_AND_SUSPENDED
  <2>5. HandlersCalled'
    BY <1>1, <1>3, <2>2, <2>3
    DEF HandlersCalled, HandlersMatchState, MutexFree, Registered
  <2>6. MainLockState'
    BY <1>8, <2>2 DEF MainLockState
  <2>7. NoLostRequest'
    <3>1. state' # {REQUESTED} /\ state' # REQUESTED_AND_SUSPENDED
      BY <1>8 DEF REQUESTED_AND_SUSPENDED
    <3>2. QED
      BY <2>1, <3>1 DEF NoLostRequest
  <2>8. SuspendReArms'
    BY <1>1, <1>3, <2>2 DEF SuspendReArms, LockStep
  <2>9. ContractStep
    <3>1. REQUESTED \notin state' /\ pc # "asleep" /\ pc' # "asleep"
      BY <1>3, <1>4, <1>8
    <3>2. (active \cap SuspendLocks)' =
            (active \cap SuspendLocks) \cup {MainLock}
      BY <2>2, LocksAssumption
    <3>3. Contract!RequestOn
      BY <1>8, <2>3, <3>1, <3>2 DEF Contract!RequestOn
    <3>4. QED
      BY <3>3 DEF ContractStep, Contract!Next
  <2>10. QED
    BY <1>5, <2>1, <2>2, <2>4, <2>5, <2>6, <2>7, <2>8, <2>9
    DEF IInv, TypeOK, LockStep, WakeLockInv, SafeStep
<1>9. CASE /\ REQUESTED \in state => new_state = "mem"
           /\ UNCHANGED <<state, worklist, wlVars>>
  <2>1. UNCHANGED <<initialized, active, auto_expire, left, preventing,
                    expire_timer, expiring, wait_for_wakeup, event>>
    BY <1>9 DEF wlVars
  <2>2. WakeLockInv' /\ WakeLockTypeOK'
    BY <1>1, <2>1 DEF WakeLockInv, WakeLockTypeOK, MainLockUntimed,
                      TimerCoversLocks, PreventingCharged, Untimed
  <2>3. EarlySuspendTypeOK' /\ worklist' \in Seq(Works)
    BY <1>1, <1>3, <1>9 DEF EarlySuspendTypeOK, Registered
  <2>4. HandlersCalled'
    BY <1>1, <1>3, <1>9, <2>1
    DEF HandlersCalled, HandlersMatchState, MutexFree, Registered
  <2>5. MainLockState'
    BY <1>1, <1>3, <1>9, <2>1 DEF MainLockState
  <2>6. NoLostRequest' /\ SuspendReArms'
    BY <1>1, <1>3, <1>9, <2>1
    DEF NoLostRequest, SuspendReArms, SuspendArmed, Pending, Untimed
  <2>7. ContractStep
    BY <1>3, <1>4, <1>9, <2>1, KeepsContract
  <2>8. QED
    BY <1>5, <2>2, <2>3, <2>4, <2>5, <2>6, <2>7 DEF IInv, TypeOK, SafeStep
<1>10. QED
  BY <1>2, <1>7, <1>8, <1>9 DEF request_suspend_state

-----------------------------------------------------------------------------
(* Registration of handlers. *)

(* There is a place for every handler: before the first of a higher level. *)
LEMMA RegisterAtPlace ==
  ASSUME EarlySuspendTypeOK, NEW h \in Handlers
  PROVE  LET p == RegisterAt(h) IN
         /\ p \in 1 .. Len(handlers) + 1
         /\ \A i \in 1 .. p - 1 : Level[handlers[i]] <= Level[h]
         /\ p <= Len(handlers) => Level[handlers[p]] > Level[h]
<1>1. /\ handlers \in [1 .. Len(handlers) -> Handlers]
      /\ Len(handlers) \in Nat
  BY RegisteredPlaces
<1>2. /\ \A i \in 1 .. Len(handlers) : Level[handlers[i]] \in Nat
      /\ Level[h] \in Nat
  BY <1>1, LevelAssumption
<1> DEFINE D == {p \in 1 .. Len(handlers) + 1 :
                   p <= Len(handlers) => Level[handlers[p]] > Level[h]}
<1>3. D \in SUBSET Nat /\ Len(handlers) + 1 \in D
  BY <1>1
<1>4. PICK p \in D : \A e \in D : p <= e
  BY <1>3, MinOfNat
<1>5. p \in 1 .. Len(handlers) + 1
      /\ (p <= Len(handlers) => Level[handlers[p]] > Level[h])
  BY <1>4
<1>6. \A i \in 1 .. p - 1 : Level[handlers[i]] <= Level[h]
  <2> SUFFICES ASSUME NEW i \in 1 .. p - 1
               PROVE  Level[handlers[i]] <= Level[h]
    OBVIOUS
  <2>1. i \in 1 .. Len(handlers) /\ ~(p <= i)
    BY <1>1, <1>5
  <2>2. i \notin D
    BY <1>4, <2>1
  <2>3. ~(Level[handlers[i]] > Level[h])
    BY <1>1, <2>1, <2>2
  <2>4. QED
    BY <1>2, <2>1, <2>3
<1> HIDE DEF D
<1>7. QED
  BY <1>5, <1>6 DEF RegisterAt

LEMMA RegisterInv ==
  ASSUME IInv, NEW h \in Handlers, register_early_suspend(h),
         UNCHANGED <<wqVars, wlVars, suspendVars>>
  PROVE  SafeStep
<1> DEFINE p == RegisterAt(h)
           n == Len(handlers)
<1>1. /\ HandlersSorted /\ HandlersCalled /\ MainLockState /\ NoLostRequest
      /\ EarlySuspendTypeOK /\ HandlersMatchState
  BY DEF IInv, TypeOK, HandlersCalled
<1>2. /\ MutexFree /\ h \notin Registered
      /\ handlers' = [i \in 1 .. n + 1 |->
                        IF i < p THEN handlers[i]
                        ELSE IF i = p THEN h ELSE handlers[i - 1]]
      /\ off' = IF SUSPENDED \in state THEN off \cup {h} ELSE off
      /\ UNCHANGED <<state, pos, pc, worklist, active, requested_suspend_state>>
  BY DEF register_early_suspend, SuspendIfLate, wqVars, wlVars, suspendVars
<1>3. /\ handlers \in [1 .. n -> Handlers] /\ n \in Nat
      /\ Registered = {handlers[i] : i \in 1 .. n}
  BY <1>1, RegisteredPlaces
<1>4. /\ p \in 1 .. n + 1
      /\ \A i \in 1 .. p - 1 : Level[handlers[i]] <= Level[h]
      /\ p <= n => Level[handlers[p]] > Level[h]
  BY <1>1, RegisterAtPlace
<1>5. Level[h] \in Nat /\ \A i \in 1 .. n : Level[handlers[i]] \in Nat
  BY <1>3, LevelAssumption
<1> HIDE DEF p, n
<1>6. /\ handlers' \in [1 .. n + 1 -> Handlers]
      /\ \A i \in 1 .. n + 1 : handlers'[i] = IF i < p THEN handlers[i]
                                ELSE IF i = p THEN h ELSE handlers[i - 1]
  BY <1>2, <1>3, <1>4
<1>7. handlers' \in Seq(Handlers) /\ Len(handlers') = n + 1
      /\ DOMAIN handlers' = 1 .. n + 1
  BY <1>3, <1>6
<1>8. Registered' = Registered \cup {h}
  <2>1. Registered' = {handlers'[i] : i \in 1 .. n + 1}
    BY <1>7 DEF Registered, Range
  <2>2. ASSUME NEW i \in 1 .. n + 1
        PROVE  handlers'[i] \in Registered \cup {h}
    BY <1>3, <1>4, <1>6
  <2>3. h \in Registered'
    BY <1>4, <1>6, <2>1
  <2>4. ASSUME NEW i \in 1 .. n
        PROVE  handlers[i] \in Registered'
    <3>1. CASE i < p
      <4>1. i \in 1 .. n + 1 /\ handlers'[i] = handlers[i]
        BY <1>3, <1>4, <1>6, <3>1
      <4>2. QED
        BY <2>1, <4>1
    <3>2. CASE ~(i < p)
      <4>1. i + 1 \in 1 .. n + 1 /\ handlers'[i + 1] = handlers[i]
        BY <1>3, <1>4, <1>6, <3>2
      <4>2. QED
        BY <2>1, <4>1
    <3>3. QED
      BY <3>1, <3>2
  <2>5. QED
    BY <1>3, <2>1, <2>2, <2>3, <2>4
<1>9. EarlySuspendTypeOK'
  <2>1. off \subseteq Registered /\ pos \in 0 .. n + 1
        /\ state \subseteq REQUESTED_AND_SUSPENDED
    BY <1>1 DEF EarlySuspendTypeOK, n
  <2>2. pos' \in 0 .. Len(handlers') + 1
    BY <1>2, <1>3, <1>7, <2>1
  <2>3. QED
    BY <1>2, <1>7, <1>8, <2>1, <2>2 DEF EarlySuspendTypeOK
<1>10. HandlersSorted'
  <2>1. \A i, j \in 1 .. n : i < j => /\ handlers[i] # handlers[j]
                                      /\ Level[handlers[i]] <= Level[handlers[j]]
    BY <1>1 DEF HandlersSorted, n
  <2>2. \A i \in 1 .. n : handlers[i] # h
    BY <1>2, <1>3
  <2>3. \A i \in 1 .. n : i >= p => Level[h] <= Level[handlers[i]]
    <3> SUFFICES ASSUME NEW i \in 1 .. n, i >= p
                 PROVE  Level[h] <= Level[handlers[i]]
      OBVIOUS
    <3>1. p \in 1 .. n /\ Level[h] < Level[handlers[p]]
      BY <1>3, <1>4, <1>5
    <3>2. i = p \/ Level[handlers[p]] <= Level[handlers[i]]
      BY <1>3, <2>1, <3>1
    <3>3. QED
      BY <1>5, <3>1, <3>2
  <2>4. SUFFICES ASSUME NEW i \in 1 .. n + 1, NEW j \in 1 .. n + 1, i < j
                 PROVE  /\ handlers'[i] # handlers'[j]
                        /\ Level[handlers'[i]] <= Level[handlers'[j]]
    BY <1>7 DEF HandlersSorted
  <2>5. CASE j < p
    <3>1. /\ i \in 1 .. n /\ j \in 1 .. n
          /\ handlers'[i] = handlers[i] /\ handlers'[j] = handlers[j]
      BY <1>3, <1>4, <1>6, <2>4, <2>5
    <3>2. QED
      BY <2>1, <2>4, <3>1
  <2>6. CASE j = p
    <3>1. /\ i \in 1 .. n /\ i \in 1 .. p - 1
          /\ handlers'[i] = handlers[i] /\ handlers'[j] = h
      BY <1>3, <1>4, <1>6, <2>4, <2>6
    <3>2. QED
      BY <1>4, <2>2, <3>1
  <2>7. CASE j > p
    <3>1. j - 1 \in 1 .. n /\ j - 1 >= p /\ handlers'[j] = handlers[j - 1]
      BY <1>3, <1>4, <1>6, <2>7
    <3>2. CASE i < p
      <4>1. i \in 1 .. n /\ handlers'[i] = handlers[i] /\ i < j - 1
        BY <1>3, <1>4, <1>6, <2>4, <2>7, <3>2
      <4>2. QED
        BY <2>1, <3>1, <4>1
    <3>3. CASE i = p
      <4>1. handlers'[i] = h
        BY <1>6, <2>4, <3>3
      <4>2. QED
        BY <2>2, <2>3, <3>1, <4>1
    <3>4. CASE i > p
      <4>1. i - 1 \in 1 .. n /\ handlers'[i] = handlers[i - 1] /\ i - 1 < j - 1
        BY <1>3, <1>4, <1>6, <2>4, <3>4
      <4>2. QED
        BY <2>1, <3>1, <4>1
    <3>5. QED
      BY <1>4, <3>2, <3>3, <3>4
  <2>8. QED
    BY <1>4, <2>5, <2>6, <2>7
<1>11. HandlersCalled'
  <2>1. MutexFree' /\ pos' = 0
    BY <1>1, <1>2 DEF HandlersCalled, MutexFree
  <2>2. off' = IF SUSPENDED \in state' THEN Registered' ELSE {}
    BY <1>1, <1>2, <1>8 DEF HandlersMatchState
  <2>3. QED
    BY <2>1, <2>2 DEF HandlersCalled, HandlersMatchState, MutexFree
<1>12. MainLockState' /\ NoLostRequest'
  BY <1>1, <1>2 DEF MainLockState, NoLostRequest, Pending
<1>13. QED
  BY <1>2, <1>9, <1>10, <1>11, <1>12, LocksUntouched

LEMMA UnregisterInv ==
  ASSUME IInv, NEW h \in Handlers, unregister_early_suspend(h),
         UNCHANGED <<wqVars, wlVars, suspendVars>>
  PROVE  SafeStep
<1> DEFINE n == Len(handlers)
<1>1. /\ HandlersSorted /\ HandlersCalled /\ MainLockState /\ NoLostRequest
      /\ EarlySuspendTypeOK /\ HandlersMatchState
  BY DEF IInv, TypeOK, HandlersCalled
<1>2. PICK p \in 1 .. n :
        /\ handlers[p] = h
        /\ handlers' = [i \in 1 .. n - 1 |->
                          IF i < p THEN handlers[i] ELSE handlers[i + 1]]
  BY DEF unregister_early_suspend
<1>3. /\ MutexFree /\ off' = off \ {h}
      /\ UNCHANGED <<state, pos, pc, worklist, active, requested_suspend_state>>
  BY DEF unregister_early_suspend, wqVars, wlVars, suspendVars
<1>4. /\ handlers \in [1 .. n -> Handlers] /\ n \in Nat
      /\ Registered = {handlers[i] : i \in 1 .. n}
  BY <1>1, RegisteredPlaces
<1>5. \A i, j \in 1 .. n : i < j => /\ handlers[i] # handlers[j]
                                    /\ Level[handlers[i]] <= Level[handlers[j]]
  BY <1>1 DEF HandlersSorted
<1> HIDE DEF n
<1>6. /\ n - 1 \in Nat
      /\ handlers' \in [1 .. n - 1 -> Handlers]
      /\ \A i \in 1 .. n - 1 :
           handlers'[i] = IF i < p THEN handlers[i] ELSE handlers[i + 1]
  BY <1>2, <1>4
<1>7. handlers' \in Seq(Handlers) /\ Len(handlers') = n - 1
      /\ DOMAIN handlers' = 1 .. n - 1
  BY <1>6
<1>8. Registered' = Registered \ {h}
  <2>1. Registered' = {handlers'[i] : i \in 1 .. n - 1}
    BY <1>7 DEF Registered, Range
  <2>2. \A i \in 1 .. n : i # p => handlers[i] # h
    BY <1>2, <1>4, <1>5
  <2>3. ASSUME NEW i \in 1 .. n - 1
        PROVE  handlers'[i] \in Registered \ {h}
    <3>1. CASE i < p
      <4>1. i \in 1 .. n /\ i # p /\ handlers'[i] = handlers[i]
        BY <1>4, <1>6, <3>1
      <4>2. QED
        BY <1>4, <2>2, <4>1
    <3>2. CASE ~(i < p)
      <4>1. i + 1 \in 1 .. n /\ i + 1 # p /\ handlers'[i] = handlers[i + 1]
        BY <1>4, <1>6, <3>2
      <4>2. QED
        BY <1>4, <2>2, <4>1
    <3>3. QED
      BY <3>1, <3>2
  <2>4. ASSUME NEW i \in 1 .. n, i # p
        PROVE  handlers[i] \in Registered'
    <3>1. CASE i < p
      <4>1. i \in 1 .. n - 1 /\ handlers'[i] = handlers[i]
        BY <1>4, <1>6, <3>1
      <4>2. QED
        BY <2>1, <4>1
    <3>2. CASE i > p
      <4>1. i - 1 \in 1 .. n - 1 /\ handlers'[i - 1] = handlers[i]
        BY <1>4, <1>6, <3>2
      <4>2. QED
        BY <2>1, <4>1
    <3>3. QED
      BY <2>4, <3>1, <3>2
  <2>5. QED
    BY <1>2, <1>4, <2>1, <2>3, <2>4
<1>9. MutexFree' /\ pos' = 0
  BY <1>1, <1>3 DEF HandlersCalled, MutexFree
<1>10. EarlySuspendTypeOK'
  <2>1. off \subseteq Registered /\ state \subseteq REQUESTED_AND_SUSPENDED
    BY <1>1 DEF EarlySuspendTypeOK
  <2>2. pos' \in 0 .. Len(handlers') + 1
    BY <1>6, <1>7, <1>9
  <2>3. QED
    BY <1>3, <1>7, <1>8, <2>1, <2>2 DEF EarlySuspendTypeOK
<1>11. HandlersSorted'
  <2>1. SUFFICES ASSUME NEW i \in 1 .. n - 1, NEW j \in 1 .. n - 1, i < j
                 PROVE  /\ handlers'[i] # handlers'[j]
                        /\ Level[handlers'[i]] <= Level[handlers'[j]]
    BY <1>7 DEF HandlersSorted
  <2>2. PICK a \in 1 .. n, b \in 1 .. n :
          a < b /\ handlers'[i] = handlers[a] /\ handlers'[j] = handlers[b]
    <3>1. CASE j < p
      <4>1. i \in 1 .. n /\ j \in 1 .. n /\ handlers'[i] = handlers[i]
            /\ handlers'[j] = handlers[j]
        BY <1>4, <1>6, <2>1, <3>1
      <4>2. QED
        BY <2>1, <4>1
    <3>2. CASE i < p /\ ~(j < p)
      <4>1. i \in 1 .. n /\ j + 1 \in 1 .. n /\ handlers'[i] = handlers[i]
            /\ handlers'[j] = handlers[j + 1] /\ i < j + 1
        BY <1>4, <1>6, <2>1, <3>2
      <4>2. QED
        BY <4>1
    <3>3. CASE ~(i < p)
      <4>1. i + 1 \in 1 .. n /\ j + 1 \in 1 .. n
            /\ handlers'[i] = handlers[i + 1]
            /\ handlers'[j] = handlers[j + 1] /\ i + 1 < j + 1
        BY <1>4, <1>6, <2>1, <3>3
      <4>2. QED
        BY <4>1
    <3>4. QED
      BY <3>1, <3>2, <3>3
  <2>3. QED
    BY <1>5, <2>2
<1>12. HandlersCalled'
  <2>1. off' = IF SUSPENDED \in state' THEN Registered' ELSE {}
    BY <1>1, <1>3, <1>8 DEF HandlersMatchState
  <2>2. QED
    BY <1>9, <2>1 DEF HandlersCalled, HandlersMatchState, MutexFree
<1>13. MainLockState' /\ NoLostRequest'
  BY <1>1, <1>3 DEF MainLockState, NoLostRequest, Pending
<1>14. QED
  BY <1>3, <1>10, <1>11, <1>12, <1>13, LocksUntouched

LEMMA RegisterHandlerInv == IInv /\ RegisterHandler => SafeStep
BY RegisterInv, UnregisterInv DEF RegisterHandler

-----------------------------------------------------------------------------
(* IInv holds initially and is preserved by every step of everybody. *)
LEMMA InitInv == Init => IInv
<1> SUFFICES ASSUME Init PROVE IInv
  OBVIOUS
<1>1. /\ worklist = << >> /\ pc = "idle" /\ wakelocks_init
      /\ ret = FALSE /\ g_wkup_wkst = FALSE /\ requested_suspend_state = "mem"
      /\ state = {} /\ handlers = << >> /\ pos = 0 /\ off = {}
  BY DEF Init, WorkQueueInit, SystemSuspendInit, EarlySuspendInit
<1>2. WakeLockInv /\ SuspendArmed /\ active = {MainLock}
  BY <1>1, WakeLockInitInv
<1>3. handlers \in Seq(Handlers) /\ Len(handlers) = 0 /\ worklist \in Seq(Works)
  BY <1>1
<1>4. Registered = {}
  BY <1>1 DEF Registered, Range
<1>5. EarlySuspendTypeOK
  BY <1>1, <1>3 DEF EarlySuspendTypeOK
<1>6. TypeOK
  BY <1>1, <1>2, <1>3, <1>5 DEF TypeOK, SystemSuspendTypeOK, WakeLockInv
<1>7. HandlersSorted
  BY <1>3 DEF HandlersSorted
<1>8. HandlersCalled /\ MainLockState /\ LateUnlocked /\ SuspendReArms
  BY <1>1, <1>2, <1>4 DEF HandlersCalled, HandlersMatchState, MutexFree,
                          MainLockState, LateUnlocked, SuspendReArms
<1>9. NoLostRequest
  BY <1>1 DEF NoLostRequest, REQUESTED_AND_SUSPENDED
<1>10. QED
  BY <1>2, <1>6, <1>7, <1>8, <1>9 DEF IInv

LEMMA StutterInv == IInv /\ UNCHANGED vars => SafeStep
<1> SUFFICES ASSUME IInv, UNCHANGED vars PROVE SafeStep
  OBVIOUS
<1>1. UNCHANGED <<wlVars, worklist, suspendVars, pc, state, handlers, pos, off>>
      /\ UNCHANGED <<active, requested_suspend_state>>
  BY DEF vars, wqVars, earlyVars, wlVars, suspendVars
<1>2. /\ EarlySuspendTypeOK' /\ HandlersSorted' /\ HandlersCalled'
      /\ MainLockState' /\ NoLostRequest'
  BY <1>1 DEF IInv, TypeOK, EarlySuspendTypeOK, Registered, HandlersSorted,
              HandlersCalled, HandlersMatchState, MutexFree, MainLockState,
              NoLostRequest, Pending
<1>3. QED
  BY <1>1, <1>2, LocksUntouched

(* IInv is an invariant of the power manager, whatever the locks, the      *)
(* handlers, their levels and the timeouts are.                            *)
THEOREM Invariance == Spec => []IInv
<1>1. Init => IInv
  BY InitInv
<1>2. IInv /\ [Next]_vars => IInv'
  BY StutterInv, TakeWorkInv, SuspendInv, EarlySuspendInv, LateResumeInv,
     ClockInv, TimerDueStep, TimerRunsInv, WriteStateInv, WriteWakeLockInv,
     RegisterHandlerInv, CreateOrDestroyLockInv, DriverInterruptInv,
     LateDriverInv
  DEF Next, Worker, SafeStep
<1>3. QED
  BY <1>1, <1>2, PTL DEF Spec

(* The power manager implements the contract of opportunistic suspend:     *)
(* hidden behind the mapping, its steps are those of SuspendContract.      *)
THEOREM ImplementsContract == Spec => ContractSpec
<1>1. Init => Contract!Init
  <2> SUFFICES ASSUME Init PROVE Contract!Init
    OBVIOUS
  <2>1. /\ active \cap SuspendLocks = {MainLock}
        /\ REQUESTED \notin state /\ SUSPENDED \notin state /\ pc # "asleep"
    BY LocksAssumption
    DEF Init, wakelocks_init, WorkQueueInit, EarlySuspendInit
  <2>2. QED
    BY <2>1 DEF Contract!Init
<1>2. IInv /\ [Next]_vars => ContractStep
  BY StutterInv, TakeWorkInv, SuspendInv, EarlySuspendInv, LateResumeInv,
     ClockInv, TimerDueStep, TimerRunsInv, WriteStateInv, WriteWakeLockInv,
     RegisterHandlerInv, CreateOrDestroyLockInv, DriverInterruptInv,
     LateDriverInv
  DEF Next, Worker, SafeStep
<1>3. QED
  BY <1>1, <1>2, Invariance, PTL
  DEF Spec, ContractSpec, Contract!Spec, ContractStep

-----------------------------------------------------------------------------
(* The safety properties. *)

(* Every variable keeps its type: flags of locks agree with the lists they *)
(* are on, time left fits a long, the worker is at one of its labels.      *)
THEOREM TypeCorrect == Spec => []TypeOK
<1>1. IInv => TypeOK
  BY DEF IInv
<1>2. QED
  BY <1>1, Invariance, PTL

(* The system never enters suspend with a wake lock held, except one that  *)
(* a timer or a PF_NOFREEZE thread took after power_suspend_late.          *)
THEOREM SleepsUnlocked == Spec => []SleepOnlyUnlocked
<1>1. IInv => SleepOnlyUnlocked
  BY DEF IInv, LateUnlocked, SleepOnlyUnlocked
<1>2. QED
  BY <1>1, Invariance, PTL

(* early_suspend gives the main lock back only for a device whose sleep is *)
(* requested and whose handlers are all suspended.                         *)
THEOREM MainLockSafe == Spec => []MainLockHeld
<1>1. IInv => MainLockHeld
  <2> SUFFICES ASSUME IInv, MainLock \notin active
               PROVE  state = REQUESTED_AND_SUSPENDED /\ off = Registered
    BY DEF MainLockHeld
  <2>1. HandlersCalled /\ HandlersMatchState /\ MainLockState
    BY DEF IInv, HandlersCalled
  <2>2. state = REQUESTED_AND_SUSPENDED /\ SUSPENDED \in state
    BY <2>1 DEF MainLockState, REQUESTED_AND_SUSPENDED
  <2>3. MutexFree
    BY <2>1, <2>2 DEF HandlersCalled, MutexFree
  <2>4. QED
    BY <2>1, <2>2, <2>3 DEF HandlersMatchState
<1>2. QED
  BY <1>1, Invariance, PTL

(* The system sleeps only while the user wants it to and every handler has *)
(* been suspended: the main lock is not one that can be taken late, so it  *)
(* is not held.                                                            *)
THEOREM SleepsWhenOff == Spec => []SleepOnlyWhenOff
<1>1. IInv => SleepOnlyWhenOff
  <2> SUFFICES ASSUME IInv, pc = "asleep"
               PROVE  /\ state = REQUESTED_AND_SUSPENDED
                      /\ requested_suspend_state = "mem"
                      /\ off = Registered
    BY DEF SleepOnlyWhenOff
  <2>1. /\ LateUnlocked /\ MainLockState /\ HandlersMatchState
    BY DEF IInv, HandlersCalled
  <2>2. MainLock \notin active
    BY <2>1, LocksAssumption, DriverLocksAssumption DEF LateUnlocked
  <2>3. state = REQUESTED_AND_SUSPENDED /\ requested_suspend_state = "mem"
    BY <2>1, <2>2 DEF MainLockState, REQUESTED_AND_SUSPENDED
  <2>4. off = Registered
    BY <2>1, <2>3 DEF HandlersMatchState, MutexFree, REQUESTED_AND_SUSPENDED
  <2>5. QED
    BY <2>3, <2>4
<1>2. QED
  BY <1>1, Invariance, PTL

(* While no lock without timeout is held, the next attempt to suspend is   *)
(* under way, queued or on the timer.                                      *)
THEOREM SuspendNotLost == Spec => []NoLostSuspend
<1>1. IInv => NoLostSuspend
  BY DEF IInv, SuspendReArms, NoLostSuspend
<1>2. QED
  BY <1>1, Invariance, PTL

(* A requested change of state has its work item pending or running until  *)
(* it is carried out.                                                      *)
THEOREM RequestNotLost == Spec => []NoLostRequest
<1>1. IInv => NoLostRequest
  BY DEF IInv
<1>2. QED
  BY <1>1, Invariance, PTL

(* No handler is off while one of a lower level is on. *)
THEOREM LevelsOrdered == Spec => []LevelOrder
<1>1. IInv => LevelOrder
  <2> SUFFICES ASSUME IInv, NEW h \in off, NEW g \in Registered,
                      Level[g] < Level[h]
               PROVE  g \in off
    BY DEF LevelOrder
  <2>1. /\ HandlersSorted /\ HandlersCalled /\ HandlersMatchState
        /\ EarlySuspendTypeOK
    BY DEF IInv, HandlersCalled, TypeOK
  <2>2. /\ handlers \in [1 .. Len(handlers) -> Handlers]
        /\ Len(handlers) \in Nat
        /\ Registered = {handlers[i] : i \in 1 .. Len(handlers)}
        /\ pos \in 0 .. Len(handlers) + 1
    BY <2>1, RegisteredPlaces DEF EarlySuspendTypeOK
  <2>3. CASE MutexFree
    BY <2>1, <2>3 DEF HandlersMatchState
  <2>4. ASSUME NEW m \in 0 .. Len(handlers),
               off = {handlers[i] : i \in 1 .. m}
        PROVE  g \in off
    <3>1. PICK i \in 1 .. m : h = handlers[i]
      BY <2>4
    <3>2. PICK j \in 1 .. Len(handlers) : g = handlers[j]
      BY <2>2
    <3>3. i \in 1 .. Len(handlers) /\ Level[handlers[i]] \in Nat
          /\ Level[handlers[j]] \in Nat
      BY <2>2, LevelAssumption
    <3>4. ~(i < j)
      BY <2>1, <3>1, <3>2, <3>3 DEF HandlersSorted
    <3>5. j \in 1 .. m
      BY <2>2, <3>4
    <3>6. QED
      BY <2>4, <3>2, <3>5
  <2>5. CASE pc = "call_suspend"
    <3>1. pos - 1 \in 0 .. Len(handlers)
          /\ off = {handlers[i] : i \in 1 .. pos - 1}
      BY <2>1, <2>2, <2>5 DEF HandlersCalled
    <3>2. QED
      BY <2>4, <3>1
  <2>6. CASE pc = "call_resume"
    <3>1. pos \in 0 .. Len(handlers) /\ off = {handlers[i] : i \in 1 .. pos}
      BY <2>1, <2>2, <2>6 DEF HandlersCalled
    <3>2. QED
      BY <2>4, <3>1
  <2>7. QED
    BY <2>3, <2>5, <2>6 DEF MutexFree
<1>2. QED
  BY <1>1, Invariance, PTL

(* While early_suspend_lock is free, the bit SUSPENDED says what the       *)
(* handlers were told.                                                     *)
THEOREM HandlersAgree == Spec => []HandlersMatchState
<1>1. IInv => HandlersMatchState
  BY DEF IInv, HandlersCalled
<1>2. QED
  BY <1>1, Invariance, PTL

(* The flag WAKE_LOCK_PREVENTING_SUSPEND follows the main lock and the     *)
(* locks without timeout.                                                  *)
THEOREM StatisticsRight == Spec => []PreventingCharged
<1>1. IInv => PreventingCharged
  BY DEF IInv, WakeLockInv
<1>2. QED
  BY <1>1, Invariance, PTL
=============================================================================
