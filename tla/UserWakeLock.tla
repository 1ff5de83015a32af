---------------------------- MODULE UserWakeLock ----------------------------
(***************************************************************************)
(* /sys/power/wake_lock and /sys/power/wake_unlock                         *)
(* (kernel/power/userwakelock.c).  The rbtree of names is the set of       *)
(* initialized user locks; tree_lock makes each write one step.            *)
(*                                                                         *)
(* The timeout, written in nanoseconds, is an unsigned 64-bit number; it   *)
(* is rounded up to jiffies and then stored in a long.  U64Max and LongMax *)
(* are the largest values of the two types.                                *)
(***************************************************************************)
EXTENDS WakeLock

CONSTANTS
  UserLocks,       \* the locks with a name user space may write
  U64Max,          \* the largest u64
  NsecPerJiffy,    \* NSEC_PER_SEC / HZ
  UserTimeouts     \* the timeouts user space may write

ASSUME UserLocksAssumption ==
  UserLocks \subseteq SuspendLocks \ {MainLock, UnknownWakeup}

ASSUME UserTimeoutsAssumption ==
  /\ NsecPerJiffy \in Nat \ {0}
  /\ U64Max \in Nat
  /\ UserTimeouts \subseteq 0 .. U64Max

(* Conversion of an integer to a long keeps its low bits. *)
ToLong(n) ==
  LET m == n % (2 * LongMax + 2)
  IN  IF m > LongMax THEN m - (2 * LongMax + 2) ELSE m

(* do_div(timeout + NSEC_PER_SEC / HZ - 1, NSEC_PER_SEC / HZ) in u64, at   *)
(* least 1, assigned to a long.                                            *)
jiffies_timeout(nsec) ==
  LET jiffies == ((nsec + NsecPerJiffy - 1) % (U64Max + 1)) \div NsecPerJiffy
  IN  ToLong(IF jiffies <= 0 THEN 1 ELSE jiffies)

(***************************************************************************)
(* wake_lock_store: a name not yet in the tree gets a new lock, which is   *)
(* then taken under the same tree_lock.  nsec is NoTimeout for a write of  *)
(* the name alone, which sets the timeout to 0.                            *)
(***************************************************************************)
NoTimeout == -1

lookup_timeout(nsec) == IF nsec = NoTimeout THEN 0 ELSE jiffies_timeout(nsec)

wake_lock_store(l, nsec) ==
  LET timeout == lookup_timeout(nsec) IN
  /\ initialized' = initialized \cup {l}
  /\ wake_lock_internal(l, timeout # 0, timeout)
  /\ IF timeout # 0 THEN QueueIfExpired(l, timeout) ELSE UNCHANGED worklist

(* wake_unlock_store: -EINVAL, and no effect, for a name not in the tree. *)
wake_unlock_store(l) == wake_unlock(l)
=============================================================================
