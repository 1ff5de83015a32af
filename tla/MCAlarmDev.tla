----------------------------- MODULE MCAlarmDev -----------------------------
(***************************************************************************)
(* One file with a thread that waits and a thread that sets, beside a file *)
(* of another process.                                                     *)
(***************************************************************************)
EXTENDS AlarmDev

CONSTANTS waiter, setter, other, manager, stranger

AllThreads == {waiter, setter, other}
OneWaiter == {waiter, other}
FileOf == [t \in AllThreads |-> IF t = other THEN stranger ELSE manager]
=============================================================================
