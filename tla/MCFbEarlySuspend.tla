-------------------------- MODULE MCFbEarlySuspend --------------------------
(***************************************************************************)
(* Model values for FbEarlySuspend.                                        *)
(***************************************************************************)
EXTENDS FbEarlySuspend

CONSTANTS r1, r2, worker

OneReader == {r1}
TwoReaders == {r1, r2}
=============================================================================
