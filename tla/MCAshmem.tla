------------------------------ MODULE MCAshmem ------------------------------
(***************************************************************************)
(* A long and a short area for TLC.                                        *)
(***************************************************************************)
EXTENDS Ashmem, TLC

CONSTANTS long, short

LongAndShort == long :> {0, 3} @@ short :> {4}
SlabSymmetry == Permutations(Ranges)
=============================================================================
