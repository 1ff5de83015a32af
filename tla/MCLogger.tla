------------------------------ MODULE MCLogger ------------------------------
(***************************************************************************)
(* Small logs for TLC.                                                     *)
(***************************************************************************)
EXTENDS Logger

ShortLens == {1, 2}
=============================================================================
