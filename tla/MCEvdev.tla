------------------------------ MODULE MCEvdev -------------------------------
(***************************************************************************)
(* Two clients for TLC, and rings of four events that are overrun.         *)
(***************************************************************************)
EXTENDS Evdev, TLC

ClientSymmetry == Permutations(Clients)

(* Bound: of two open clients one has been passed no event, or both have   *)
(* been passed a single one, so that one ring at a time fills and wraps.   *)
OneRing ==
  \A c \in Clients : ~ Freed(c) /\ Len(recent[c]) > 1 =>
    \A d \in Clients \ {c} : Freed(d) \/ recent[d] = << >>
=============================================================================
