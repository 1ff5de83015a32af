------------------------------ MODULE MCBinder ------------------------------
(***************************************************************************)
(* A few processes for TLC.                                                *)
(***************************************************************************)
EXTENDS Binder, TLC

CONSTANTS P, Q, R, a, b, c

NoOneWay == {FALSE}
AllKinds == BOOLEAN

OneThreadEach == a :> P @@ b :> Q @@ c :> R
TwoInOne == a :> P @@ b :> Q @@ c :> Q

(* Processes are alike, and so are transactions.                           *)
ProcSymmetry ==
  {f \in Permutations({P, Q, R, a, b, c}) :
     \A h \in {a, b, c} :
       f[h] \in {a, b, c} /\ OneThreadEach[f[h]] = f[OneThreadEach[h]]}
PeerSymmetry == {f @@ g : f \in ProcSymmetry, g \in Permutations(Txns)}
PoolSymmetry == {f @@ g : f \in Permutations({b, c}), g \in Permutations(Txns)}
=============================================================================
