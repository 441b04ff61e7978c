----------------------------- MODULE MCAdmission -----------------------------
(***************************************************************************)
(* An instance of Admission for TLC: two requests of one worker and one of *)
(* another; two of the three are for a namespace; there is one credit.     *)
(***************************************************************************)
EXTENDS Admission, TLC

CONSTANTS r1, r2, r3, w1, w2, G, L

MCWorker == r1 :> w1 @@ r2 :> w1 @@ r3 :> w2
MCTarget == r1 :> G @@ r2 :> L @@ r3 :> G
=============================================================================
