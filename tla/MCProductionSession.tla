-------------------------- MODULE MCProductionSession --------------------------
(* Two setups and one command that sends or listens, for one account   *)
(* that may be signed out once.  The setups are interchangeable and no     *)
(* property is about liveness.                                             *)
EXTENDS SignOut, TLC

CONSTANTS setup1, setup2, use1

MCSetup == {setup1, setup2}
MCUse == {use1}
MCSymmetry == Permutations(MCSetup)
=============================================================================
