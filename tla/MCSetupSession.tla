--------------------------- MODULE MCSetupSession ---------------------------
(* The setup reducer, its view and an adapter, with two identities.        *)
EXTENDS SetupSession

CONSTANTS alice, bob

MCIdentity == {alice, bob}
=============================================================================
