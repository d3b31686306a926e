---------------------------- MODULE MCSecretService ----------------------------
(* Two processes, two keys and two values; the processes are alike.        *)
EXTENDS SecretService, TLC

CONSTANTS p1, p2, session, hardware, old, new

MCClient == {p1, p2}
MCKey == {session, hardware}
MCValue == {old, new}
=============================================================================
