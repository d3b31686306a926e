------------------------------- MODULE MCShell -------------------------------
(* The shell with three conversations in the fixture, or a daemon.         *)
EXTENDS Shell

CONSTANTS a, b, c

MCConversations == <<a, b, c>>

(* Daemons that are older, as old, newer and both newer and incompatible.  *)
MCApp == [min |-> 2, max |-> 3]
MCBuilds == {range \in [min : 1..4, max : 1..4] : range.min <= range.max}
=============================================================================
