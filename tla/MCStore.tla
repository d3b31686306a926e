-------------------------------- MODULE MCStore --------------------------------
(* Three conversations and two messages at two times, a message in the     *)
(* conversation that is read or in another, pages of one or two.           *)
EXTENDS Store

MCConversation == 1..3
MCMessage == 1..2
MCTime == 0..1
MCLimits == {1, 2}
=============================================================================
