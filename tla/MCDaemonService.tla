--------------------------- MODULE MCDaemonService ---------------------------
(* The D-Bus service with three calls at once, two of them refreshes.      *)
EXTENDS DaemonService

CONSTANTS a, b, c

MCRefreshCall == {a, b}
MCOtherCall == {c}
MCFields == {"notifications", "previews"}
MCValues == {"on", "off"}
MCDefaultSettings == [f \in MCFields |-> "off"]
MCChanges == {[notifications |-> "on"], [previews |-> "on"]}
=============================================================================
