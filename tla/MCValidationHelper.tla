--------------------------- MODULE MCValidationHelper ---------------------------
(* One validation request beside two installs and a removal.               *)
EXTENDS ValidationHelper

CONSTANTS install1, install2, remove1, request1

MCInstaller == {install1, install2}
MCRemover == {remove1}
MCRequest == {request1}
=============================================================================
