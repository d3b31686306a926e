---------------------------- MODULE ValidationHelper ----------------------------
(***************************************************************************)
(* A validation request: begin, the exchange with Apple, and finish, as    *)
(* generate_validation_data_with_provider calls them                       *)
(* (crates/rustpush-backend/src/validation.rs:111-149), the process of     *)
(* litebubbles-validation-helper that each request starts, and the pipes   *)
(* between them, beside commands that install and remove the component.    *)
(*                                                                         *)
(* The foreign library in the helper is external: it may hang, crash, or,  *)
(* as it shares the helper's memory, make the helper answer anything.      *)
(***************************************************************************)
EXTENDS ValidationComponent

CONSTANT Request

VARIABLES
  pc,       \* where each request is
  large,    \* whether its first message is more than the pipe holds
  helper,   \* where its helper process is, and with which status it ended
  input,    \* what waits on the helper's stdin
  output    \* the line that waits on its stdout

requestVars == <<pc, large, helper, input, output>>
validationVars == <<componentVars, requestVars>>

(* A line is overlong, or its payload, once decoded, oversized.            *)
Answers == {"good", "empty", "malformed", "overlong", "oversized"}
Finished == {"idle", "MissingComponent", "HelperSpawnFailed", "HelperCrashed", "HelperTimeout",
             "HelperNonzeroExit", "MalformedOutput", "OversizedInput", "EmptyValidationData",
             "AppleService", "validated", "abandoned"}
HelperWaits == {"writeInitial", "readSession", "writeResponse", "readResult", "waitForChild"}
RequestPlaces == Finished \union HelperWaits \union {"apple"}

Gone == {"none", "reaped"}
HelperPlaces == Gone \union {"start", "readInitial", "initialize", "readResponse", "sign",
                             "ending", "exited", "failed"}

ValidationTypeOK ==
  /\ ComponentTypeOK
  /\ pc \in [Request -> RequestPlaces]
  /\ large \in [Request -> BOOLEAN]
  /\ helper \in [Request -> HelperPlaces]
  /\ input \in [Request -> {"nothing", "line", "closed"}]
  /\ output \in [Request -> Answers \union {"nothing"}]

ValidationInit ==
  /\ ComponentInit
  /\ pc = [r \in Request |-> "idle"]
  /\ large \in [Request -> BOOLEAN]
  /\ helper = [r \in Request |-> "none"]
  /\ input = [r \in Request |-> "nothing"]
  /\ output = [r \in Request |-> "nothing"]

Go(r, from, to) == pc[r] = from /\ pc' = [pc EXCEPT ![r] = to]
HelperGo(r, from, to) == helper[r] = from /\ helper' = [helper EXCEPT ![r] = to]
Alive(r) == helper[r] \notin Gone \union {"exited", "failed"}

(* Killed, if it still runs, and waited for; its pipes go with it.         *)
Terminate(r) ==
  /\ helper' = [helper EXCEPT ![r] = "reaped"]
  /\ input' = [input EXCEPT ![r] = "closed"]
  /\ output' = [output EXCEPT ![r] = "nothing"]

-----------------------------------------------------------------------------
(* begin                                                                   *)

RequestTooLong(r) ==
  /\ Go(r, "idle", "OversizedInput")
  /\ UNCHANGED <<componentVars, large, helper, input, output>>

(* Any error of validate_component_directory, whatever it finds wrong.     *)
ComponentMissing(r) ==
  /\ component.files # "all"
  /\ Go(r, "idle", "MissingComponent")
  /\ UNCHANGED <<componentVars, large, helper, input, output>>

Spawn(r) ==
  /\ component.files = "all"
  /\ Go(r, "idle", "writeInitial")
  /\ helper' = [helper EXCEPT ![r] = "start"]
  /\ UNCHANGED <<componentVars, large, input, output>>

(* A helper that cannot be started, or is refused by validate_helper_path. *)
SpawnFails(r) ==
  /\ component.files = "all"
  /\ Go(r, "idle", "HelperSpawnFailed")
  /\ UNCHANGED <<componentVars, large, helper, input, output>>

(* A large message is only written when the helper reads it, and writes    *)
(* have no deadline: a library that hangs as it is loaded holds this one   *)
(* for ever.                                                               *)
WriteInitial(r) ==
  /\ Alive(r)
  /\ large[r] => helper[r] = "readInitial"
  /\ Go(r, "writeInitial", "readSession")
  /\ input' = [input EXCEPT ![r] = "line"]
  /\ UNCHANGED <<componentVars, large, helper, output>>

WriteFails(r) ==
  /\ ~Alive(r)
  /\ pc[r] \in {"writeInitial", "writeResponse"}
  /\ pc' = [pc EXCEPT ![r] = "HelperCrashed"]
  /\ Terminate(r)
  /\ UNCHANGED <<componentVars, large>>

Bug_ErrorForgetsChild(r) ==
  /\ pc[r] = "readSession" /\ output[r] # "nothing"
  /\ pc' = [pc EXCEPT ![r] = IF output[r] = "good" THEN "apple" ELSE "MalformedOutput"]
  /\ output' = [output EXCEPT ![r] = "nothing"]
  /\ UNCHANGED <<componentVars, large, helper, input>>

(* An oversized session info is refused with the child left behind: it is  *)
(* not killed, but its stdin is closed (lib.rs:492).                       *)
ReadSession(r) ==
  /\ pc[r] = "readSession" /\ output[r] # "nothing"
  /\ pc' = [pc EXCEPT ![r] = CASE output[r] = "good" -> "apple"
                               [] output[r] \in {"overlong", "oversized"} -> "OversizedInput"
                               [] OTHER -> "MalformedOutput"]
  /\ CASE output[r] = "good" ->
            output' = [output EXCEPT ![r] = "nothing"] /\ UNCHANGED <<helper, input>>
       [] output[r] = "oversized" ->
            /\ input' = [input EXCEPT ![r] = "closed"]
            /\ output' = [output EXCEPT ![r] = "nothing"]
            /\ UNCHANGED helper
       [] OTHER -> Terminate(r)
  /\ UNCHANGED <<componentVars, large>>

(* Both reads: the end of the helper's output without a line.              *)
ReadFails(r) ==
  /\ ~Alive(r) /\ output[r] = "nothing"
  /\ pc[r] \in {"readSession", "readResult"}
  /\ pc' = [pc EXCEPT ![r] = "HelperCrashed"]
  /\ Terminate(r)
  /\ UNCHANGED <<componentVars, large>>

-----------------------------------------------------------------------------
(* The exchange with Apple, which holds the helper as it waits.            *)

AppleAnswers(r) ==
  /\ Go(r, "apple", "writeResponse")
  /\ UNCHANGED <<componentVars, large, helper, input, output>>

(* The session is dropped, and its helper with it.                         *)
AppleFails(r) ==
  /\ Go(r, "apple", "AppleService")
  /\ Terminate(r)
  /\ UNCHANGED <<componentVars, large>>

(* finish refuses a response that is too long, and drops the session.      *)
ResponseTooLong(r) ==
  /\ Go(r, "writeResponse", "OversizedInput")
  /\ Terminate(r)
  /\ UNCHANGED <<componentVars, large>>

-----------------------------------------------------------------------------
(* finish                                                                  *)

(* The response, too, can be more than the pipe holds, and its write has   *)
(* no deadline: the helper must read, which is all that it does after its  *)
(* answer.                                                                 *)
WriteResponse(r) ==
  /\ helper[r] = "readResponse"
  /\ Go(r, "writeResponse", "readResult")
  /\ input' = [input EXCEPT ![r] = "line"]
  /\ UNCHANGED <<componentVars, large, helper, output>>

(* Every error drops the session, which terminates a child that runs.      *)
ReadResult(r) ==
  /\ pc[r] = "readResult" /\ output[r] # "nothing"
  /\ pc' = [pc EXCEPT ![r] = CASE output[r] = "good" -> "waitForChild"
                               [] output[r] \in {"overlong", "oversized"} -> "OversizedInput"
                               [] output[r] = "empty" -> "EmptyValidationData"
                               [] OTHER -> "MalformedOutput"]
  /\ IF output[r] = "good"
       THEN output' = [output EXCEPT ![r] = "nothing"] /\ UNCHANGED <<helper, input>>
       ELSE Terminate(r)
  /\ UNCHANGED <<componentVars, large>>

Bug_StatusIsTheResult(r) ==
  /\ pc[r] = "waitForChild" /\ helper[r] \in {"exited", "failed"}
  /\ pc' = [pc EXCEPT ![r] = helper[r]]
  /\ Terminate(r)
  /\ UNCHANGED <<componentVars, large>>

(* A result counts only when the helper ended well.                        *)
WaitForChild(r) ==
  /\ pc[r] = "waitForChild" /\ helper[r] \in {"exited", "failed"}
  /\ pc' = [pc EXCEPT ![r] = IF helper[r] = "exited" THEN "validated" ELSE "HelperNonzeroExit"]
  /\ Terminate(r)
  /\ UNCHANGED <<componentVars, large>>

Bug_WaitHasNoDeadline(r) ==
  /\ pc[r] \in {"readSession", "readResult"}
  /\ pc' = [pc EXCEPT ![r] = "HelperTimeout"]
  /\ Terminate(r)
  /\ UNCHANGED <<componentVars, large>>

(* HELPER_TIMEOUT, of each read and of the wait.                           *)
Timeout(r) ==
  /\ pc[r] \in {"readSession", "readResult", "waitForChild"}
  /\ pc' = [pc EXCEPT ![r] = "HelperTimeout"]
  /\ Terminate(r)
  /\ UNCHANGED <<componentVars, large>>

(* The process that made the request ends, and so do its pipes; the helper *)
(* is left to itself.                                                      *)
ProviderDies(r) ==
  /\ pc[r] \notin Finished
  /\ pc' = [pc EXCEPT ![r] = "abandoned"]
  /\ input' = [input EXCEPT ![r] = "closed"]
  /\ output' = [output EXCEPT ![r] = "nothing"]
  /\ UNCHANGED <<componentVars, large, helper>>

-----------------------------------------------------------------------------
(* The helper                                                              *)

HelperLoads(r) ==
  /\ component.files = "all"
  /\ HelperGo(r, "start", "readInitial")
  /\ UNCHANGED <<componentVars, pc, large, input, output>>

HelperReads(r) ==
  /\ input[r] = "line"
  /\ HelperGo(r, "readInitial", "initialize") \/ HelperGo(r, "readResponse", "sign")
  /\ input' = [input EXCEPT ![r] = "nothing"]
  /\ UNCHANGED <<componentVars, pc, large, output>>

HelperSeesEnd(r) ==
  /\ input[r] = "closed"
  /\ HelperGo(r, "readInitial", "failed") \/ HelperGo(r, "readResponse", "failed")
  /\ UNCHANGED <<componentVars, pc, large, input, output>>

(* An answer nobody reads any more is an error of the pipe.                *)
HelperAnswers(r, answer) ==
  /\ input[r] # "closed"
  /\ HelperGo(r, "initialize", "readResponse") \/ HelperGo(r, "sign", "ending")
  /\ output' = [output EXCEPT ![r] = answer]
  /\ UNCHANGED <<componentVars, pc, large, input>>

(* The library is unloaded and the process ends.                           *)
HelperEnds(r) ==
  /\ HelperGo(r, "ending", "exited")
  /\ UNCHANGED <<componentVars, pc, large, input, output>>

(* The component is gone, an error of the helper, or a crash of the        *)
(* library.                                                                *)
HelperFails(r) ==
  /\ Alive(r)
  /\ helper' = [helper EXCEPT ![r] = "failed"]
  /\ UNCHANGED <<componentVars, pc, large, input, output>>

-----------------------------------------------------------------------------
ProviderStep(r) ==
  \/ WriteInitial(r) \/ WriteFails(r) \/ ReadSession(r) \/ ReadFails(r)
  \/ ResponseTooLong(r) \/ WriteResponse(r) \/ ReadResult(r) \/ WaitForChild(r) \/ Timeout(r)

OutsideStep(r) ==
  \/ RequestTooLong(r) \/ ComponentMissing(r) \/ Spawn(r) \/ SpawnFails(r)
  \/ AppleAnswers(r) \/ AppleFails(r) \/ ProviderDies(r)

HelperReadsInput(r) == HelperReads(r) \/ HelperSeesEnd(r)
HelperWorks(r) ==
  \/ HelperLoads(r) \/ (\E answer \in Answers : HelperAnswers(r, answer))
  \/ HelperEnds(r) \/ HelperFails(r)

ValidationNext ==
  \/ \E r \in Request : ProviderStep(r) \/ OutsideStep(r) \/ HelperReadsInput(r) \/ HelperWorks(r)
  \/ ComponentNext /\ UNCHANGED requestVars

(* The provider's thread runs, deadlines pass and a read that has input    *)
(* returns; nothing is assumed of the library, the user or Apple.          *)
ValidationSpec ==
  /\ ValidationInit /\ [][ValidationNext]_validationVars
  /\ \A r \in Request : WF_validationVars(ProviderStep(r)) /\ WF_validationVars(HelperReadsInput(r))

-----------------------------------------------------------------------------
(* A request that has ended leaves no helper behind: not on any error of   *)
(* either phase, and not when the exchange with Apple fails.  The          *)
(* exception is an oversized session info (lib.rs:492), whose helper is    *)
(* not waited for but at least finds its input closed; when the process    *)
(* that asked dies, nobody is left to wait.                                *)
HelperIsReaped ==
  \A r \in Request :
    /\ pc[r] \in Finished \ {"OversizedInput", "abandoned"} => helper[r] \in Gone
    /\ pc[r] = "OversizedInput" => helper[r] \in Gone \/ input[r] = "closed"

(* docs/validation-provider.md:23 "A helper crash, timeout, malformed      *)
(* response [...] becomes a safe provider error": the provider never waits *)
(* for ever for a helper, whatever the library does, as long as the first  *)
(* message fits the pipe.                                                  *)
WaitingEnds ==
  \A r \in Request : (pc[r] \in HelperWaits /\ ~large[r]) ~> pc[r] \notin HelperWaits
=============================================================================
