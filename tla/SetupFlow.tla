------------------------------ MODULE SetupFlow ------------------------------
(***************************************************************************)
(* The first-run setup reducer, SetupState::transition of                  *)
(* crates/app/src/setup.rs.  One action is one arm of the reducer: a       *)
(* control of the view or an update of the backend, applied to the state.  *)
(* An event the reducer answers with SetupTransition::Ignored changes      *)
(* nothing and is a stuttering step.                                       *)
(*                                                                         *)
(* The text of a form is reduced to whether is_valid() accepts it, an      *)
(* identity list to the set of its ids and whether an id occurs twice.     *)
(* Nothing here restricts when an update arrives: a backend may send any   *)
(* update in any stage.  SetupSession adds the adapter and the view.       *)
(***************************************************************************)
CONSTANTS
  Identity,     \* identities the account may be offered
  NoIdentity    \* selected_identity = None

ASSUME NoIdentityAssumption == NoIdentity \notin Identity

VARIABLES
  stage, connection, identities, selected, error, retry,
  effect        \* the SetupEffect of the last transition that was Applied

flowVars == <<stage, connection, identities, selected, error, retry, effect>>

None == "None"

Stages == {"FirstRun", "Activation", "Provisioning", "AppleLogin", "TwoFactor",
           "IdentitySelection", "Connecting", "Complete", "Error"}

Connections == {"Disconnected", "Connecting", "Connected", "Failed"}

RecoverableErrors ==
  {"InvalidActivationInput", "InvalidAppleLoginInput", "InvalidTwoFactorInput",
   "ProvisioningFailed", "AuthenticationFailed", "TwoFactorRejected",
   "NoIdentityAvailable", "InvalidIdentityList", "IdentitySelectionFailed",
   "ConnectionLost", "BackendUnavailable"}

EffectKinds == {None, "Provision", "Authenticate", "VerifyTwoFactor",
                "ConfirmIdentity", "Reconnect"}

Effects == [op : EffectKinds, identity : Identity \union {NoIdentity}]

TypeOK ==
  /\ stage \in Stages
  /\ connection \in Connections
  /\ identities \in SUBSET Identity
  /\ selected \in Identity \union {NoIdentity}
  /\ error \in RecoverableErrors \union {None}
  /\ retry \in Stages \union {None}
  /\ effect \in Effects

Init ==
  /\ stage = "FirstRun"
  /\ connection = "Disconnected"
  /\ identities = {}
  /\ selected = NoIdentity
  /\ error = None
  /\ retry = None
  /\ effect = [op |-> None, identity |-> NoIdentity]

-----------------------------------------------------------------------------
(* The two ways every arm leaves its state.  A definition named Bug_...    *)
(* is a plausible error in the one that follows it; no action uses it.     *)

Emit(op) == effect' = [op |-> op, identity |-> NoIdentity]

MoveTo(s, c, r) ==
  /\ stage' = s
  /\ connection' = c
  /\ error' = None
  /\ retry' = r

ShowError(e, r, c) ==
  /\ stage' = "Error"
  /\ connection' = c
  /\ error' = e
  /\ retry' = r

KeepChoice == UNCHANGED <<identities, selected>>

OrElse(s, default) == IF s = None THEN default ELSE s

-----------------------------------------------------------------------------
(* Controls of the view.                                                   *)

Begin ==
  /\ stage = "FirstRun"
  /\ MoveTo("Activation", "Disconnected", None)
  /\ KeepChoice /\ Emit(None)

(* A form page submits to a busy page, or shows why its input is refused.  *)
Submit(page, busy, valid, op, refusal) ==
  /\ stage = page
  /\ IF valid
       THEN MoveTo(busy, "Connecting", page) /\ Emit(op)
       ELSE ShowError(refusal, page, "Disconnected") /\ Emit(None)
  /\ KeepChoice

SubmitActivation(valid) ==
  Submit("Activation", "Provisioning", valid, "Provision", "InvalidActivationInput")

SubmitAppleLogin(valid) ==
  Submit("AppleLogin", "Connecting", valid, "Authenticate", "InvalidAppleLoginInput")

SubmitTwoFactor(valid) ==
  Submit("TwoFactor", "Connecting", valid, "VerifyTwoFactor", "InvalidTwoFactorInput")

SelectIdentity(id) ==
  /\ stage = "IdentitySelection"
  /\ IF id \in identities
       THEN /\ selected' = id
            /\ MoveTo("Connecting", "Connecting", "IdentitySelection")
            /\ effect' = [op |-> "ConfirmIdentity", identity |-> id]
       ELSE /\ ShowError("IdentitySelectionFailed", "IdentitySelection", "Connecting")
            /\ Emit(None)
            /\ UNCHANGED selected
  /\ UNCHANGED identities

BackTarget ==
  CASE stage = "Activation" -> "FirstRun"
    [] stage \in {"Provisioning", "AppleLogin"} -> "Activation"
    [] stage \in {"TwoFactor", "IdentitySelection"} -> "AppleLogin"
    [] stage = "Connecting" -> OrElse(retry, "AppleLogin")
    [] stage = "Error" -> OrElse(retry, "FirstRun")
    [] OTHER -> None

Back ==
  /\ BackTarget # None
  /\ MoveTo(BackTarget, "Disconnected", None)
  /\ IF BackTarget \in {"FirstRun", "Activation"}
       THEN identities' = {} /\ selected' = NoIdentity
       ELSE KeepChoice
  /\ Emit(None)

Bug_RetryWithoutReconnect ==
  /\ stage = "Error"
  /\ LET target == OrElse(retry, "FirstRun")
     IN  MoveTo(target, IF target = "Connecting" THEN "Connecting" ELSE "Disconnected", None)
  /\ KeepChoice /\ Emit(None)

Retry ==
  /\ stage = "Error"
  /\ LET target == OrElse(retry, "FirstRun")
     IN  IF target = "Connecting"
           THEN MoveTo("Connecting", "Connecting", "Connecting") /\ Emit("Reconnect")
           ELSE MoveTo(target, "Disconnected", None) /\ Emit(None)
  /\ KeepChoice

-----------------------------------------------------------------------------
(* Updates of the backend.                                                 *)

ProvisioningAccepted ==
  /\ stage = "Provisioning"
  /\ MoveTo("AppleLogin", "Disconnected", None)
  /\ KeepChoice /\ Emit(None)

LoginRequiresTwoFactor ==
  /\ stage = "Connecting"
  /\ MoveTo("TwoFactor", "Connecting", "TwoFactor")
  /\ KeepChoice /\ Emit(None)

Bug_LoginKeepsSelected(ids, repeated) ==
  /\ stage = "Connecting"
  /\ ids # {}
  /\ identities' = ids
  /\ MoveTo("IdentitySelection", "Connecting", None)
  /\ Emit(None) /\ UNCHANGED selected

(* ids are the offered identities; repeated says that an id occurs twice.  *)
LoginSucceeded(ids, repeated) ==
  /\ stage = "Connecting"
  /\ repeated => ids # {}
  /\ IF ids = {} \/ repeated
       THEN /\ ShowError(IF ids = {} THEN "NoIdentityAvailable" ELSE "InvalidIdentityList",
                         "AppleLogin", "Failed")
            /\ KeepChoice
       ELSE /\ identities' = ids
            /\ selected' = NoIdentity
            /\ MoveTo("IdentitySelection", "Connecting", None)
  /\ Emit(None)

ConnectionIsConnecting ==
  /\ connection' = "Connecting"
  /\ Emit(None)
  /\ KeepChoice /\ UNCHANGED <<stage, error, retry>>

ConnectionIsConnected ==
  /\ \/ /\ stage = "Connecting" /\ selected # NoIdentity
        /\ MoveTo("Complete", "Connected", None)
     \/ /\ stage = "Complete"
        /\ connection' = "Connected"
        /\ UNCHANGED <<stage, error, retry>>
  /\ KeepChoice /\ Emit(None)

ConnectionIsLost ==
  /\ stage \in {"Provisioning", "Connecting", "TwoFactor", "Complete"}
  /\ ShowError("ConnectionLost",
               IF stage = "Complete" THEN "Connecting" ELSE OrElse(retry, "AppleLogin"),
               "Failed")
  /\ KeepChoice /\ Emit(None)

(* The stage Retry will return to after a failure in the current one.      *)
RetryTarget ==
  CASE stage = "Provisioning" -> "Activation"
    [] stage = "Connecting" -> OrElse(retry, "AppleLogin")
    [] stage = "Complete" -> "Connecting"
    [] stage = "Error" -> OrElse(retry, "FirstRun")
    [] OTHER -> stage

BackendFailed(e) ==
  /\ ShowError(e, RetryTarget, "Failed")
  /\ KeepChoice /\ Emit(None)

ConnectionIsFailed == BackendFailed("BackendUnavailable")

-----------------------------------------------------------------------------
ViewEvent ==
  \/ Begin
  \/ Back
  \/ \E valid \in BOOLEAN :
       SubmitActivation(valid) \/ SubmitAppleLogin(valid) \/ SubmitTwoFactor(valid)
  \/ \E id \in Identity : SelectIdentity(id)
  \/ Retry

BackendEvent ==
  \/ ProvisioningAccepted
  \/ LoginRequiresTwoFactor
  \/ \E ids \in SUBSET Identity, repeated \in BOOLEAN : LoginSucceeded(ids, repeated)
  \/ ConnectionIsConnecting
  \/ ConnectionIsConnected
  \/ ConnectionIsLost
  \/ ConnectionIsFailed
  \/ \E e \in RecoverableErrors : BackendFailed(e)

FlowNext == ViewEvent \/ BackendEvent

FlowSpec == Init /\ [][FlowNext]_flowVars

-----------------------------------------------------------------------------
(* Pages on which the user enters something.                               *)
InputPages == {"FirstRun", "Activation", "AppleLogin", "TwoFactor", "IdentitySelection"}

(* Stages an error may name as its retry target: never the error page      *)
(* itself, never a finished flow, never a page that waits for an operation *)
(* nobody started.                                                         *)
RetryStages == InputPages \union {"Connecting"}

(* The error page is shown exactly while an error is recorded, and then    *)
(* Retry has a stage to return to: no sequence of events leaves a page     *)
(* with a stale error, or an error page without its error.                 *)
ErrorIsExplained ==
  /\ stage = "Error" <=> error # None
  /\ stage = "Error" => retry # None
  /\ retry \in RetryStages \union {None}

(* Whatever was selected is one of the identities last offered: a new      *)
(* login, or Back to activation, never leaves a selection behind that the  *)
(* account does not offer.                                                 *)
SelectedIsOffered == selected = NoIdentity \/ selected \in identities

(* The identity page, reached directly or through a retry of an earlier    *)
(* failure, always has something to choose.                                *)
SelectionHasChoices ==
  "IdentitySelection" \in {stage, retry} => identities # {}

(* A finished setup, and a reconnect of one that was finished, always has  *)
(* a selected identity: otherwise the Connected update that ends the       *)
(* reconnect would be ignored for ever.                                    *)
CompletionHasIdentity ==
  /\ stage = "Complete" => selected # NoIdentity
  /\ retry = "Connecting" => selected # NoIdentity

(* The inductive invariant, the conjunction of the above.                  *)
FlowInv ==
  /\ TypeOK
  /\ ErrorIsExplained
  /\ SelectedIsOffered
  /\ SelectionHasChoices
  /\ CompletionHasIdentity
=============================================================================
