---------------------------- MODULE SetupSession ----------------------------
(***************************************************************************)
(* The setup reducer between its view and a backend adapter                *)
(* (crates/app/src/main.rs:479-509, setup.rs:999-1054).  The view offers   *)
(* the controls of the visible page only.  Every SetupEffect is handed to  *)
(* the adapter, which answers later, by a timer or a task of its own, with *)
(* a BackendUpdate that carries no reference to the effect it answers.     *)
(*                                                                         *)
(* The shipped adapter answers every effect favourably.  The one it stands *)
(* for (main.rs:481) may also fail an operation, answer operations out of  *)
(* order and report a lost connection; how it does is external.            *)
(***************************************************************************)
EXTENDS SetupFlow, Sequences, SequencesExt

CONSTANTS
  LossDuringOperation,  \* may a connection loss be reported while an answer is owed?
  MaxPending            \* bound on the operations in flight

VARIABLES
  pending,   \* effects the adapter has not answered, oldest first
  linked     \* the identity whose confirmation the backend last answered

sessionVars == <<flowVars, pending, linked>>

Busy == {"Provisioning", "Connecting"}

SessionTypeOK ==
  /\ TypeOK
  /\ pending \in Seq({request \in Effects : request.op # None})
  /\ linked \in Identity \union {NoIdentity}

SessionInit == Init /\ pending = <<>> /\ linked = NoIdentity

-----------------------------------------------------------------------------
Bug_BackOnBusyPages == Back

(* Back is a button of the error page only.                                *)
ErrorPageBack == stage = "Error" /\ Back

(* A row of the identity list is translated to the id at its index.        *)
IdentityRow == \E id \in identities : SelectIdentity(id)

ViewControl ==
  \/ Begin
  \/ ErrorPageBack
  \/ \E valid \in BOOLEAN :
       SubmitActivation(valid) \/ SubmitAppleLogin(valid) \/ SubmitTwoFactor(valid)
  \/ IdentityRow
  \/ Retry

Bug_UserActsQueuesNone ==
  /\ Len(pending) < MaxPending
  /\ ViewControl
  /\ pending' = Append(pending, effect')
  /\ UNCHANGED linked

(* SetupController::dispatch hands the effect of the transition over.      *)
UserActs ==
  /\ Len(pending) < MaxPending
  /\ ViewControl
  /\ pending' = IF effect'.op = None THEN pending ELSE Append(pending, effect')
  /\ UNCHANGED linked

-----------------------------------------------------------------------------
Accepts(request) ==
  CASE request.op = "Provision" -> stage = "Provisioning"
    [] request.op \in {"Authenticate", "VerifyTwoFactor"} -> stage = "Connecting"
    [] OTHER -> stage = "Complete" \/ (stage = "Connecting" /\ selected # NoIdentity)

Bug_AnswerLeavesConnecting(request) ==
  \/ request.op = "Provision" /\ ProvisioningAccepted
  \/ request.op \in {"Authenticate", "VerifyTwoFactor"} /\ LoginSucceeded(Identity, FALSE)
  \/ request.op \in {"ConfirmIdentity", "Reconnect"} /\ ConnectionIsConnecting

Answer(request) ==
  \/ request.op = "Provision" /\ ProvisioningAccepted
  \/ request.op = "Authenticate" /\ LoginRequiresTwoFactor
  \/ /\ request.op \in {"Authenticate", "VerifyTwoFactor"}
     /\ \E ids \in SUBSET Identity, repeated \in BOOLEAN : LoginSucceeded(ids, repeated)
  \/ request.op \in {"ConfirmIdentity", "Reconnect"} /\ ConnectionIsConnected

(* Operation i is answered: the reducer applies the update or ignores it.  *)
Deliver(i) ==
  /\ pending' = RemoveAt(pending, i)
  /\ IF Accepts(pending[i]) THEN Answer(pending[i]) ELSE UNCHANGED flowVars
  /\ linked' = IF pending[i].op = "ConfirmIdentity" THEN pending[i].identity ELSE linked

Refuse(i) ==
  /\ pending' = RemoveAt(pending, i)
  /\ \/ \E e \in {"ProvisioningFailed", "AuthenticationFailed"} : BackendFailed(e)
     \/ ConnectionIsFailed
  /\ UNCHANGED linked

(* The adapter says that it is at work on the connection it was asked for. *)
ReportProgress ==
  /\ \E i \in DOMAIN pending : pending[i].op \in {"ConfirmIdentity", "Reconnect"}
  /\ ConnectionIsConnecting
  /\ UNCHANGED <<pending, linked>>

Reply == \E i \in DOMAIN pending : Deliver(i) \/ Refuse(i)

LoseConnection ==
  /\ pending # <<>> => LossDuringOperation
  /\ ConnectionIsLost
  /\ UNCHANGED <<pending, linked>>

SessionNext == UserActs \/ Reply \/ ReportProgress \/ LoseConnection

(* The user owes nothing; a glib timeout and the adapter's tasks do run.   *)
SessionSpec == SessionInit /\ [][SessionNext]_sessionVars /\ WF_sessionVars(Reply)

-----------------------------------------------------------------------------
(* The busy pages have no control, so a second operation can only be       *)
(* started once the first was answered: updates that name no operation     *)
(* are still unambiguous.                                                  *)
OneOperationInFlight == Len(pending) <= 1

(* setup.rs:63-64 "The selected account identity is connected."  When the  *)
(* flow is complete the identity the backend linked is the one the state   *)
(* says is selected.                                                       *)
ConnectedIsSelected ==
  stage = "Complete" /\ connection = "Connected" => linked = selected

(* A busy page that says "Connecting..." is owed an answer.                *)
WaitingHasOperation ==
  stage \in Busy /\ connection = "Connecting" => pending # <<>>

(* A busy page that is owed an answer is left, with a result or an error.  *)
AnswerEndsWaiting == (stage \in Busy /\ pending # <<>>) ~> stage \notin Busy
=============================================================================
