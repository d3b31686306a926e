---------------------------- MODULE SetupProofs ----------------------------
(***************************************************************************)
(* The setup reducer keeps its invariants under every event at every       *)
(* moment and for every set of identities.  FlowInv is inductive as it     *)
(* stands: the conjuncts about the retry target are what carries the ones  *)
(* about the visible stage through the error page and back.                *)
(*                                                                         *)
(* The session implements the reducer, and while no connection is lost     *)
(* during an operation it has the three properties that updates without a  *)
(* reference to an operation need.  Their inductive invariant ties the     *)
(* operation in flight to the page that waits for it.                      *)
(***************************************************************************)
EXTENDS SetupSession, SequenceTheorems, TLAPS

(* The reducer starts in a state where the inductive invariant holds.      *)
LEMMA FlowInit == Init => FlowInv
  BY DEF Init, FlowInv, TypeOK, ErrorIsExplained, SelectedIsOffered, SelectionHasChoices,
         CompletionHasIdentity, Stages, Connections, RecoverableErrors, Effects, EffectKinds,
         None, RetryStages, InputPages

(* One submission of a form page, accepted or refused, keeps FlowInv; the  *)
(* three forms of the view are instances of it.                            *)
LEMMA SubmitStep ==
  ASSUME FlowInv,
         NEW page \in {"Activation", "AppleLogin", "TwoFactor"},
         NEW busy \in {"Provisioning", "Connecting"},
         NEW valid \in BOOLEAN,
         NEW op \in {"Provision", "Authenticate", "VerifyTwoFactor"},
         NEW refusal \in {"InvalidActivationInput", "InvalidAppleLoginInput",
                          "InvalidTwoFactorInput"},
         Submit(page, busy, valid, op, refusal)
  PROVE  FlowInv'
  BY NoIdentityAssumption
  DEF Submit, MoveTo, ShowError, Emit, KeepChoice, FlowInv, TypeOK, ErrorIsExplained,
      SelectedIsOffered, SelectionHasChoices, CompletionHasIdentity, Stages, Connections,
      RecoverableErrors, Effects, EffectKinds, None, RetryStages, InputPages

(* A control of the view keeps FlowInv.                                    *)
LEMMA ViewStep == ASSUME FlowInv, ViewEvent PROVE FlowInv'
<1> USE NoIdentityAssumption
    DEF FlowInv, TypeOK, ErrorIsExplained, SelectedIsOffered, SelectionHasChoices,
        CompletionHasIdentity, Stages, Connections, RecoverableErrors, Effects, EffectKinds,
        None, RetryStages, InputPages, MoveTo, ShowError, Emit, KeepChoice, OrElse
<1>1. CASE Begin
  BY <1>1 DEF Begin
<1>2. CASE Back
  BY <1>2 DEF Back, BackTarget
<1>3. ASSUME NEW valid \in BOOLEAN,
             SubmitActivation(valid) \/ SubmitAppleLogin(valid) \/ SubmitTwoFactor(valid)
      PROVE  FlowInv'
  <2>1. CASE SubmitActivation(valid)
    BY <2>1, SubmitStep DEF SubmitActivation
  <2>2. CASE SubmitAppleLogin(valid)
    BY <2>2, SubmitStep DEF SubmitAppleLogin
  <2>3. CASE SubmitTwoFactor(valid)
    BY <2>3, SubmitStep DEF SubmitTwoFactor
  <2>. QED
    BY <1>3, <2>1, <2>2, <2>3
<1>4. ASSUME NEW id \in Identity, SelectIdentity(id)
      PROVE  FlowInv'
  BY <1>4 DEF SelectIdentity
<1>5. CASE Retry
  BY <1>5 DEF Retry
<1>. QED
  BY <1>1, <1>2, <1>3, <1>4, <1>5 DEF ViewEvent

(* An update of the backend, whenever it arrives, keeps FlowInv.           *)
LEMMA BackendStep == ASSUME FlowInv, BackendEvent PROVE FlowInv'
<1> USE NoIdentityAssumption
    DEF FlowInv, TypeOK, ErrorIsExplained, SelectedIsOffered, SelectionHasChoices,
        CompletionHasIdentity, Stages, Connections, RecoverableErrors, Effects, EffectKinds,
        None, RetryStages, InputPages, MoveTo, ShowError, Emit, KeepChoice, OrElse
<1>1. CASE ProvisioningAccepted
  BY <1>1 DEF ProvisioningAccepted
<1>2. CASE LoginRequiresTwoFactor
  BY <1>2 DEF LoginRequiresTwoFactor
<1>3. ASSUME NEW ids \in SUBSET Identity, NEW repeated \in BOOLEAN,
             LoginSucceeded(ids, repeated)
      PROVE  FlowInv'
  BY <1>3 DEF LoginSucceeded
<1>4. CASE ConnectionIsConnecting
  BY <1>4 DEF ConnectionIsConnecting
<1>5. CASE ConnectionIsConnected
  BY <1>5 DEF ConnectionIsConnected
<1>6. CASE ConnectionIsLost
  BY <1>6 DEF ConnectionIsLost
<1>7. ASSUME NEW e \in RecoverableErrors, BackendFailed(e)
      PROVE  FlowInv'
  BY <1>7 DEF BackendFailed, RetryTarget
<1>8. CASE ConnectionIsFailed
  BY <1>8, <1>7 DEF ConnectionIsFailed
<1>. QED
  BY <1>1, <1>2, <1>3, <1>4, <1>5, <1>6, <1>7, <1>8 DEF BackendEvent

(* FlowInv holds in every reachable state of the reducer.                  *)
THEOREM FlowInvariant == FlowSpec => []FlowInv
<1>1. FlowInv /\ [FlowNext]_flowVars => FlowInv'
  <2>1. CASE FlowNext
    BY <2>1, ViewStep, BackendStep DEF FlowNext
  <2>2. CASE UNCHANGED flowVars
    BY <2>2 DEF flowVars, FlowInv, TypeOK, ErrorIsExplained, SelectedIsOffered,
                SelectionHasChoices, CompletionHasIdentity
  <2>. QED
    BY <2>1, <2>2
<1>. QED
  BY <1>1, FlowInit, PTL DEF FlowSpec

(* Every stage, connection state, error and effect the reducer reaches is  *)
(* one of the declared values.                                             *)
THEOREM FlowTypeCorrect == FlowSpec => []TypeOK
  BY FlowInvariant, PTL DEF FlowInv

(* The error page is shown exactly while an error is recorded, and an      *)
(* error always names a stage that may be retried (setup.rs:740-790).      *)
THEOREM ErrorAlwaysExplained == FlowSpec => []ErrorIsExplained
  BY FlowInvariant, PTL DEF FlowInv

(* The selection is always one of the identities last offered              *)
(* (setup.rs:584-604, 643-650, 733-736).                                   *)
THEOREM SelectionAlwaysOffered == FlowSpec => []SelectedIsOffered
  BY FlowInvariant, PTL DEF FlowInv

(* A finished flow, and a reconnect of one, has a selected identity, so    *)
(* that the Connected update of setup.rs:667-670 is accepted.              *)
THEOREM CompletionAlwaysHasIdentity == FlowSpec => []CompletionHasIdentity
  BY FlowInvariant, PTL DEF FlowInv

(* The identity page always has something to choose.                       *)
THEOREM SelectionAlwaysHasChoices == FlowSpec => []SelectionHasChoices
  BY FlowInvariant, PTL DEF FlowInv

-----------------------------------------------------------------------------
(* The session: the view offers fewer events than the reducer accepts and  *)
(* the adapter answers what it was handed, so that a step of the session   *)
(* is a step of the reducer or leaves the reducer alone.                   *)

(* Taking one element out of a sequence shortens it by one.                *)
LEMMA RemoveAtType ==
  ASSUME NEW S, NEW s \in Seq(S), NEW i \in DOMAIN s
  PROVE  /\ RemoveAt(s, i) \in Seq(S)
         /\ Len(RemoveAt(s, i)) = Len(s) - 1
<1> DEFINE front == SubSeq(s, 1, i - 1)
           back  == SubSeq(s, i + 1, Len(s))
<1>1. i \in 1..Len(s) /\ Len(s) \in Nat
  BY LenProperties
<1>2. front \in Seq(S) /\ Len(front) = i - 1
  BY <1>1, SubSeqProperties, ElementOfSeq
<1>3. back \in Seq(S) /\ Len(back) = Len(s) - i
  BY <1>1, SubSeqProperties, ElementOfSeq
<1> HIDE DEF front, back
<1>4. front \o back \in Seq(S) /\ Len(front \o back) = Len(front) + Len(back)
  BY <1>2, <1>3, ConcatProperties
<1>5. RemoveAt(s, i) = front \o back
  BY DEF RemoveAt, front, back
<1>6. (i - 1) + (Len(s) - i) = Len(s) - 1
  BY <1>1
<1>. QED
  BY <1>2, <1>3, <1>4, <1>5, <1>6, Zenon

(* The view's controls are events of the reducer: the row of an identity   *)
(* list names one of the identities.                                       *)
LEMMA ControlIsEvent == ASSUME TypeOK, ViewControl PROVE ViewEvent
  BY DEF TypeOK, ViewControl, ViewEvent, ErrorPageBack, IdentityRow

(* What the adapter answers is an update of the reducer.                   *)
LEMMA AnswerIsEvent == ASSUME NEW request, Answer(request) PROVE BackendEvent
  BY Zenon DEF Answer, BackendEvent

(* Every step of the session is one event of the reducer, or none.         *)
LEMMA SessionStepIsFlowStep ==
  ASSUME TypeOK, [SessionNext]_sessionVars
  PROVE  [FlowNext]_flowVars
<1>1. CASE UserActs
  BY <1>1, ControlIsEvent DEF UserActs, FlowNext
<1>2. ASSUME NEW i \in DOMAIN pending, Deliver(i) PROVE [FlowNext]_flowVars
  BY <1>2, AnswerIsEvent DEF Deliver, FlowNext
<1>3. ASSUME NEW i \in DOMAIN pending, Refuse(i) PROVE [FlowNext]_flowVars
  <2>1. BackendEvent
    BY <1>3 DEF Refuse, BackendEvent, RecoverableErrors
  <2>. QED
    BY <2>1 DEF FlowNext
<1>4. CASE ReportProgress
  BY <1>4 DEF ReportProgress, FlowNext, BackendEvent
<1>5. CASE LoseConnection
  BY <1>5 DEF LoseConnection, FlowNext, BackendEvent
<1>6. CASE UNCHANGED sessionVars
  BY <1>6 DEF sessionVars
<1>. QED
  BY <1>1, <1>2, <1>3, <1>4, <1>5, <1>6 DEF SessionNext, Reply

(* The session keeps the reducer's invariant and its own types.            *)
LEMMA SessionTypeStep ==
  ASSUME FlowInv, SessionTypeOK, [SessionNext]_sessionVars
  PROVE  FlowInv' /\ SessionTypeOK'
<1> DEFINE Requests == {request \in Effects : request.op # None}
<1>1. FlowInv'
  <2>1. [FlowNext]_flowVars
    BY SessionStepIsFlowStep DEF SessionTypeOK
  <2>2. CASE FlowNext
    BY <2>2, ViewStep, BackendStep DEF FlowNext
  <2>3. CASE UNCHANGED flowVars
    BY <2>3 DEF flowVars, FlowInv, TypeOK, ErrorIsExplained, SelectedIsOffered,
                SelectionHasChoices, CompletionHasIdentity
  <2>. QED
    BY <2>1, <2>2, <2>3
<1>2. TypeOK' /\ effect' \in Effects
  BY <1>1 DEF FlowInv, TypeOK
<1>3. pending \in Seq(Requests) /\ linked \in Identity \union {NoIdentity}
  BY DEF SessionTypeOK
<1>4. ASSUME NEW i \in DOMAIN pending
      PROVE  /\ RemoveAt(pending, i) \in Seq(Requests)
             /\ pending[i].identity \in Identity \union {NoIdentity}
  <2>1. pending[i] \in Requests
    BY <1>3, <1>4, ElementOfSeq, LenProperties
  <2>. QED
    BY <1>3, <1>4, <2>1, RemoveAtType DEF Effects
<1>5. pending' \in Seq(Requests) /\ linked' \in Identity \union {NoIdentity}
  <2>1. CASE UserActs
    <3>1. CASE effect'.op = None
      BY <1>3, <2>1, <3>1 DEF UserActs
    <3>2. CASE effect'.op # None
      <4>1. effect' \in Requests
        BY <1>2, <3>2
      <4>2. pending' = Append(pending, effect')
        BY <2>1, <3>2 DEF UserActs
      <4>. QED
        BY <1>3, <2>1, <4>1, <4>2, AppendProperties DEF UserActs
    <3>. QED
      BY <3>1, <3>2
  <2>2. ASSUME NEW i \in DOMAIN pending, Deliver(i) \/ Refuse(i)
        PROVE  pending' \in Seq(Requests) /\ linked' \in Identity \union {NoIdentity}
    BY <1>3, <1>4, <2>2 DEF Deliver, Refuse
  <2>3. CASE ReportProgress \/ LoseConnection \/ UNCHANGED sessionVars
    BY <1>3, <2>3 DEF ReportProgress, LoseConnection, sessionVars
  <2>. QED
    BY <2>1, <2>2, <2>3 DEF SessionNext, Reply
<1>. QED
  BY <1>1, <1>2, <1>5 DEF SessionTypeOK

(* The reducer's invariant and the session's types hold in every reachable *)
(* state of the session.                                                   *)
LEMMA SessionTypes == SessionSpec => [](FlowInv /\ SessionTypeOK)
<1>1. SessionInit => FlowInv /\ SessionTypeOK
  BY FlowInit, EmptySeq DEF SessionInit, SessionTypeOK, FlowInv
<1>2. FlowInv /\ SessionTypeOK /\ [SessionNext]_sessionVars => (FlowInv /\ SessionTypeOK)'
  BY SessionTypeStep
<1>. QED
  BY <1>1, <1>2, PTL DEF SessionSpec

(* Every reachable state of the session has the declared types.            *)
THEOREM SessionTypeCorrect == SessionSpec => []SessionTypeOK
  BY SessionTypes, PTL

(* The session, whatever the adapter answers and whenever it loses the     *)
(* connection, takes the reducer through behaviours of FlowSpec only: what *)
(* is proved of the reducer holds of the application that runs it          *)
(* (main.rs:479-509).                                                      *)
THEOREM SessionImplementsFlow == SessionSpec => FlowSpec
<1>1. SessionInit => Init
  BY DEF SessionInit
<1>2. TypeOK /\ [SessionNext]_sessionVars => [FlowNext]_flowVars
  BY SessionStepIsFlowStep
<1>3. FlowInv => TypeOK
  BY DEF FlowInv
<1>. QED
  BY <1>1, <1>2, <1>3, SessionTypes, PTL DEF SessionSpec, FlowSpec

-----------------------------------------------------------------------------
(* When the adapter reports a lost connection only between operations, the *)
(* stage says what is owed.                                                *)

(* An operation in flight is the one the visible busy page waits for, and  *)
(* what the reducer remembers agrees with it.                              *)
OwedIsShown(request) ==
  /\ stage = (IF request.op = "Provision" THEN "Provisioning" ELSE "Connecting")
  /\ request.op = "ConfirmIdentity" =>
       request.identity = selected /\ selected # NoIdentity /\ retry # "Connecting"
  /\ request.op = "Reconnect" => retry = "Connecting"

(* The inductive invariant.  What makes ConnectedIsSelected survive a      *)
(* reconnect is its third conjunct, about the error page between.          *)
SessionInv ==
  /\ \/ pending = <<>>
     \/ \E request \in Effects :
          /\ pending = <<request>>
          /\ request.op # None
          /\ OwedIsShown(request)
  /\ WaitingHasOperation
  /\ stage = "Complete" \/ retry = "Connecting" => linked = selected

(* The adapter has nothing to answer when the user may act: the pages with *)
(* controls are not the busy ones.                                         *)
LEMMA ControlsWhenIdle ==
  ASSUME SessionInv, ViewControl
  PROVE  pending = <<>> /\ stage \notin Busy
  BY DEF SessionInv, OwedIsShown, Busy, ViewControl, Begin, ErrorPageBack, SubmitActivation,
         SubmitAppleLogin, SubmitTwoFactor, Submit, IdentityRow, SelectIdentity, Retry

(* What a control of the view hands to the adapter is what its page shows. *)
LEMMA ControlShowsOwed ==
  ASSUME FlowInv, SessionInv, ViewControl, linked' = linked
  PROVE  /\ effect'.op # None => OwedIsShown(effect)'
         /\ effect'.op = None => stage' \notin Busy \/ connection' # "Connecting"
         /\ stage' = "Complete" \/ retry' = "Connecting" => linked' = selected'
<1> USE NoIdentityAssumption
    DEF FlowInv, TypeOK, ErrorIsExplained, CompletionHasIdentity, RetryStages, InputPages,
        None, SessionInv, OwedIsShown, Busy, MoveTo, ShowError, Emit, KeepChoice, OrElse
<1>1. CASE Begin
  BY <1>1 DEF Begin
<1>2. CASE ErrorPageBack
  BY <1>2 DEF ErrorPageBack, Back, BackTarget
<1>3. ASSUME NEW valid \in BOOLEAN,
             SubmitActivation(valid) \/ SubmitAppleLogin(valid) \/ SubmitTwoFactor(valid)
      PROVE  /\ effect'.op # None => OwedIsShown(effect)'
             /\ effect'.op = None => stage' \notin Busy \/ connection' # "Connecting"
             /\ stage' = "Complete" \/ retry' = "Connecting" => linked' = selected'
  BY <1>3 DEF SubmitActivation, SubmitAppleLogin, SubmitTwoFactor, Submit
<1>4. CASE IdentityRow
  BY <1>4 DEF IdentityRow, SelectIdentity, SelectedIsOffered
<1>5. CASE Retry
  BY <1>5 DEF Retry
<1>. QED
  BY <1>1, <1>2, <1>3, <1>4, <1>5 DEF ViewControl

(* A step of the session keeps SessionInv.                                 *)
LEMMA SessionStep ==
  ASSUME ~LossDuringOperation, FlowInv, SessionTypeOK, SessionInv, [SessionNext]_sessionVars
  PROVE  SessionInv'
<1>0. FlowInv' /\ effect' \in Effects
  BY SessionTypeStep DEF FlowInv, TypeOK
<1>1. CASE UserActs
  <2>1. pending = <<>> /\ stage \notin Busy
    BY <1>1, ControlsWhenIdle DEF UserActs
  <2>2. /\ effect'.op # None => OwedIsShown(effect)'
        /\ effect'.op = None => stage' \notin Busy \/ connection' # "Connecting"
        /\ stage' = "Complete" \/ retry' = "Connecting" => linked' = selected'
    BY <1>1, ControlShowsOwed DEF UserActs
  <2>3. pending' = IF effect'.op = None THEN <<>> ELSE <<effect'>>
    BY <1>1, <2>1 DEF UserActs
  <2>. QED
    BY <1>0, <2>2, <2>3 DEF SessionInv, WaitingHasOperation
<1>2. ASSUME NEW i \in DOMAIN pending, Deliver(i) \/ Refuse(i)
      PROVE  SessionInv'
  <2>1. PICK request \in Effects :
          pending = <<request>> /\ request.op # None /\ OwedIsShown(request)
    BY <1>2 DEF SessionInv
  <2>2. i = 1 /\ pending[i] = request
    BY <1>2, <2>1
  <2>3. pending' = <<>>
    BY <1>2, <2>1, <2>2 DEF Deliver, Refuse, RemoveAt
  <2>4. stage \in Busy
    BY <2>1 DEF OwedIsShown, Busy
  <2>5. CASE Refuse(i)
    <3>1. stage' = "Error" /\ retry' = RetryTarget /\ linked' = linked /\ selected' = selected
      BY <2>5 DEF Refuse, ConnectionIsFailed, BackendFailed, ShowError, KeepChoice
    <3>2. retry' = "Connecting" => retry = "Connecting"
      BY <2>4, <3>1 DEF RetryTarget, OrElse, Busy
    <3>. QED
      BY <2>3, <3>1, <3>2 DEF SessionInv, WaitingHasOperation, Busy
  <2>6. CASE Deliver(i)
    <3>1. Accepts(request)
      BY <2>1 DEF Accepts, OwedIsShown, Effects, EffectKinds, FlowInv, CompletionHasIdentity, None
    <3>2. Answer(request)
      BY <2>2, <2>6, <3>1 DEF Deliver
    <3>3. linked' = IF request.op = "ConfirmIdentity" THEN request.identity ELSE linked
      BY <2>2, <2>6 DEF Deliver
    <3>4. stage' \notin Busy
      BY <2>1, <3>2
      DEF Answer, ProvisioningAccepted, LoginRequiresTwoFactor, LoginSucceeded,
          ConnectionIsConnected, MoveTo, ShowError, Busy, OwedIsShown
    <3>5. stage' = "Complete" \/ retry' = "Connecting" => linked' = selected'
      BY <2>1, <3>2, <3>3
      DEF Answer, ProvisioningAccepted, LoginRequiresTwoFactor, LoginSucceeded,
          ConnectionIsConnected, MoveTo, ShowError, KeepChoice, OwedIsShown, SessionInv, None
    <3>. QED
      BY <2>3, <3>4, <3>5 DEF SessionInv, WaitingHasOperation
  <2>. QED
    BY <1>2, <2>5, <2>6
<1>3. CASE ReportProgress
  BY <1>3 DEF ReportProgress, ConnectionIsConnecting, KeepChoice, SessionInv, OwedIsShown,
              WaitingHasOperation
<1>4. CASE LoseConnection
  <2>1. pending = <<>> /\ pending' = <<>> /\ linked' = linked /\ selected' = selected
    BY <1>4 DEF LoseConnection, ConnectionIsLost, KeepChoice
  <2>2. stage' = "Error" /\ retry' = "Connecting" => stage = "Complete" \/ retry = "Connecting"
    BY <1>4 DEF LoseConnection, ConnectionIsLost, ShowError, OrElse
  <2>3. stage' = "Error"
    BY <1>4 DEF LoseConnection, ConnectionIsLost, ShowError
  <2>. QED
    BY <2>1, <2>2, <2>3 DEF SessionInv, WaitingHasOperation, Busy
<1>5. CASE UNCHANGED sessionVars
  BY <1>5 DEF sessionVars, flowVars, SessionInv, OwedIsShown, WaitingHasOperation
<1>. QED
  BY <1>1, <1>2, <1>3, <1>4, <1>5 DEF SessionNext, Reply

(* When no connection is lost during an operation, SessionInv holds in     *)
(* every reachable state of the session.                                   *)
LEMMA SessionInvariant ==
  ASSUME ~LossDuringOperation
  PROVE  SessionSpec => []SessionInv
<1>1. SessionInit => SessionInv
  BY DEF SessionInit, Init, SessionInv, WaitingHasOperation, Busy, None
<1>2. FlowInv /\ SessionTypeOK /\ SessionInv /\ [SessionNext]_sessionVars => SessionInv'
  BY SessionStep
<1>. QED
  BY <1>1, <1>2, SessionTypes, PTL DEF SessionSpec

(* The busy pages have no control, and an answer, a refusal or the lost    *)
(* connection leaves them: the adapter is never handed a second operation  *)
(* before it answered the first, so that updates without a reference to an *)
(* operation are unambiguous (main.rs:479-509).                            *)
THEOREM SessionOneOperation ==
  ASSUME ~LossDuringOperation
  PROVE  SessionSpec => []OneOperationInFlight
<1>1. SessionInv => OneOperationInFlight
  <2>1. pending = <<>> => Len(pending) <= 1
    OBVIOUS
  <2>2. ASSUME NEW request \in Effects, pending = <<request>> PROVE Len(pending) <= 1
    BY <2>2
  <2>. QED
    BY <2>1, <2>2 DEF SessionInv, OneOperationInFlight
<1>. QED
  BY <1>1, SessionInvariant, PTL

(* The identity shown as connected is the one the backend linked, through  *)
(* any number of failures, retries, new logins and reconnects              *)
(* (setup.rs:63-64, 667-670).                                              *)
THEOREM SessionConnectsSelected ==
  ASSUME ~LossDuringOperation
  PROVE  SessionSpec => []ConnectedIsSelected
<1>1. SessionInv => ConnectedIsSelected
  BY DEF SessionInv, ConnectedIsSelected
<1>. QED
  BY <1>1, SessionInvariant, PTL

(* A busy page that says "Connecting..." is owed an answer: the flow never *)
(* waits for an operation nobody was handed.                               *)
THEOREM SessionWaitsForOperation ==
  ASSUME ~LossDuringOperation
  PROVE  SessionSpec => []WaitingHasOperation
<1>1. SessionInv => WaitingHasOperation
  BY DEF SessionInv
<1>. QED
  BY <1>1, SessionInvariant, PTL
=============================================================================
