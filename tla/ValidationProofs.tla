--------------------------- MODULE ValidationProofs ---------------------------
(* What the validation component's commands and the provider promise, for  *)
(* any number of installers, removers and requests.                        *)
EXTENDS ValidationHelper, TLAPS

Commands == Installer \union Remover

NoRemoval == \A p \in Remover : command[p] \in {"idle", "nothing"}

(* InstalledIsWhole is inductive once commands are known to be commands:   *)
(* a rename needs a free name, and a free name means nobody installed yet. *)
ComponentInv == command \in [Commands -> CommandPlaces] /\ InstalledIsWhole

(* The invariant of the component holds at the start.                      *)
LEMMA ComponentInitially == ComponentInit => ComponentInv
BY DEF ComponentInit, ComponentInv, InstalledIsWhole, Commands, CommandPlaces

(* An installer's steps other than the rename leave the component alone    *)
(* and report no success.                                                  *)
LEMMA InstallerKeeps ==
  ASSUME ComponentInv, NEW p \in Installer, NEW from \in CommandPlaces, NEW to \in CommandPlaces \ {"installed"},
         Advance(p, from, to), UNCHANGED component
  PROVE  ComponentInv'
<1> USE CommandsAreDistinct DEF ComponentInv, Commands
<1>1. command' \in [Commands -> CommandPlaces]
  BY DEF Advance
<1>2. InstalledIsWhole'
  BY DEF InstalledIsWhole, Whole, Absent, Advance
<1> QED
  BY <1>1, <1>2

(* Only a remover that found nothing still counts as no removal.           *)
LEMMA RemoverLeaves ==
  ASSUME ComponentInv, NEW p \in Remover, NEW from \in CommandPlaces,
         NEW to \in CommandPlaces \ {"idle", "nothing"}, Advance(p, from, to)
  PROVE  ComponentInv'
<1> USE CommandsAreDistinct DEF ComponentInv, Commands
<1>1. command' \in [Commands -> CommandPlaces] /\ command'[p] = to
  BY DEF Advance
<1> QED
  BY <1>1 DEF InstalledIsWhole

(* Every step of an installer keeps it.                                    *)
LEMMA ComponentStep ==
  ASSUME ComponentInv, [ComponentNext]_componentVars
  PROVE  ComponentInv'
<1> USE CommandsAreDistinct DEF Commands, CommandPlaces, Outcomes
<1>1. ASSUME NEW p \in Installer, RenameToComponent(p) PROVE ComponentInv'
  <2>1. /\ command' \in [Commands -> CommandPlaces]
        /\ \A q \in Commands \ {p} : command'[q] = command[q]
    BY <1>1 DEF RenameToComponent, Advance, ComponentInv
  <2>2. ASSUME NoRemoval PROVE \A q \in Installer : command[q] # "installed"
    BY <1>1, <2>2 DEF RenameToComponent, ComponentInv, InstalledIsWhole, NoRemoval, Whole
  <2>3. NoRemoval' => NoRemoval
    BY <2>1 DEF NoRemoval
  <2> QED
    BY <1>1, <2>1, <2>2, <2>3 DEF RenameToComponent, ComponentInv, InstalledIsWhole, NoRemoval
<1>2. ASSUME NEW p \in Installer,
             \/ RejectArchive(p) \/ BeginInstall(p) \/ RefuseInstall(p)
             \/ FillTemporary(p) \/ FillFails(p) \/ RenameFails(p)
      PROVE  ComponentInv'
  <2>1. CASE BeginInstall(p)
    BY <2>1, InstallerKeeps DEF BeginInstall
  <2>2. CASE RefuseInstall(p)
    BY <2>2, InstallerKeeps DEF RefuseInstall
  <2>3. CASE FillTemporary(p)
    BY <2>3, InstallerKeeps DEF FillTemporary
  <2>4. CASE FillFails(p)
    BY <2>4, InstallerKeeps DEF FillFails
  <2>5. CASE RenameFails(p)
    BY <2>5, InstallerKeeps DEF RenameFails
  <2>6. CASE RejectArchive(p)
    BY <2>6, InstallerKeeps DEF RejectArchive
  <2> QED
    BY <1>2, <2>1, <2>2, <2>3, <2>4, <2>5, <2>6
<1>3. ASSUME NEW p \in Remover, RemoveNothing(p) PROVE ComponentInv'
  BY <1>3 DEF RemoveNothing, Advance, ComponentInv, InstalledIsWhole
<1>4. ASSUME NEW p \in Remover, UnlinkSome(p) PROVE ComponentInv'
  BY <1>4 DEF UnlinkSome, ComponentInv, InstalledIsWhole
<1>5. ASSUME NEW p \in Remover,
             BeginRemove(p) \/ UnlinkLast(p) \/ RemoveDirectory(p) \/ RemoveFails(p)
      PROVE  ComponentInv'
  <2>1. CASE BeginRemove(p)
    BY <2>1, RemoverLeaves DEF BeginRemove
  <2>2. CASE UnlinkLast(p)
    BY <2>2, RemoverLeaves DEF UnlinkLast
  <2>3. CASE RemoveDirectory(p)
    BY <2>3, RemoverLeaves DEF RemoveDirectory
  <2>4. CASE RemoveFails(p)
    BY <2>4, RemoverLeaves DEF RemoveFails
  <2> QED
    BY <1>5, <2>1, <2>2, <2>3, <2>4
<1>6. ASSUME NEW p \in Commands, KillCommand(p) PROVE ComponentInv'
  <2>1. /\ command' \in [Commands -> CommandPlaces] /\ command'[p] = "killed"
        /\ \A q \in Commands \ {p} : command'[q] = command[q]
    BY <1>6 DEF KillCommand, ComponentInv
  <2> QED
    BY <1>6, <2>1 DEF KillCommand, ComponentInv, InstalledIsWhole, Whole, Absent
<1>7. CASE UNCHANGED componentVars
  BY <1>7 DEF componentVars, ComponentInv, InstalledIsWhole, Whole, Absent
<1> QED
  BY <1>1, <1>2, <1>3, <1>4, <1>5, <1>6, <1>7 DEF ComponentNext

-----------------------------------------------------------------------------
(* Requests.  HelperIsReaped is inductive with the types of the request's  *)
(* variables: nothing starts or revives the helper of a finished request.  *)
RequestTypes ==
  /\ pc \in [Request -> RequestPlaces]
  /\ helper \in [Request -> HelperPlaces]
  /\ input \in [Request -> {"nothing", "line", "closed"}]

HelperInv == RequestTypes /\ HelperIsReaped

(* The invariant of the helper holds at the start.                         *)
LEMMA HelperInitially == ValidationInit => HelperInv
BY DEF ValidationInit, HelperInv, RequestTypes, HelperIsReaped, Gone, Finished, RequestPlaces, HelperPlaces

(* The steps of the provider keep it.                                      *)
LEMMA ProviderKeeps ==
  ASSUME HelperInv, NEW r \in Request, ProviderStep(r)
  PROVE  HelperInv'
<1> USE DEF HelperInv, RequestTypes, HelperIsReaped, Gone, Finished,
                   HelperWaits, RequestPlaces, HelperPlaces
<1>1. CASE WriteInitial(r)
  BY <1>1 DEF WriteInitial, Go
<1>2. CASE WriteFails(r)
  BY <1>2 DEF WriteFails, Terminate
<1>3. CASE ReadSession(r)
  <2>1. CASE output[r] = "good"
    BY <1>3, <2>1 DEF ReadSession
  <2>2. CASE output[r] = "oversized"
    BY <1>3, <2>2 DEF ReadSession
  <2>3. CASE output[r] \notin {"good", "oversized"}
    BY <1>3, <2>3 DEF ReadSession, Terminate
  <2> QED
    BY <2>1, <2>2, <2>3
<1>4. CASE ReadFails(r)
  BY <1>4 DEF ReadFails, Terminate
<1>5. CASE ResponseTooLong(r)
  BY <1>5 DEF ResponseTooLong, Go, Terminate
<1>6. CASE WriteResponse(r)
  BY <1>6 DEF WriteResponse, Go
<1>7. CASE ReadResult(r)
  <2>1. CASE output[r] = "good"
    BY <1>7, <2>1 DEF ReadResult
  <2>2. CASE output[r] # "good"
    BY <1>7, <2>2 DEF ReadResult, Terminate
  <2> QED
    BY <2>1, <2>2
<1>8. CASE WaitForChild(r)
  BY <1>8 DEF WaitForChild, Terminate
<1>9. CASE Timeout(r)
  BY <1>9 DEF Timeout, Terminate
<1> QED
  BY <1>1, <1>2, <1>3, <1>4, <1>5, <1>6, <1>7, <1>8, <1>9 DEF ProviderStep

(* Starting a helper, Apple's answers and a dying provider keep it.        *)
LEMMA OutsideKeeps ==
  ASSUME HelperInv, NEW r \in Request, OutsideStep(r)
  PROVE  HelperInv'
<1> USE DEF HelperInv, RequestTypes, HelperIsReaped, Gone, Finished,
                   HelperWaits, RequestPlaces, HelperPlaces
<1>1. CASE RequestTooLong(r)
  BY <1>1 DEF RequestTooLong, Go
<1>2. CASE ComponentMissing(r)
  BY <1>2 DEF ComponentMissing, Go
<1>3. CASE Spawn(r)
  BY <1>3 DEF Spawn, Go
<1>4. CASE SpawnFails(r)
  BY <1>4 DEF SpawnFails, Go
<1>5. CASE AppleAnswers(r)
  BY <1>5 DEF AppleAnswers, Go
<1>6. CASE AppleFails(r)
  BY <1>6 DEF AppleFails, Go, Terminate
<1>7. CASE ProviderDies(r)
  BY <1>7 DEF ProviderDies
<1> QED
  BY <1>1, <1>2, <1>3, <1>4, <1>5, <1>6, <1>7 DEF OutsideStep

(* The steps of a helper keep it.                                          *)
LEMMA HelperKeeps ==
  ASSUME HelperInv, NEW r \in Request, HelperReadsInput(r) \/ HelperWorks(r)
  PROVE  HelperInv'
<1> USE DEF HelperInv, RequestTypes, HelperIsReaped, Gone, Finished, HelperGo,
                   HelperWaits, RequestPlaces, HelperPlaces
<1>1. CASE HelperReads(r)
  BY <1>1 DEF HelperReads
<1>2. CASE HelperSeesEnd(r)
  BY <1>2 DEF HelperSeesEnd
<1>3. CASE HelperLoads(r)
  BY <1>3 DEF HelperLoads
<1>4. ASSUME NEW answer \in Answers, HelperAnswers(r, answer) PROVE HelperInv'
  BY <1>4 DEF HelperAnswers, Answers
<1>5. CASE HelperEnds(r)
  BY <1>5 DEF HelperEnds
<1>6. CASE HelperFails(r)
  BY <1>6 DEF HelperFails, Alive
<1> QED
  BY <1>1, <1>2, <1>3, <1>4, <1>5, <1>6 DEF HelperReadsInput, HelperWorks

-----------------------------------------------------------------------------
ValidationInv == ComponentInv /\ HelperInv

(* No request touches the component.                                       *)
LEMMA RequestsLeaveComponent ==
  ASSUME NEW r \in Request,
         ProviderStep(r) \/ OutsideStep(r) \/ HelperReadsInput(r) \/ HelperWorks(r)
  PROVE  UNCHANGED componentVars
BY DEF ProviderStep, OutsideStep, HelperReadsInput, HelperWorks,
       WriteInitial, WriteFails, ReadSession, ReadFails, ResponseTooLong, WriteResponse,
       ReadResult, WaitForChild, Timeout, RequestTooLong, ComponentMissing, Spawn, SpawnFails,
       AppleAnswers, AppleFails, ProviderDies, HelperReads, HelperSeesEnd, HelperLoads,
       HelperAnswers, HelperEnds, HelperFails

(* Every step keeps both invariants.                                       *)
LEMMA ValidationStep ==
  ASSUME ValidationInv, [ValidationNext]_validationVars
  PROVE  ValidationInv'
<1> USE DEF ValidationInv
<1>1. ASSUME NEW r \in Request,
             ProviderStep(r) \/ OutsideStep(r) \/ HelperReadsInput(r) \/ HelperWorks(r)
      PROVE  ValidationInv'
  <2>1. HelperInv'
    BY <1>1, ProviderKeeps, OutsideKeeps, HelperKeeps
  <2>2. ComponentInv'
    BY <1>1, RequestsLeaveComponent, ComponentStep
  <2> QED
    BY <2>1, <2>2
<1>2. CASE ComponentNext /\ UNCHANGED requestVars
  <2>1. ComponentInv'
    BY <1>2, ComponentStep
  <2>2. HelperInv'
    BY <1>2 DEF requestVars, HelperInv, RequestTypes, HelperIsReaped
  <2> QED
    BY <2>1, <2>2
<1>3. CASE UNCHANGED validationVars
  <2>1. ComponentInv'
    BY <1>3, ComponentStep DEF validationVars
  <2>2. HelperInv'
    BY <1>3 DEF validationVars, requestVars, HelperInv, RequestTypes, HelperIsReaped
  <2> QED
    BY <2>1, <2>2
<1> QED
  BY <1>1, <1>2, <1>3 DEF ValidationNext

(* Both invariants hold at the start.                                      *)
LEMMA ValidationInitially == ValidationInit => ValidationInv
BY ComponentInitially, HelperInitially DEF ValidationInit, ValidationInv

(* However many installs run side by side and wherever they are killed,    *)
(* what is at the component's name is a whole component or nothing, and it *)
(* is that of the one installer which reported success.                    *)
THEOREM InstalledAlwaysWhole == ValidationSpec => []InstalledIsWhole
<1>1. ValidationInv => InstalledIsWhole
  BY DEF ValidationInv, ComponentInv
<1> QED
  BY <1>1, ValidationInitially, ValidationStep, PTL DEF ValidationSpec

(* No outcome of any number of validation requests leaves a helper process *)
(* behind, but for the two named in HelperIsReaped.                        *)
THEOREM HelperAlwaysReaped == ValidationSpec => []HelperIsReaped
<1>1. ValidationInv => HelperIsReaped
  BY DEF ValidationInv, HelperInv
<1> QED
  BY <1>1, ValidationInitially, ValidationStep, PTL DEF ValidationSpec

-----------------------------------------------------------------------------
(* Types.                                                                  *)

LEMMA ComponentTypesKept ==
  ASSUME ComponentTypeOK, [ComponentNext]_componentVars
  PROVE  ComponentTypeOK'
<1> USE CommandsAreDistinct DEF ComponentTypeOK, CommandPlaces, Outcomes
<1>1. ASSUME NEW p \in Installer,
             \/ RejectArchive(p) \/ BeginInstall(p) \/ RefuseInstall(p)
             \/ FillTemporary(p) \/ FillFails(p) \/ RenameFails(p)
      PROVE  ComponentTypeOK'
  BY <1>1 DEF RejectArchive, BeginInstall, RefuseInstall, FillTemporary, FillFails, RenameFails,
              Advance
<1>2. ASSUME NEW p \in Installer, RenameToComponent(p) PROVE ComponentTypeOK'
  <2>1. component' \in [by : {{}} \union {{q} : q \in Installer}, files : {"none", "some", "all"}]
    BY <1>2 DEF RenameToComponent, Whole
  <2>. QED
    BY <1>2, <2>1 DEF RenameToComponent, Advance
<1>3. ASSUME NEW p \in Remover, RemoveNothing(p) \/ BeginRemove(p) \/ RemoveFails(p)
      PROVE  ComponentTypeOK'
  BY <1>3 DEF RemoveNothing, BeginRemove, RemoveFails, Advance
<1>4. ASSUME NEW p \in Remover, UnlinkSome(p) \/ UnlinkLast(p) \/ RemoveDirectory(p)
      PROVE  ComponentTypeOK'
  <2>1. component' \in [by : {{}} \union {{q} : q \in Installer}, files : {"none", "some", "all"}]
    BY <1>4 DEF UnlinkSome, UnlinkLast, RemoveDirectory, Absent
  <2>2. command' \in [Installer \union Remover -> CommandPlaces]
    BY <1>4 DEF UnlinkSome, UnlinkLast, RemoveDirectory, Advance
  <2>. QED
    BY <1>4, <2>1, <2>2 DEF UnlinkSome, UnlinkLast, RemoveDirectory
<1>5. ASSUME NEW p \in Installer \union Remover, KillCommand(p) PROVE ComponentTypeOK'
  BY <1>5 DEF KillCommand
<1>6. CASE UNCHANGED componentVars
  BY <1>6 DEF componentVars
<1>. QED
  BY <1>1, <1>2, <1>3, <1>4, <1>5, <1>6 DEF ComponentNext

OutputTypes ==
  /\ large \in [Request -> BOOLEAN]
  /\ output \in [Request -> Answers \union {"nothing"}]

(* The steps of a request keep the types of its output.                    *)
LEMMA OutputTypesKept ==
  ASSUME OutputTypes, NEW r \in Request,
         ProviderStep(r) \/ OutsideStep(r) \/ HelperReadsInput(r) \/ HelperWorks(r)
  PROVE  OutputTypes'
<1>1. UNCHANGED large
  BY DEF ProviderStep, OutsideStep, HelperReadsInput, HelperWorks,
       WriteInitial, WriteFails, ReadSession, ReadFails, ResponseTooLong, WriteResponse,
       ReadResult, WaitForChild, Timeout, RequestTooLong, ComponentMissing, Spawn, SpawnFails,
       AppleAnswers, AppleFails, ProviderDies, HelperReads, HelperSeesEnd, HelperLoads,
       HelperAnswers, HelperEnds, HelperFails
<1>2. \/ UNCHANGED output
      \/ \E line \in Answers \union {"nothing"} : output' = [output EXCEPT ![r] = line]
  <2>1. CASE ReadSession(r) \/ ReadResult(r)
    BY <2>1 DEF ReadSession, ReadResult, Terminate
  <2>2. CASE ProviderStep(r) /\ ~ReadSession(r) /\ ~ReadResult(r)
    BY <2>2 DEF ProviderStep, WriteInitial, WriteFails, ReadFails, ResponseTooLong, WriteResponse,
                WaitForChild, Timeout, Terminate
  <2>3. CASE OutsideStep(r)
    BY <2>3 DEF OutsideStep, RequestTooLong, ComponentMissing, Spawn, SpawnFails, AppleAnswers,
                AppleFails, ProviderDies, Terminate
  <2>4. CASE HelperReadsInput(r) \/ HelperWorks(r)
    BY <2>4 DEF HelperReadsInput, HelperWorks, HelperReads, HelperSeesEnd, HelperLoads,
                HelperAnswers, HelperEnds, HelperFails
  <2>. QED
    BY <2>1, <2>2, <2>3, <2>4
<1>3. output' \in [Request -> Answers \union {"nothing"}]
  BY <1>2 DEF OutputTypes
<1>. QED
  BY <1>1, <1>3 DEF OutputTypes

ValidationTypes == ComponentTypeOK /\ OutputTypes

(* Every step keeps the types.                                             *)
LEMMA ValidationTypesKept ==
  ASSUME ValidationTypes, [ValidationNext]_validationVars
  PROVE  ValidationTypes'
<1> USE DEF ValidationTypes
<1>1. ASSUME NEW r \in Request,
             ProviderStep(r) \/ OutsideStep(r) \/ HelperReadsInput(r) \/ HelperWorks(r)
      PROVE  ValidationTypes'
  BY <1>1, OutputTypesKept, RequestsLeaveComponent, ComponentTypesKept
<1>2. CASE ComponentNext /\ UNCHANGED requestVars
  BY <1>2, ComponentTypesKept DEF requestVars, OutputTypes
<1>3. CASE UNCHANGED validationVars
  <2>1. UNCHANGED componentVars /\ UNCHANGED requestVars
    BY <1>3 DEF validationVars
  <2>. QED
    BY <2>1, ComponentTypesKept DEF requestVars, OutputTypes
<1>. QED
  BY <1>1, <1>2, <1>3 DEF ValidationNext

(* Of whatever the foreign library makes the helper answer, only the lines *)
(* the provider tells apart reach it, and every request, helper and        *)
(* command is at one of its places.                                        *)
THEOREM ValidationTypeCorrect == ValidationSpec => []ValidationTypeOK
<1>1. ValidationInit => ValidationTypes
  BY CommandsAreDistinct DEF ValidationInit, ComponentInit, ValidationTypes, OutputTypes,
     ComponentTypeOK, Absent, CommandPlaces
<1>2. ValidationTypes /\ [ValidationNext]_validationVars => ValidationTypes'
  BY ValidationTypesKept
<1>3. ValidationInv /\ ValidationTypes => ValidationTypeOK
  BY DEF ValidationInv, HelperInv, RequestTypes, ValidationTypes, OutputTypes, ValidationTypeOK
<1>. QED
  BY <1>1, <1>2, <1>3, ValidationInitially, ValidationStep, PTL DEF ValidationSpec
=============================================================================
