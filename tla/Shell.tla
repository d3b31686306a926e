-------------------------------- MODULE Shell --------------------------------
(***************************************************************************)
(* The application shell of crates/app/src/main.rs: the sidebar, the page  *)
(* shown beside it, the daemon handshake and the setup page.  All of it    *)
(* runs on the GTK main thread, so a handler is one step; the handshake is *)
(* a future of that thread and ends in a step of its own.                  *)
(*                                                                         *)
(* LITEBUBBLES_TRANSPORT chooses once between the fixture, whose           *)
(* conversations are in the sidebar from the start, and the daemon, for    *)
(* which the sidebar is empty.  DbusTransport::connect either answers or   *)
(* fails; it has no timeout, so nothing says that it ever does.  The       *)
(* daemon on the bus may be of another build than the application, with    *)
(* other protocol versions; hello agrees on one.                           *)
(***************************************************************************)
EXTENDS Naturals, Sequences, SequencesExt

CONSTANTS
  Conversations,   \* the fixture's conversations, in sidebar order
  NoConversation,
  App, Builds      \* protocol versions [min, max] of the app and of daemons

StatusPages == {"loading", "connected", "empty", "error"}

(* A conversation's page is named after it, with a prefix of its own.      *)
ASSUME ConversationsAssumption ==
  /\ Conversations \in Seq(ToSet(Conversations))
  /\ ToSet(Conversations) \intersect (StatusPages \union {NoConversation}) = {}

VersionRange == {range \in [min : Nat \ {0}, max : Nat] : range.min <= range.max}
ASSUME VersionAssumption == App \in VersionRange /\ Builds \subseteq VersionRange

NoDaemon == [version |-> 0]

VARIABLES
  mode,
  status,                \* ShellTransportState, with the version its daemon
  daemon,                \* has negotiated and, for properties, its build
  handshakes,            \* DbusTransport::connect futures not yet resolved
  state, selected,       \* UiModel
  matching, row,         \* the sidebar: conversations the query keeps, selected row
  page,                  \* the visible child of the content stack
  stack                  \* the visible child of the shell stack

transportVars == <<status, daemon, handshakes>>
sidebarVars == <<state, selected, matching, row>>
shellVars == <<mode, transportVars, sidebarVars, page, stack>>

Conversation == ToSet(Conversations)
Listed == IF mode = "Fixture" THEN Conversation ELSE {}

First(S) == SelectInSeq(Conversations, LAMBDA id : id \in S)
Top(S) == IF S = {} THEN NoConversation ELSE Conversations[First(S)]

ShellTypeOK ==
  /\ mode \in {"Fixture", "Daemon"}
  /\ status \in {"Connecting", "Connected", "Recoverable"}
  /\ daemon \in [version : Nat, build : Builds] \union {NoDaemon}
  /\ handshakes \in Nat
  /\ state \in {"Loading", "Ready", "Empty"}
  /\ selected \in Listed \union {NoConversation}
  /\ matching \in SUBSET Listed
  /\ row \in matching \union {NoConversation}
  /\ page \in Listed \union StatusPages
  /\ stack \in {"conversations", "setup"}

(* build_window: the fixture's first conversation is open, or a handshake  *)
(* with the daemon has begun.                                              *)
ShellInit ==
  /\ daemon = NoDaemon
  /\ stack = "conversations"
  /\ \/ /\ mode = "Fixture" /\ status = "Connected" /\ handshakes = 0
        /\ selected = Top(Conversation) /\ row = selected
        /\ state = "Ready"
        /\ page = IF selected = NoConversation THEN "empty" ELSE selected
     \/ /\ mode = "Daemon" /\ status = "Connecting" /\ handshakes = 1
        /\ selected = NoConversation /\ row = NoConversation
        /\ state = "Loading"
        /\ page = "loading"
  /\ matching = Listed

-----------------------------------------------------------------------------
(* The handshake with the daemon.                                          *)

(* "Try again", the button of the error page, starts another handshake.    *)
Retry ==
  /\ page = "error" /\ stack = "conversations"
  /\ status' = "Connecting" /\ daemon' = NoDaemon
  /\ handshakes' = handshakes + 1
  /\ page' = "loading"
  /\ UNCHANGED <<mode, stack>> /\ UNCHANGED sidebarVars

Bug_AnyAnswerWillDo(request, build) ==
  IF request.max <= build.max THEN request.max ELSE build.max

(* The highest version that both support, or none.                         *)
NegotiateVersion(request, build) ==
  LET version == IF request.max <= build.max THEN request.max ELSE build.max
  IN  IF version < request.min \/ version < build.min THEN 0 ELSE version

AppSupports(version) == version \in App.min..App.max

(* The daemon answered hello, with a version that the app has.             *)
HandshakeSucceeds(build) ==
  LET version == NegotiateVersion(App, build)
  IN  /\ handshakes > 0
      /\ AppSupports(version)
      /\ handshakes' = handshakes - 1
      /\ status' = "Connected" /\ page' = "connected"
      /\ daemon' = [version |-> version, build |-> build]
      /\ UNCHANGED <<mode, stack>> /\ UNCHANGED sidebarVars

(* No bus, no daemon, no shared version, or any error of D-Bus.            *)
HandshakeFails ==
  /\ handshakes > 0
  /\ handshakes' = handshakes - 1
  /\ status' = "Recoverable" /\ page' = "error"
  /\ UNCHANGED <<mode, daemon, stack>> /\ UNCHANGED sidebarVars

-----------------------------------------------------------------------------
(* The sidebar.                                                            *)

(* UiModel::select and the page switch, on a notification of a new row.    *)
Open(id) ==
  /\ selected' = id /\ state' = "Ready"
  /\ page' = id

SelectRow(id) ==
  /\ stack = "conversations"
  /\ id \in matching \ {row}
  /\ row' = id
  /\ Open(id)
  /\ UNCHANGED <<mode, matching, stack>> /\ UNCHANGED transportVars

(* A selected row can be unselected; its notification has no item.         *)
UnselectRow ==
  /\ stack = "conversations"
  /\ row # NoConversation
  /\ row' = NoConversation
  /\ UNCHANGED <<mode, state, selected, matching, page, stack>> /\ UNCHANGED transportVars

Bug_SearchKeepsRow(kept) ==
  /\ stack = "conversations"
  /\ matching' = kept
  /\ UNCHANGED <<mode, state, selected, row, page, stack>> /\ UNCHANGED transportVars

(* A search keeps the rows in "kept".  The filter is incremental: the      *)
(* handler sees the new rows, or none yet.                                 *)
Search(kept) ==
  /\ stack = "conversations"
  /\ matching' = kept
  /\ \E seen \in {{}, kept} :
       /\ row' = IF selected \in seen THEN selected ELSE Top(seen)
       /\ IF row' \notin {row, NoConversation}
            THEN Open(row')
            ELSE UNCHANGED <<state, selected, page>>
  /\ UNCHANGED <<mode, stack>> /\ UNCHANGED transportVars

Bug_NewKeepsSelected ==
  /\ state' = "Empty"
  /\ page' = "empty"
  /\ UNCHANGED <<mode, selected, matching, row, stack>> /\ UNCHANGED transportVars

(* Ctrl+N works on every page.                                             *)
NewConversation ==
  /\ selected' = NoConversation /\ state' = "Empty"
  /\ page' = "empty"
  /\ UNCHANGED <<mode, matching, row, stack>> /\ UNCHANGED transportVars

-----------------------------------------------------------------------------
ShowSetup ==
  /\ stack' = "setup"
  /\ UNCHANGED <<mode, page>> /\ UNCHANGED transportVars /\ UNCHANGED sidebarVars

(* connect_leave and connect_completed.                                    *)
LeaveSetup ==
  /\ stack = "setup"
  /\ stack' = "conversations"
  /\ UNCHANGED <<mode, page>> /\ UNCHANGED transportVars /\ UNCHANGED sidebarVars

ShellNext ==
  \/ Retry
  \/ \E build \in Builds : HandshakeSucceeds(build)
  \/ HandshakeFails
  \/ \E id \in Conversation : SelectRow(id)
  \/ UnselectRow
  \/ \E kept \in SUBSET Listed : Search(kept)
  \/ NewConversation
  \/ ShowSetup
  \/ LeaveSetup

ShellSpec == ShellInit /\ [][ShellNext]_shellVars

-----------------------------------------------------------------------------
(* Handshakes do not overlap, whatever the user does while one is in       *)
(* flight: otherwise a late failure would report as lost a daemon that a   *)
(* later handshake had reached.                                            *)
HandshakeIsAlone ==
  mode = "Daemon" => handshakes = (IF status = "Connecting" THEN 1 ELSE 0)

HighestShared(version, app, build) ==
  LET shared == (app.min..app.max) \intersect (build.min..build.max)
  IN  version \in shared /\ \A v \in shared : v <= version

(* The shell says Connected exactly when it holds a transport, whose       *)
(* version is the highest that the app and the daemon it reached share.    *)
ConnectedHasDaemon ==
  mode = "Daemon" =>
    /\ status = "Connected" <=> daemon # NoDaemon
    /\ daemon # NoDaemon => HighestShared(daemon.version, App, daemon.build)

(* The conversation on screen is the one the model says is open, after any *)
(* mix of selecting, searching and Ctrl+N.                                 *)
PageIsSelected ==
  mode = "Fixture" => page = IF selected = NoConversation THEN "empty" ELSE selected
=============================================================================
