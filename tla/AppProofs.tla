------------------------------ MODULE AppProofs ------------------------------
(***************************************************************************)
(* The two views of the app: the shell's handshake and its pages, for any  *)
(* conversations, any daemons and any use; and the timeline of a           *)
(* conversation, for any messages, any histories and any length of a day.  *)
(*                                                                         *)
(* The calendar: every day number is that of one day of one year of one    *)
(* era of 400 years, and the code's quotients find it; so no two days have *)
(* one date, and the next day has the next date.                           *)
(* Sorting: a message's rank is an injection of the positions into as many *)
(* positions, and hence onto them.                                         *)
(* Rows: the places of the messages' rows rise by one, and by two where a  *)
(* day begins, so each row is a message's or stands just before the row of *)
(* a message that begins a day.                                            *)
(* The timeline's invariant says that the messages are in order, the rows  *)
(* are made of them and the store has these rows.                          *)
(***************************************************************************)
EXTENDS Shell, Timeline, SequenceTheorems, FiniteSetTheorems, FunctionTheorems,
        NaturalsInduction, TLAPS

-----------------------------------------------------------------------------
(* The shell.                                                              *)

AgreedVersion ==
  /\ status = "Connected" <=> daemon # NoDaemon
  /\ daemon # NoDaemon => HighestShared(daemon.version, App, daemon.build)

(* What a hello agrees on is the highest version of both, if there is any. *)
LEMMA NegotiatedIsHighest ==
  ASSUME NEW app \in VersionRange, NEW build \in VersionRange,
         NegotiateVersion(app, build) \in app.min..app.max
  PROVE  HighestShared(NegotiateVersion(app, build), app, build)
BY DEF NegotiateVersion, HighestShared, VersionRange

(* With the daemon the sidebar stays empty, so only the handshake and      *)
(* Ctrl+N change the page, and the error page means that nothing is in     *)
(* flight.                                                                 *)
DaemonInv ==
  mode = "Daemon" =>
    /\ matching = {}
    /\ page = "error" => status = "Recoverable"
    /\ handshakes = (IF status = "Connecting" THEN 1 ELSE 0)
    /\ AgreedVersion

(* The invariant holds when the shell starts.                              *)
LEMMA ShellInitially == ShellInit => DaemonInv
BY DEF ShellInit, DaemonInv, AgreedVersion, Listed

(* In daemon mode a search finds nothing and opens nothing.                *)
LEMMA SearchFindsNothing ==
  ASSUME DaemonInv, NEW kept \in SUBSET Listed, Search(kept), mode = "Daemon"
  PROVE  matching' = {} /\ UNCHANGED <<mode, page, transportVars>>
<1>1. kept = {}
  BY DEF Listed
<1>2. PICK seen \in {{}, kept} :
        /\ row' = IF selected \in seen THEN selected ELSE Top(seen)
        /\ IF row' \notin {row, NoConversation}
             THEN Open(row') ELSE UNCHANGED <<state, selected, page>>
  BY DEF Search
<1>3. row' = NoConversation
  BY <1>1, <1>2 DEF Top
<1> QED
  BY <1>1, <1>2, <1>3 DEF Search, transportVars

(* Every step of the shell keeps it.                                       *)
LEMMA ShellStep == DaemonInv /\ [ShellNext]_shellVars => DaemonInv'
<1> SUFFICES ASSUME DaemonInv, [ShellNext]_shellVars, (mode = "Daemon")'
             PROVE  DaemonInv'
  BY DEF DaemonInv
<1>1. CASE Retry
  BY <1>1 DEF Retry, DaemonInv, AgreedVersion, sidebarVars
<1>2. ASSUME NEW build \in Builds, HandshakeSucceeds(build) PROVE DaemonInv'
  <2> DEFINE agreed == [version |-> NegotiateVersion(App, build), build |-> build]
  <2>1. /\ daemon' = agreed /\ status' = "Connected" /\ page' = "connected"
        /\ mode' = mode /\ matching' = matching /\ handshakes' = handshakes - 1
    BY <1>2 DEF HandshakeSucceeds, sidebarVars
  <2>2. handshakes = 1 /\ matching = {}
    BY <1>2, <2>1 DEF HandshakeSucceeds, DaemonInv
  <2>3. agreed # NoDaemon
    BY DEF NoDaemon
  <2>4. HighestShared(agreed.version, App, agreed.build)
    BY <1>2, NegotiatedIsHighest, VersionAssumption DEF HandshakeSucceeds, AppSupports
  <2> HIDE DEF agreed
  <2> QED
    BY <2>1, <2>2, <2>3, <2>4 DEF DaemonInv, AgreedVersion
<1>9. CASE HandshakeFails
  BY <1>9 DEF HandshakeFails, DaemonInv, AgreedVersion, sidebarVars
<1>3. ASSUME NEW id \in Conversation, SelectRow(id) PROVE DaemonInv'
  BY <1>3 DEF SelectRow, DaemonInv, AgreedVersion
<1>4. CASE UnselectRow
  BY <1>4 DEF UnselectRow, DaemonInv, AgreedVersion, transportVars
<1>5. ASSUME NEW kept \in SUBSET Listed, Search(kept) PROVE DaemonInv'
  <2>1. mode = "Daemon"
    BY <1>5 DEF Search
  <2> QED
    BY <1>5, <2>1, SearchFindsNothing DEF DaemonInv, AgreedVersion, transportVars
<1>6. CASE NewConversation
  BY <1>6 DEF NewConversation, DaemonInv, AgreedVersion, transportVars
<1>7. CASE ShowSetup \/ LeaveSetup
  BY <1>7 DEF ShowSetup, LeaveSetup, DaemonInv, AgreedVersion, transportVars, sidebarVars
<1>8. CASE UNCHANGED shellVars
  BY <1>8 DEF shellVars, DaemonInv, AgreedVersion, transportVars, sidebarVars
<1> QED
  BY <1>1, <1>2, <1>3, <1>4, <1>5, <1>6, <1>7, <1>8, <1>9 DEF ShellNext

(* Two handshakes with the daemon are never in flight at once, although    *)
(* nothing in start_daemon_handshake (main.rs:374-404) prevents it: the    *)
(* retry button is only there when none is.                                *)
THEOREM HandshakeAlwaysAlone == ShellSpec => []HandshakeIsAlone
<1>1. DaemonInv => HandshakeIsAlone
  BY DEF DaemonInv, HandshakeIsAlone
<1> QED
  BY <1>1, ShellInitially, ShellStep, PTL DEF ShellSpec

(* The shell never says Connected without a negotiated transport, never    *)
(* keeps one while it says something else, and speaks the highest version  *)
(* that the daemon it reached has too (transport.rs:92-103, 322-336).      *)
THEOREM ConnectedAlwaysHasDaemon == ShellSpec => []ConnectedHasDaemon
<1>1. DaemonInv => ConnectedHasDaemon
  BY DEF DaemonInv, AgreedVersion, ConnectedHasDaemon
<1> QED
  BY <1>1, ShellInitially, ShellStep, PTL DEF ShellSpec

-----------------------------------------------------------------------------
(* The pages.                                                              *)

(* The order of row numbers.                                               *)
Above == {pair \in Nat \X Nat : pair[1] < pair[2]}

(* Rows have a first one.                                                  *)
LEMMA FirstRow ==
  ASSUME NEW I \in SUBSET Nat, I # {}
  PROVE  \E m \in I : \A j \in I : m <= j
<1>1. IsWellFoundedOn(Above, Nat)
  BY NatLessThanWellFounded DEF OpToRel, Above
<1>2. PICK m \in I : \A j \in I : <<j, m>> \notin Above
  BY <1>1, WFMin
<1>3. ASSUME NEW j \in I PROVE m <= j
  <2>1. <<j, m>> \in Nat \X Nat /\ ~(j < m)
    BY <1>2 DEF Above
  <2>. QED
    BY <2>1
<1>. QED
  BY <1>3

(* The top row of a sidebar that shows some conversations is one of them.  *)
LEMMA TopIsShown ==
  ASSUME NEW S \in SUBSET Conversation, S # {}
  PROVE  Top(S) \in S
<1> DEFINE I == {i \in 1..Len(Conversations) : Conversations[i] \in S}
<1>1. PICK c \in Conversation : c \in S
  OBVIOUS
<1>2. DOMAIN Conversations = 1..Len(Conversations) /\ Len(Conversations) \in Nat
  BY ConversationsAssumption, LenProperties
<1>3. \E i \in DOMAIN Conversations : Conversations[i] = c
  BY DEF Conversation, ToSet
<1>4. I # {} /\ I \subseteq Nat
  BY <1>1, <1>2, <1>3
<1>5. PICK m \in I : \A j \in I : m <= j
  BY <1>4, FirstRow
<1>6. First(S) \in I
  BY <1>4, <1>5 DEF First, SelectInSeq, Min
<1>. QED
  BY <1>6 DEF Top

(* With the fixture there is no handshake, and no page but the two that    *)
(* the selection has.                                                      *)
FixtureInv ==
  mode = "Fixture" =>
    /\ handshakes = 0
    /\ page = IF selected = NoConversation THEN "empty" ELSE selected

PageInv == ShellTypeOK /\ FixtureInv

(* The page invariant holds when the shell starts.                         *)
LEMMA PageInitially == ShellInit => PageInv
<1> SUFFICES ASSUME ShellInit PROVE PageInv
  OBVIOUS
<1>1. Conversation # {} => Top(Conversation) \in Conversation
  BY TopIsShown
<1>2. Top(Conversation) \in Conversation \union {NoConversation}
  BY <1>1 DEF Top
<1>3. ShellTypeOK
  BY <1>2, ConversationsAssumption
     DEF ShellInit, ShellTypeOK, Listed, StatusPages, NoDaemon, Conversation
<1>4. FixtureInv
  BY DEF ShellInit, FixtureInv
<1>. QED
  BY <1>3, <1>4 DEF PageInv

(* Versions are natural numbers.                                           *)
LEMMA NegotiatedTyped ==
  ASSUME NEW app \in VersionRange, NEW build \in VersionRange
  PROVE  NegotiateVersion(app, build) \in Nat
BY DEF NegotiateVersion, VersionRange

(* The error page, where a retry starts, is not there with the fixture.    *)
LEMMA NoRetryWithFixture ==
  ASSUME PageInv, mode = "Fixture"
  PROVE  page # "error"
<1>1. selected \in Conversation \union {NoConversation}
  BY DEF PageInv, ShellTypeOK, Listed
<1>. QED
  BY <1>1, ConversationsAssumption DEF PageInv, FixtureInv, StatusPages, Conversation

(* Every step of the shell keeps the page invariant.                       *)
LEMMA PageStep == PageInv /\ [ShellNext]_shellVars => PageInv'
<1> SUFFICES ASSUME PageInv, [ShellNext]_shellVars PROVE PageInv'
  OBVIOUS
<1> USE DEF PageInv
<1>1. CASE Retry
  <2>1. mode # "Fixture"
    BY <1>1, NoRetryWithFixture DEF Retry
  <2>2. ShellTypeOK'
    BY <1>1 DEF Retry, ShellTypeOK, Listed, StatusPages, sidebarVars
  <2>. QED
    BY <1>1, <2>1, <2>2 DEF Retry, FixtureInv
<1>2. ASSUME NEW build \in Builds, HandshakeSucceeds(build) PROVE PageInv'
  <2>1. handshakes > 0 /\ handshakes \in Nat
    BY <1>2 DEF HandshakeSucceeds, ShellTypeOK
  <2>2. mode # "Fixture"
    BY <2>1 DEF FixtureInv
  <2>3. NegotiateVersion(App, build) \in Nat
    BY NegotiatedTyped, VersionAssumption
  <2>4. ShellTypeOK'
    BY <1>2, <2>1, <2>3 DEF HandshakeSucceeds, ShellTypeOK, Listed, StatusPages, sidebarVars
  <2>. QED
    BY <1>2, <2>2, <2>4 DEF HandshakeSucceeds, FixtureInv
<1>3. CASE HandshakeFails
  <2>1. handshakes > 0 /\ handshakes \in Nat
    BY <1>3 DEF HandshakeFails, ShellTypeOK
  <2>2. mode # "Fixture"
    BY <2>1 DEF FixtureInv
  <2>3. ShellTypeOK'
    BY <1>3, <2>1 DEF HandshakeFails, ShellTypeOK, Listed, StatusPages, sidebarVars
  <2>. QED
    BY <1>3, <2>2, <2>3 DEF HandshakeFails, FixtureInv
<1>4. ASSUME NEW id \in Conversation, SelectRow(id) PROVE PageInv'
  <2>1. id \in Listed /\ id # NoConversation
    BY <1>4, ConversationsAssumption DEF SelectRow, ShellTypeOK, Conversation
  <2>2. ShellTypeOK'
    BY <1>4, <2>1 DEF SelectRow, Open, ShellTypeOK, Listed, transportVars
  <2>. QED
    BY <1>4, <2>1, <2>2 DEF SelectRow, Open, FixtureInv, transportVars
<1>5. CASE UnselectRow
  BY <1>5 DEF UnselectRow, ShellTypeOK, FixtureInv, Listed, transportVars
<1>6. ASSUME NEW kept \in SUBSET Listed, Search(kept) PROVE PageInv'
  <2>1. PICK seen \in {{}, kept} :
          /\ row' = IF selected \in seen THEN selected ELSE Top(seen)
          /\ IF row' \notin {row, NoConversation}
               THEN Open(row') ELSE UNCHANGED <<state, selected, page>>
    BY <1>6 DEF Search
  <2>2. kept \subseteq Listed /\ seen \in SUBSET kept /\ Listed \subseteq Conversation
    BY DEF Listed
  <2>3. Top(seen) \in seen \union {NoConversation}
    <3>1. seen # {} => Top(seen) \in seen
      BY <2>2, TopIsShown
    <3>. QED
      BY <3>1 DEF Top
  <2>4. row' \in kept \union {NoConversation}
    BY <2>1, <2>2, <2>3
  <2>5. /\ matching' = kept /\ Listed' = Listed
        /\ UNCHANGED <<mode, stack, status, daemon, handshakes>>
    BY <1>6 DEF Search, transportVars, Listed
  <2>6. CASE row' \notin {row, NoConversation}
    <3>1. selected' = row' /\ page' = row' /\ state' = "Ready" /\ row' \in Listed
      BY <2>1, <2>2, <2>4, <2>6 DEF Open
    <3>2. ShellTypeOK'
      BY <2>4, <2>5, <3>1 DEF ShellTypeOK
    <3>. QED
      BY <2>5, <2>6, <3>1, <3>2 DEF FixtureInv
  <2>7. CASE row' \in {row, NoConversation}
    <3>1. UNCHANGED <<state, selected, page>>
      BY <2>1, <2>7
    <3>2. ShellTypeOK'
      BY <2>4, <2>5, <3>1 DEF ShellTypeOK
    <3>. QED
      BY <2>5, <3>1, <3>2 DEF FixtureInv
  <2>. QED
    BY <2>6, <2>7
<1>7. CASE NewConversation
  BY <1>7 DEF NewConversation, ShellTypeOK, FixtureInv, Listed, StatusPages, transportVars
<1>8. CASE ShowSetup \/ LeaveSetup
  BY <1>8 DEF ShowSetup, LeaveSetup, ShellTypeOK, FixtureInv, Listed, transportVars, sidebarVars
<1>9. CASE UNCHANGED shellVars
  BY <1>9 DEF shellVars, ShellTypeOK, FixtureInv, Listed, transportVars, sidebarVars
<1>. QED
  BY <1>1, <1>2, <1>3, <1>4, <1>5, <1>6, <1>7, <1>8, <1>9 DEF ShellNext

(* The state of main.rs is well formed: the selected row is among those    *)
(* the search keeps, and the page is a status or a conversation listed.    *)
THEOREM ShellTypeCorrect == ShellSpec => []ShellTypeOK
  BY PageInitially, PageStep, PTL DEF ShellSpec, PageInv

(* However many conversations there are, and however the user mixes        *)
(* selecting, searching and Ctrl+N, the page shown is the conversation     *)
(* that UiModel says is open, or the empty page when none is.              *)
THEOREM PageAlwaysSelected == ShellSpec => []PageIsSelected
<1>1. PageInv => PageIsSelected
  BY DEF PageInv, FixtureInv, PageIsSelected
<1>. QED
  BY <1>1, PageInitially, PageStep, PTL DEF ShellSpec

-----------------------------------------------------------------------------
(* The timeline: the calendar.                                             *)

(* A year of the calendar that begins in March ends with February 29 when  *)
(* the year it ends in is a leap year.                                     *)
LastOf(y) ==
  IF (y + 1) % 4 = 0 /\ ((y + 1) % 100 = 0 => (y + 1) % 400 = 0) THEN 365 ELSE 364

(* Day p of year y of era e, and the number and the date of that day.      *)
Years == 0..399
YearDays == 0..365
EraDays == 146097
Lasts == {364, 365}
DaysOf(y) == 365 * y + y \div 4 - y \div 100
NumberOf(e, y, p) == 146097 * e + DaysOf(y) + p - 719468
MonthOf(p) == (5 * p + 2) \div 153
DateOf(e, y, p) ==
  <<y + 400 * e + (IF MonthOf(p) < 10 THEN 0 ELSE 1),
    IF MonthOf(p) < 10 THEN MonthOf(p) + 3 ELSE MonthOf(p) - 9,
    p - (153 * MonthOf(p) + 2) \div 5 + 1>>

(* a, b and c are the leap days the code takes off and puts back, q and r  *)
(* those before the year.                                                  *)
LEMMA YearFits ==
  ASSUME NEW doe \in Int, 0 <= doe, doe <= 146096,
         NEW a \in Int, 1460 * a <= doe, doe < 1460 * a + 1460,
         NEW b \in Int, 36524 * b <= doe, doe < 36524 * b + 36524,
         NEW c \in Int, 146096 * c <= doe, doe < 146096 * c + 146096,
         NEW y \in Int, 365 * y <= doe - a + b - c, doe - a + b - c < 365 * y + 365,
         NEW q \in Int, 4 * q <= y, y < 4 * q + 4,
         NEW r \in Int, 100 * r <= y, y < 100 * r + 100
  PROVE  /\ 0 <= y /\ y <= 399
         /\ 0 <= doe - (365 * y + q - r) /\ doe - (365 * y + q - r) <= 365
         /\ doe - (365 * y + q - r) = 365 =>
              y + 1 = 4 * (q + 1) /\ (y + 1 = 100 * (r + 1) => y = 399)
  BY SMT

(* A day of the year lies in one of twelve months of 30.6 days.            *)
LEMMA MonthFits ==
  ASSUME NEW p \in 0..365
  PROVE  /\ MonthOf(p) \in 0..11
         /\ 153 * MonthOf(p) <= 5 * p + 2 /\ 5 * p + 2 < 153 * MonthOf(p) + 153
  BY SMT DEF MonthOf

(* The code's quotients take a number apart as the calendar does.          *)
LEMMA CivilParts ==
  ASSUME NEW d \in Int
  PROVE  \E e \in Int, y \in Years, p \in YearDays :
           p <= LastOf(y) /\ d = NumberOf(e, y, p) /\ CivilDate(d) = DateOf(e, y, p)
<1> DEFINE z == d + 719468
           e == QuotientToZero(IF z >= 0 THEN z ELSE z - 146096, 146097)
           doe == z - e * 146097
           a == doe \div 1460
           b == doe \div 36524
           c == doe \div 146096
           y == (doe - a + b - c) \div 365
           q == y \div 4
           r == y \div 100
           p == doe - (365 * y + q - r)
           mp == MonthOf(p)
           m == mp + (IF mp < 10 THEN 3 ELSE -9)
<1>1. CivilDate(d) = <<y + e * 400 + (IF m <= 2 THEN 1 ELSE 0), m, p - (153 * mp + 2) \div 5 + 1>>
  BY SMT DEF CivilDate, MonthOf
<1>2. e \in Int /\ 0 <= z - e * 146097 /\ z - e * 146097 <= 146096
  <2>1. CASE z >= 0
    <3>1. e = z \div 146097
      BY <2>1, SMT DEF QuotientToZero
    <3> HIDE DEF e
    <3>. QED
      BY <3>1, SMT
  <2>2. CASE z < 0
    <3>1. e = -((146096 - z) \div 146097)
      BY <2>2, SMT DEF QuotientToZero
    <3> HIDE DEF e
    <3>. QED
      BY <3>1, SMT
  <2>. QED
    BY <2>1, <2>2, SMT
<1> HIDE DEF e
<1>3. doe \in Int /\ 0 <= doe /\ doe <= 146096 /\ d = 146097 * e + doe - 719468
  BY <1>2, SMT
<1> HIDE DEF doe
<1>4. /\ a \in Int /\ 1460 * a <= doe /\ doe < 1460 * a + 1460
      /\ b \in Int /\ 36524 * b <= doe /\ doe < 36524 * b + 36524
      /\ c \in Int /\ 146096 * c <= doe /\ doe < 146096 * c + 146096
  BY <1>3, SMT
<1> HIDE DEF a, b, c
<1>5. y \in Int /\ 365 * y <= doe - a + b - c /\ doe - a + b - c < 365 * y + 365
  BY <1>3, <1>4, SMT
<1> HIDE DEF y
<1>6. /\ q \in Int /\ 4 * q <= y /\ y < 4 * q + 4
      /\ r \in Int /\ 100 * r <= y /\ y < 100 * r + 100
  BY <1>5, SMT
<1>7. p = doe - DaysOf(y)
  BY SMT DEF DaysOf
<1> HIDE DEF q, r
<1>8. y \in 0..399 /\ p \in 0..365
  BY <1>3, <1>4, <1>5, <1>6, YearFits, SMT
<1>9. p = 365 => LastOf(y) = 365
  <2>1. p = 365 => y + 1 = 4 * (q + 1) /\ (y + 1 = 100 * (r + 1) => y = 399)
    BY <1>3, <1>4, <1>5, <1>6, YearFits, SMT
  <2> HIDE DEF p
  <2>2. (y + 1) % 4 = 0 <=> y + 1 = 4 * (q + 1)
    BY <1>6, <1>8, SMT
  <2>3. (y + 1) % 100 = 0 <=> y + 1 = 100 * (r + 1)
    BY <1>6, <1>8, SMT
  <2>4. (y + 1) % 400 = 0 <=> y = 399
    BY <1>8, SMT
  <2>. QED
    BY <2>1, <2>2, <2>3, <2>4, SMT DEF LastOf
<1>10. p <= LastOf(y)
  BY <1>8, <1>9, SMT DEF LastOf
<1>11. d = NumberOf(e, y, p)
  BY <1>2, <1>3, <1>5, <1>6, <1>7, SMT DEF NumberOf, DaysOf
<1> HIDE DEF p
<1>12. mp \in 0..11
  <2>1. p \in 0..365
    BY <1>8
  <2>. QED
    BY <2>1, MonthFits, Zenon
<1>13. CivilDate(d) = DateOf(e, y, p)
  BY <1>1, <1>2, <1>5, <1>12, SMT DEF DateOf
<1>14. y \in Years /\ p \in YearDays
  BY <1>8, SMT DEF Years, YearDays
<1> HIDE DEF z, mp, m
<1>15. e \in Int
  BY <1>2, SMT
<1>. QED
  BY <1>10, <1>11, <1>13, <1>14, <1>15, Zenon

(* A year has ended when the next begins.                                  *)
LEMMA YearEnds ==
  ASSUME NEW y \in Years
  PROVE  /\ LastOf(y) \in Lasts /\ DaysOf(y) \in Nat
         /\ DaysOf(y) + LastOf(y) < EraDays
         /\ y = 399 => DaysOf(y) + LastOf(y) + 1 = EraDays
         /\ \A w \in Years : y < w =>
              /\ DaysOf(y) + LastOf(y) < DaysOf(w)
              /\ w = y + 1 => DaysOf(w) = DaysOf(y) + LastOf(y) + 1
<1> DEFINE q == y \div 4
           r == y \div 100
<1> USE DEF Years, EraDays, Lasts
<1>1. /\ q \in Int /\ 4 * q <= y /\ y < 4 * q + 4
      /\ r \in Int /\ 100 * r <= y /\ y < 100 * r + 100
  BY SMT
<1>2. /\ (y + 1) % 4 = 0 <=> y + 1 = 4 * (q + 1)
      /\ (y + 1) % 100 = 0 <=> y + 1 = 100 * (r + 1)
      /\ (y + 1) % 400 = 0 <=> y = 399
  <2> HIDE DEF q, r
  <2>1. (y + 1) % 4 = 0 <=> y + 1 = 4 * (q + 1)
    BY <1>1, SMT
  <2>2. (y + 1) % 100 = 0 <=> y + 1 = 100 * (r + 1)
    BY <1>1, SMT
  <2>3. (y + 1) % 400 = 0 <=> y = 399
    BY <1>1, SMT
  <2>. QED
    BY <2>1, <2>2, <2>3
<1>3. DaysOf(y) = 365 * y + q - r
  BY SMT DEF DaysOf
<1> HIDE DEF q, r
<1>4. LastOf(y) = IF y + 1 = 4 * (q + 1) /\ (y + 1 = 100 * (r + 1) => y = 399) THEN 365 ELSE 364
  BY <1>2, SMT DEF LastOf
<1>5. ASSUME NEW w \in Years, y < w
      PROVE  /\ DaysOf(y) + LastOf(y) < DaysOf(w)
             /\ w = y + 1 => DaysOf(w) = DaysOf(y) + LastOf(y) + 1
  <2> DEFINE t == w \div 4
             u == w \div 100
  <2>1. /\ t \in Int /\ 4 * t <= w /\ w < 4 * t + 4
        /\ u \in Int /\ 100 * u <= w /\ w < 100 * u + 100
    BY SMT
  <2>2. DaysOf(w) = 365 * w + t - u
    BY SMT DEF DaysOf
  <2> HIDE DEF t, u
  <2>. QED
    BY <1>1, <1>3, <1>4, <1>5, <2>1, <2>2, SMT
<1>6. /\ LastOf(y) \in Lasts /\ DaysOf(y) \in Nat
      /\ DaysOf(y) + LastOf(y) < EraDays
      /\ y = 399 => DaysOf(y) + LastOf(y) + 1 = EraDays
  BY <1>1, <1>3, <1>4, SMT
<1>. QED
  BY <1>5, <1>6, SMT

(* The days of a year.                                                     *)
UpTo(y) == {p \in YearDays : p <= LastOf(y)}

(* Two days have two numbers.                                              *)
LEMMA NumbersDiffer ==
  ASSUME NEW e \in Int, NEW y \in Years, NEW p \in UpTo(y),
         NEW f \in Int, NEW w \in Years, NEW s \in UpTo(w),
         NumberOf(e, y, p) = NumberOf(f, w, s)
  PROVE  e = f /\ y = w /\ p = s
<1> DEFINE dy == DaysOf(y)
           dw == DaysOf(w)
           ly == LastOf(y)
           lw == LastOf(w)
<1>1. /\ ly \in Lasts /\ dy \in Nat /\ dy + ly < EraDays
      /\ lw \in Lasts /\ dw \in Nat /\ dw + lw < EraDays
      /\ y < w => dy + ly < dw
      /\ w < y => dw + lw < dy
  BY YearEnds, Zenon
<1>2. y = w => dy = dw
  OBVIOUS
<1>3. p \in YearDays /\ p <= ly /\ s \in YearDays /\ s <= lw
  BY DEF UpTo
<1>4. 146097 * e + dy + p - 719468 = 146097 * f + dw + s - 719468
  BY SMT DEF NumberOf
<1> HIDE DEF dy, dw, ly, lw
<1> USE DEF Years, YearDays, EraDays, Lasts
<1>5. e = f
  BY <1>1, <1>3, <1>4, SMT
<1>. QED
  BY <1>1, <1>2, <1>3, <1>4, <1>5, SMT

(* Two days have two dates.                                                *)
LEMMA DatesDiffer ==
  ASSUME NEW e \in Int, NEW y \in Years, NEW p \in YearDays,
         NEW f \in Int, NEW w \in Years, NEW s \in YearDays,
         DateOf(e, y, p) = DateOf(f, w, s)
  PROVE  e = f /\ y = w /\ p = s
<1> DEFINE m == MonthOf(p)
           n == MonthOf(s)
<1>1. m \in 0..11 /\ n \in 0..11
  BY MonthFits DEF YearDays
<1>2. /\ y + 400 * e + (IF m < 10 THEN 0 ELSE 1) = w + 400 * f + (IF n < 10 THEN 0 ELSE 1)
      /\ (IF m < 10 THEN m + 3 ELSE m - 9) = (IF n < 10 THEN n + 3 ELSE n - 9)
      /\ p - (153 * m + 2) \div 5 + 1 = s - (153 * n + 2) \div 5 + 1
  BY Zenon DEF DateOf
<1> HIDE DEF m, n
<1>3. m = n
  BY <1>1, <1>2, SMT
<1>4. (153 * m + 2) \div 5 \in Int
  BY <1>1, SMT
<1>. QED
  BY <1>2, <1>3, <1>4, SMT DEF Years, YearDays

(* No two days share a label.                                              *)
LEMMA LabelsDiffer ==
  ASSUME NEW a \in Int, NEW b \in Int, CivilDate(a) = CivilDate(b)
  PROVE  a = b
<1>1. PICK e \in Int, y \in Years, p \in YearDays :
        p <= LastOf(y) /\ a = NumberOf(e, y, p) /\ CivilDate(a) = DateOf(e, y, p)
  BY CivilParts, Zenon
<1>2. PICK f \in Int, w \in Years, s \in YearDays :
        s <= LastOf(w) /\ b = NumberOf(f, w, s) /\ CivilDate(b) = DateOf(f, w, s)
  BY CivilParts, Zenon
<1>3. DateOf(e, y, p) = DateOf(f, w, s)
  BY <1>1, <1>2, Zenon
<1>4. e = f /\ y = w /\ p = s
  BY <1>3, DatesDiffer
<1>. QED
  BY <1>1, <1>2, <1>4, Zenon

(* A year ends on its day 365 exactly when the next is a leap year.        *)
LEMMA LeapYears ==
  ASSUME NEW e \in Int, NEW y \in Years
  PROVE  IsLeap(y + 400 * e + 1) <=> LastOf(y) = 365
<1>1. (y + 400 * e + 1) % 4 = (y + 1) % 4
  BY SMT DEF Years
<1>2. (y + 400 * e + 1) % 100 = (y + 1) % 100
  BY SMT DEF Years
<1>3. (y + 400 * e + 1) % 400 = (y + 1) % 400
  BY SMT DEF Years
<1>. QED
  BY <1>1, <1>2, <1>3, SMT DEF IsLeap, LastOf

(* What NextDate says, alternative by alternative.                         *)
LEMMA NextDateCases ==
  ASSUME NEW y, NEW m, NEW d
  PROVE  /\ d < DaysIn(y, m) => NextDate(<<y, m, d>>) = <<y, m, d + 1>>
         /\ ~(d < DaysIn(y, m)) /\ m < 12 => NextDate(<<y, m, d>>) = <<y, m + 1, 1>>
         /\ ~(d < DaysIn(y, m)) /\ ~(m < 12) => NextDate(<<y, m, d>>) = <<y + 1, 1, 1>>
<1>1. <<y, m, d>>[1] = y /\ <<y, m, d>>[2] = m /\ <<y, m, d>>[3] = d
  OBVIOUS
<1>2. NextDate(<<y, m, d>>) =
        IF d < DaysIn(y, m) THEN <<y, m, d + 1>>
        ELSE IF m < 12 THEN <<y, m + 1, 1>>
        ELSE <<y + 1, 1, 1>>
  BY <1>1, Zenon DEF NextDate
<1>. QED
  BY <1>2
(* Within a year the date of the next day is the next date: m and n are    *)
(* the months of the two days, b and c the days before these months.       *)
LEMMA NextInYear ==
  ASSUME NEW e \in Int, NEW y \in Years, NEW p \in YearDays, p < LastOf(y)
  PROVE  NextDate(DateOf(e, y, p)) = DateOf(e, y, p + 1)
<1> DEFINE last == LastOf(y)
           base == y + 400 * e
           m == MonthOf(p)
           n == MonthOf(p + 1)
           b == (153 * m + 2) \div 5
           c == (153 * n + 2) \div 5
           year == base + (IF m < 10 THEN 0 ELSE 1)
           month == IF m < 10 THEN m + 3 ELSE m - 9
           day == p - b + 1
           days == IF m = 11 THEN last - 336 ELSE IF m \in {1, 3, 6, 8} THEN 30 ELSE 31
           year2 == base + (IF n < 10 THEN 0 ELSE 1)
           month2 == IF n < 10 THEN n + 3 ELSE n - 9
           day2 == (p + 1) - c + 1
<1>1. last \in {364, 365} /\ (last = 365 <=> IsLeap(base + 1))
  <2>1. last \in Lasts
    BY YearEnds
  <2>2. last = 365 <=> IsLeap(base + 1)
    BY LeapYears
  <2>. QED
    BY <2>1, <2>2 DEF Lasts
<1>2. base \in Int /\ p \in 0..365 /\ p + 1 \in 0..365 /\ p < last
  BY <1>1, SMT DEF Years, YearDays
<1>3. m \in Int /\ 153 * m <= 5 * p + 2 /\ 5 * p + 2 < 153 * m + 153
  BY <1>2, SMT DEF MonthOf
<1>5. DateOf(e, y, p) = <<year, month, day>> /\ DateOf(e, y, p + 1) = <<year2, month2, day2>>
  BY SMT DEF DateOf
<1>4. n \in Int /\ 153 * n <= 5 * (p + 1) + 2 /\ 5 * (p + 1) + 2 < 153 * n + 153
  <2> DEFINE q == p + 1
  <2>1. q \in 0..365
    BY <1>2
  <2> HIDE DEF q
  <2>2. MonthOf(q) \in Int /\ 153 * MonthOf(q) <= 5 * q + 2 /\ 5 * q + 2 < 153 * MonthOf(q) + 153
    BY <2>1, SMT DEF MonthOf
  <2>3. q = p + 1 /\ n = MonthOf(q)
    BY DEF q
  <2> HIDE DEF n
  <2>. QED
    BY <1>2, <2>2, <2>3, SMT
<1> HIDE DEF m, n, base, last
<1>6. b \in Int /\ 5 * b <= 153 * m + 2 /\ 153 * m + 2 < 5 * b + 5
  BY <1>3, SMT
<1>7. c \in Int /\ 5 * c <= 153 * n + 2 /\ 153 * n + 2 < 5 * c + 5
  BY <1>4, SMT
<1> HIDE DEF b, c
<1>8. m \in 0..11
  BY <1>2, <1>3, SMT
<1>9. DaysIn(year, month) = days
  <2>1. month = 2 <=> m = 11
    BY <1>8, SMT
  <2>2. month \in {4, 6, 9, 11} <=> m \in {1, 3, 6, 8}
    BY <1>8, SMT
  <2>3. m = 11 => year = base + 1
    BY SMT
  <2> HIDE DEF year, month
  <2>. QED
    BY <1>1, <2>1, <2>2, <2>3, SMT DEF DaysIn
<1>10. \/ n = m /\ c = b /\ day < days
       \/ n = m + 1 /\ day = days /\ c = p + 1 /\ m < 11
  BY <1>1, <1>2, <1>3, <1>4, <1>6, <1>7, <1>8, SMT
<1>11. /\ day < days => NextDate(<<year, month, day>>) = <<year, month, day + 1>>
       /\ ~(day < days) /\ month < 12 => NextDate(<<year, month, day>>) = <<year, month + 1, 1>>
       /\ ~(day < days) /\ ~(month < 12) => NextDate(<<year, month, day>>) = <<year + 1, 1, 1>>
  <2> HIDE DEF year, month, day, days
  <2>. QED
    BY <1>9, NextDateCases, Zenon
<1>12. CASE n = m /\ c = b /\ day < days
  <2>1. year2 = year /\ month2 = month
    BY <1>12
  <2>2. day2 = day + 1
    BY <1>2, <1>6, <1>12, SMT
  <2>3. NextDate(<<year, month, day>>) = <<year, month, day + 1>>
    BY <1>11, <1>12, Zenon
  <2>. QED
    BY <1>5, <2>1, <2>2, <2>3, Zenon
<1>13. CASE n = m + 1 /\ day = days /\ c = p + 1 /\ m < 11
  <2>1. ~(day < days) /\ day2 = 1
    BY <1>1, <1>2, <1>8, <1>13, SMT
  <2>2. CASE month < 12
    <3>1. year2 = year /\ month2 = month + 1
      BY <1>2, <1>8, <1>13, <2>2, SMT
    <3>. QED
      BY <1>5, <1>11, <2>1, <2>2, <3>1, Zenon
  <2>3. CASE ~(month < 12)
    <3>1. year2 = year + 1 /\ month2 = 1
      BY <1>2, <1>8, <1>13, <2>3, SMT
    <3>. QED
      BY <1>5, <1>11, <2>1, <2>3, <3>1, Zenon
  <2>. QED
    BY <2>2, <2>3
<1>. QED
  BY <1>10, <1>12, <1>13

(* March 1 of the calendar year in which year y of era e ends.             *)
IsNewYear(e, y, date) == date = <<y + 400 * e + 1, 3, 1>>

(* The last day of a year, February 29 or 28, comes before March 1.        *)
LEMMA NextYear ==
  ASSUME NEW e \in Int, NEW y \in Years
  PROVE  IsNewYear(e, y, NextDate(DateOf(e, y, LastOf(y))))
<1> DEFINE base == y + 400 * e
           last == LastOf(y)
<1>1. last \in {364, 365} /\ (last = 365 <=> IsLeap(base + 1))
  <2>1. last \in Lasts
    BY YearEnds
  <2>2. last = 365 <=> IsLeap(base + 1)
    BY LeapYears
  <2>. QED
    BY <2>1, <2>2 DEF Lasts
<1>2. MonthOf(last) = 11
  <2> HIDE DEF last
  <2>. QED
    BY <1>1, SMT DEF MonthOf
<1>3. DateOf(e, y, last) = <<base + 1, 2, last - 336>>
  <2>1. (153 * 11 + 2) \div 5 = 337
    BY SMT
  <2> HIDE DEF last
  <2>2. last \in Int
    BY <1>1, SMT
  <2>. QED
    BY <1>2, <2>1, <2>2, SMT DEF DateOf
<1>4. DaysIn(base + 1, 2) = last - 336
  <2> HIDE DEF last, base
  <2>. QED
    BY <1>1, SMT DEF DaysIn
<1> HIDE DEF last, base
<1>5. last - 336 \in Int /\ ~(last - 336 < last - 336)
  BY <1>1, SMT
<1>6. NextDate(<<base + 1, 2, last - 336>>) = <<base + 1, 2 + 1, 1>>
  BY <1>4, <1>5, NextDateCases, SMT
<1>7. NextDate(DateOf(e, y, last)) = <<base + 1, 3, 1>>
  BY <1>3, <1>6, SMT
<1>. QED
  BY <1>7, Zenon DEF IsNewYear, base, last

(* Day 0 of a year is March 1.                                             *)
LEMMA YearBegins ==
  ASSUME NEW e \in Int, NEW y \in Years
  PROVE  DateOf(e, y, 0) = <<y + 400 * e, 3, 1>>
<1>1. MonthOf(0) = 0 /\ (153 * 0 + 2) \div 5 = 0
  BY SMT DEF MonthOf
<1>. QED
  BY <1>1, SMT DEF DateOf, Years

(* The date of the next day is the calendar's next date.                   *)
LEMMA DatesFollow ==
  ASSUME NEW d \in Int
  PROVE  CivilDate(d + 1) = NextDate(CivilDate(d))
<1>1. PICK e \in Int, y \in Years, p \in YearDays :
        p <= LastOf(y) /\ d = NumberOf(e, y, p) /\ CivilDate(d) = DateOf(e, y, p)
  BY CivilParts, Zenon
<1>2. d + 1 \in Int
  OBVIOUS
<1>3. PICK f \in Int, w \in Years, s \in YearDays :
        s <= LastOf(w) /\ d + 1 = NumberOf(f, w, s) /\ CivilDate(d + 1) = DateOf(f, w, s)
  BY <1>2, CivilParts, Zenon
<1>4. NumberOf(e, y, p) + 1 = NumberOf(f, w, s)
  BY <1>1, <1>3, SMT
<1>5. LastOf(y) \in Lasts
  BY YearEnds
<1>6. CASE p < LastOf(y)
  <2>1. p + 1 \in YearDays /\ p + 1 <= LastOf(y)
    BY <1>5, <1>6, SMT DEF YearDays, Lasts
  <2>2. DaysOf(y) \in Int
    BY YearEnds
  <2>3. NumberOf(e, y, p + 1) = NumberOf(f, w, s)
    BY <1>4, <2>2, SMT DEF NumberOf, YearDays
  <2>4. e = f /\ y = w /\ p + 1 = s
    <3>1. s \in UpTo(w) /\ p + 1 \in UpTo(y)
      BY <1>3, <2>1 DEF UpTo
    <3>. QED
      BY <2>3, <3>1, NumbersDiffer
  <2>. QED
    <3>1. NextDate(DateOf(e, y, p)) = DateOf(e, y, p + 1)
      BY <1>6, NextInYear
    <3>. QED
      BY <1>1, <1>3, <2>4, <3>1
<1>7. CASE p = LastOf(y) /\ y < 399
  <2> DEFINE x == y + 1
  <2>1. x \in Years /\ y < x
    BY <1>7, SMT DEF Years
  <2>2. DaysOf(y) \in Int /\ DaysOf(x) = DaysOf(y) + LastOf(y) + 1
    <3>1. /\ DaysOf(y) \in Nat
          /\ \A v \in Years : y < v => (v = y + 1 => DaysOf(v) = DaysOf(y) + LastOf(y) + 1)
      BY YearEnds, Zenon
    <3>. QED
      BY <2>1, <3>1
  <2>3. 0 \in YearDays /\ 0 <= LastOf(x)
    BY <2>1, YearEnds, SMT DEF YearDays, Lasts
  <2> HIDE DEF x
  <2>4. NumberOf(e, x, 0) = NumberOf(f, w, s)
    BY <1>4, <1>5, <1>7, <2>2, SMT DEF NumberOf, Lasts
  <2>5. e = f /\ x = w /\ 0 = s
    <3>1. s \in UpTo(w) /\ 0 \in UpTo(x)
      BY <1>3, <2>3 DEF UpTo
    <3>. QED
      BY <2>1, <2>4, <3>1, NumbersDiffer
  <2>6. CivilDate(d + 1) = <<x + 400 * e, 3, 1>>
    BY <1>3, <2>1, <2>5, YearBegins
  <2>7. CivilDate(d) = DateOf(e, y, LastOf(y))
    BY <1>1, <1>7, Zenon
  <2>8. NextDate(CivilDate(d)) = <<y + 400 * e + 1, 3, 1>>
    <3>1. IsNewYear(e, y, NextDate(CivilDate(d)))
      BY <2>7, NextYear, Zenon
    <3>. QED
      BY <3>1, Zenon DEF IsNewYear
  <2>9. y + 400 * e + 1 = x + 400 * e
    BY SMT DEF x, Years
  <2>. QED
    BY <2>6, <2>8, <2>9, Zenon
<1>8. CASE p = LastOf(y) /\ y = 399
  <2> DEFINE g == e + 1
  <2>1. 0 \in Years /\ g \in Int /\ DaysOf(0) = 0
    BY SMT DEF Years, DaysOf
  <2>2. DaysOf(y) \in Int /\ DaysOf(y) + LastOf(y) + 1 = EraDays
    <3>1. y = 399
      BY <1>8
    <3>2. DaysOf(y) \in Nat /\ (y = 399 => DaysOf(y) + LastOf(y) + 1 = EraDays)
      <4> HIDE <1>8, <3>1
      <4>. QED
        BY YearEnds, Zenon
    <3>. QED
      BY <3>1, <3>2
  <2>3. 0 \in YearDays /\ 0 <= LastOf(0)
    BY <2>1, YearEnds, SMT DEF YearDays, Lasts
  <2>4. NumberOf(g, 0, 0) = NumberOf(f, w, s)
    BY <1>4, <1>5, <1>8, <2>1, <2>2, SMT DEF NumberOf, Lasts, EraDays
  <2> HIDE DEF g
  <2>5. g = f /\ 0 = w /\ 0 = s
    <3>1. s \in UpTo(w) /\ 0 \in UpTo(0)
      BY <1>3, <2>3 DEF UpTo
    <3>. QED
      BY <2>1, <2>4, <3>1, NumbersDiffer
  <2>6. CivilDate(d + 1) = <<0 + 400 * g, 3, 1>>
    BY <1>3, <2>1, <2>5, YearBegins
  <2>7. CivilDate(d) = DateOf(e, y, LastOf(y))
    <3>1. p = LastOf(y)
      BY <1>8
    <3> HIDE <1>8
    <3>. QED
      BY <1>1, <3>1, Zenon
  <2>8. NextDate(CivilDate(d)) = <<y + 400 * e + 1, 3, 1>>
    <3>1. IsNewYear(e, y, NextDate(CivilDate(d)))
      BY <2>7, NextYear, Zenon
    <3>. QED
      BY <3>1, Zenon DEF IsNewYear
  <2>9. y + 400 * e + 1 = 0 + 400 * g
    BY <1>8, SMT DEF g
  <2>. QED
    BY <2>6, <2>8, <2>9, Zenon
<1>. QED
  BY <1>1, <1>5, <1>6, <1>7, <1>8, SMT DEF Years, YearDays, Lasts

(* Day 0 is 1970-01-01.                                                    *)
LEMMA EpochDate == CivilDate(0) = <<1970, 1, 1>>
<1> DEFINE z == 0 + 719468
<1>1. z = 719468
  BY SMT
<1>2. QuotientToZero(IF z >= 0 THEN z ELSE z - 146096, 146097) = 4
  BY <1>1, SMT DEF QuotientToZero
<1>3. z - 4 * 146097 = 135080
  BY <1>1, SMT
<1>4. (135080 - 135080 \div 1460 + 135080 \div 36524 - 135080 \div 146096) \div 365 = 369
  BY SMT
<1>5. 135080 - (365 * 369 + 369 \div 4 - 369 \div 100) = 306
  BY SMT
<1>6. (5 * 306 + 2) \div 153 = 10 /\ (153 * 10 + 2) \div 5 = 306
  BY SMT
<1>. QED
  BY <1>2, <1>3, <1>4, <1>5, <1>6, SMT DEF CivilDate

-----------------------------------------------------------------------------
(* Sorting.                                                                *)

(* The messages of a timeline: no two of them with one id.                 *)
Distinct(ms) == \A i, j \in DOMAIN ms : ms[i].id = ms[j].id => i = j
Histories == {ms \in Seq(Message) : Distinct(ms)}
Ascending(ms) == \A i, j \in DOMAIN ms : i < j => Before(ms[i], ms[j])

(* Before orders the messages of a history strictly and totally.           *)
LEMMA BeforeOrders ==
  ASSUME NEW ms \in Histories, NEW i \in DOMAIN ms, NEW j \in DOMAIN ms, NEW k \in DOMAIN ms
  PROVE  /\ GoesBefore(ms, i, j) <=> Before(ms[i], ms[j])
         /\ ~Before(ms[i], ms[i])
         /\ Before(ms[i], ms[j]) /\ Before(ms[j], ms[k]) => Before(ms[i], ms[k])
         /\ i = j \/ Before(ms[i], ms[j]) \/ Before(ms[j], ms[i])
<1>1. ms \in Seq(Message) /\ Distinct(ms)
  BY DEF Histories
<1>2. DOMAIN ms = 1..Len(ms) /\ Len(ms) \in Nat
  BY <1>1
<1>3. /\ ms[i].id \in Int /\ ms[i].sent \in Int
      /\ ms[j].id \in Int /\ ms[j].sent \in Int
      /\ ms[k].id \in Int /\ ms[k].sent \in Int
  BY <1>1, TimelineAssumption, ElementOfSeq DEF TimelineAssumption
<1>4. ms[i].id = ms[j].id => i = j
  BY <1>1 DEF Distinct
<1>5. ~Before(ms[i], ms[i])
  BY <1>3 DEF Before
<1>6. Before(ms[i], ms[j]) /\ Before(ms[j], ms[k]) => Before(ms[i], ms[k])
  BY <1>3 DEF Before
<1>7. i = j \/ Before(ms[i], ms[j]) \/ Before(ms[j], ms[i])
  BY <1>3, <1>4 DEF Before
<1>8. ~(i < i) /\ ~(Before(ms[i], ms[j]) /\ Before(ms[j], ms[i]))
  BY <1>2, <1>3 DEF Before
<1>9. GoesBefore(ms, i, j) <=> Before(ms[i], ms[j])
  BY <1>5, <1>7, <1>8, Zenon DEF GoesBefore
<1>. QED
  BY <1>5, <1>6, <1>7, <1>9

(* A message that is before another has the lower rank.                    *)
LEMMA RanksIncrease ==
  ASSUME NEW ms \in Histories, NEW i \in DOMAIN ms
  PROVE  /\ Ranks(ms)[i] \in 1..Len(ms)
         /\ \A j \in DOMAIN ms : Before(ms[i], ms[j]) => Ranks(ms)[i] < Ranks(ms)[j]
<1> DEFINE D == DOMAIN ms
           Less(j) == {h \in D : GoesBefore(ms, h, j)}
<1>1. D = 1..Len(ms) /\ Len(ms) \in Nat
  BY DEF Histories
<1>2. IsFiniteSet(D) /\ Cardinality(D) = Len(ms)
  <2> DEFINE n == Len(ms)
  <2>1. D = 1..n /\ n \in Nat
    BY <1>1
  <2> HIDE DEF n, D
  <2>2. IsFiniteSet(1..n) /\ Cardinality(1..n) = n
    BY <2>1, FS_Interval
  <2>. QED
    BY <2>1, <2>2 DEF n
<1>3. \A j \in D : Ranks(ms)[j] = 1 + Cardinality(Less(j))
  BY DEF Ranks
<1> HIDE DEF D
<1>4. ASSUME NEW j \in D
      PROVE  IsFiniteSet(Less(j)) /\ Cardinality(Less(j)) \in Nat
  BY <1>2, FS_Subset, FS_CardinalityType
<1>5. i \in D
  BY DEF D
<1>6. i \notin Less(i)
  BY <1>5, BeforeOrders DEF D
<1>7. Less(i) \in SUBSET D /\ Less(i) # D
  BY <1>5, <1>6
<1>8. Cardinality(Less(i)) <= Len(ms) /\ Cardinality(Less(i)) # Len(ms)
  BY <1>2, <1>7, FS_Subset, Zenon
<1>9. ASSUME NEW j \in D, Before(ms[i], ms[j])
      PROVE  Cardinality(Less(i)) < Cardinality(Less(j))
  <2>1. Less(i) \in SUBSET Less(j)
    <3> SUFFICES ASSUME NEW h \in Less(i) PROVE h \in Less(j)
      OBVIOUS
    <3>. QED
      BY <1>5, <1>9, BeforeOrders DEF D
  <2>2. i \in Less(j)
    BY <1>5, <1>9, BeforeOrders DEF D
  <2>3. Cardinality(Less(i)) <= Cardinality(Less(j))
        /\ (Cardinality(Less(j)) = Cardinality(Less(i)) => Less(j) = Less(i))
    BY <1>4, <2>1, FS_Subset
  <2>. QED
    BY <1>4, <1>5, <1>6, <2>2, <2>3
<1>10. Ranks(ms)[i] \in 1..Len(ms)
  <2>1. Ranks(ms)[i] = 1 + Cardinality(Less(i)) /\ Cardinality(Less(i)) \in Nat
    BY <1>3, <1>4, <1>5
  <2> HIDE DEF Less
  <2>. QED
    BY <1>1, <1>8, <2>1
<1>11. ASSUME NEW j \in D, Before(ms[i], ms[j])
       PROVE  Ranks(ms)[i] < Ranks(ms)[j]
  <2>1. /\ Ranks(ms)[i] = 1 + Cardinality(Less(i)) /\ Cardinality(Less(i)) \in Nat
        /\ Ranks(ms)[j] = 1 + Cardinality(Less(j)) /\ Cardinality(Less(j)) \in Nat
    BY <1>3, <1>4, <1>5
  <2>2. Cardinality(Less(i)) < Cardinality(Less(j))
    BY <1>9, <1>11
  <2> HIDE DEF Less
  <2>. QED
    BY <2>1, <2>2
<1>. QED
  BY <1>10, <1>11 DEF D

(* Sorting puts each message at its rank.                                  *)
LEMMA SortingPermutes ==
  ASSUME NEW ms \in Histories
  PROVE  /\ Sorted(ms) \in Seq(Message) /\ Len(Sorted(ms)) = Len(ms)
         /\ \A k \in DOMAIN ms : \E i \in DOMAIN ms : Ranks(ms)[i] = k /\ Sorted(ms)[k] = ms[i]
         /\ \A i \in DOMAIN ms : Sorted(ms)[Ranks(ms)[i]] = ms[i]
<1> DEFINE n == Len(ms)
           ranks == Ranks(ms)
<1>1. DOMAIN ms = 1..n /\ n \in Nat /\ \A i \in 1..n : ms[i] \in Message
  BY ElementOfSeq DEF Histories
<1>2. \A i \in 1..n : ranks[i] \in 1..n
  BY <1>1, RanksIncrease
<1>3. \A i, j \in 1..n : ranks[i] = ranks[j] => i = j
  <2> TAKE i, j \in 1..n
  <2>1. i = j \/ Before(ms[i], ms[j]) \/ Before(ms[j], ms[i])
    BY <1>1, BeforeOrders
  <2>2. ms[i] \in Message /\ ms[j] \in Message /\ ranks[i] \in Nat /\ ranks[j] \in Nat
    BY <1>1, <1>2
  <2> HIDE DEF ranks
  <2>3. Before(ms[i], ms[j]) => ranks[i] < ranks[j]
    BY <1>1, RanksIncrease DEF ranks
  <2>4. Before(ms[j], ms[i]) => ranks[j] < ranks[i]
    BY <1>1, RanksIncrease DEF ranks
  <2>. QED
    BY <2>1, <2>2, <2>3, <2>4
<1>4. DOMAIN ranks = 1..n /\ ranks = [i \in 1..n |-> ranks[i]]
  BY <1>1 DEF Ranks
<1>5. ranks \in Injection(1..n, 1..n)
  <2> HIDE DEF ranks, n
  <2>. QED
    BY <1>2, <1>3, <1>4, Fun_IsInj
<1>6. IsFiniteSet(1..n) /\ Cardinality(1..n) = n
  BY <1>1, FS_Interval
<1> HIDE DEF ranks
<1>7. ranks \in Surjection(1..n, 1..n)
  BY <1>5, <1>6, FS_Injection
<1>8. \A k \in 1..n : \E i \in 1..n : ranks[i] = k
  BY <1>7, Fun_SurjectionProperties
<1> DEFINE at(k) == CHOOSE i \in DOMAIN ms : ranks[i] = k
<1>9. Sorted(ms) = [k \in DOMAIN ms |-> ms[at(k)]]
  BY Zenon DEF Sorted, ranks
<1>10. ASSUME NEW k \in 1..n
       PROVE  \E i \in 1..n : ranks[i] = k /\ Sorted(ms)[k] = ms[i]
  <2>1. at(k) \in 1..n /\ ranks[at(k)] = k
    BY <1>1, <1>8
  <2> HIDE DEF at
  <2>. QED
    BY <1>1, <1>9, <2>1
<1> HIDE DEF at
<1>11. \A i \in 1..n : Sorted(ms)[ranks[i]] = ms[i]
  BY <1>2, <1>3, <1>10
<1>12. Sorted(ms) \in [1..n -> Message]
  <2>1. \A k \in 1..n : ms[at(k)] \in Message
    BY <1>1, <1>9, <1>10
  <2>. QED
    BY <1>1, <1>9, <2>1
<1>13. Sorted(ms) \in Seq(Message) /\ Len(Sorted(ms)) = n
  BY <1>1, <1>12
<1>. QED
  BY <1>1, <1>10, <1>11, <1>13, Zenon DEF ranks

(* The messages of a history, sorted, are in order and still a history.    *)
LEMMA SortingSorts ==
  ASSUME NEW ms \in Histories
  PROVE  /\ Sorted(ms) \in Histories /\ Ascending(Sorted(ms)) /\ Len(Sorted(ms)) = Len(ms)
         /\ \A i \in DOMAIN ms : \E k \in DOMAIN Sorted(ms) : Sorted(ms)[k] = ms[i]
         /\ \A k \in DOMAIN Sorted(ms) : \E i \in DOMAIN ms : Sorted(ms)[k] = ms[i]
<1> DEFINE s == Sorted(ms)
<1>1. /\ s \in Seq(Message) /\ Len(s) = Len(ms)
      /\ \A k \in DOMAIN ms : \E i \in DOMAIN ms : Ranks(ms)[i] = k /\ s[k] = ms[i]
      /\ \A i \in DOMAIN ms : s[Ranks(ms)[i]] = ms[i]
  BY SortingPermutes
<1>2. DOMAIN ms = 1..Len(ms) /\ DOMAIN s = 1..Len(ms) /\ Len(ms) \in Nat
  BY <1>1 DEF Histories
<1> HIDE DEF s
<1>3. Distinct(ms)
  BY DEF Histories
<1>4. ASSUME NEW k \in DOMAIN s, NEW l \in DOMAIN s
      PROVE  /\ s[k].id = s[l].id => k = l
             /\ k < l => Before(s[k], s[l])
  <2>1. PICK i \in DOMAIN ms : Ranks(ms)[i] = k /\ s[k] = ms[i]
    BY <1>1, <1>2
  <2>2. PICK j \in DOMAIN ms : Ranks(ms)[j] = l /\ s[l] = ms[j]
    BY <1>1, <1>2
  <2>3. s[k].id = s[l].id => i = j
    BY <1>3, <2>1, <2>2 DEF Distinct
  <2>4. k < l => Before(ms[i], ms[j])
    <3>1. i = j \/ Before(ms[i], ms[j]) \/ Before(ms[j], ms[i])
      BY BeforeOrders
    <3>2. Before(ms[j], ms[i]) => l < k
      BY <2>1, <2>2, RanksIncrease
    <3>. QED
      BY <1>2, <2>1, <2>2, <3>1, <3>2
  <2>. QED
    BY <2>1, <2>2, <2>3, <2>4
<1>5. Distinct(s) /\ Ascending(s)
  BY <1>4 DEF Distinct, Ascending
<1>6. \A i \in DOMAIN ms : \E k \in DOMAIN s : s[k] = ms[i]
  BY <1>1, <1>2, RanksIncrease
<1>7. s \in Histories
  BY <1>1, <1>5 DEF Histories
<1>. QED
  BY <1>1, <1>2, <1>5, <1>6, <1>7 DEF s

-----------------------------------------------------------------------------
(* Events.                                                                 *)

(* The least of some positions is one of them.                             *)
LEMMA LeastExists ==
  ASSUME NEW n \in Nat, NEW I \in SUBSET (1..n), I # {}
  PROVE  Min(I) \in I /\ \A i \in I : Min(I) <= i
<1> DEFINE Less == {ss \in Nat \X Nat : ss[1] < ss[2]}
<1>1. IsWellFoundedOn(Less, Nat)
  BY NatLessThanWellFounded DEF OpToRel
<1>2. PICK x \in I : \A y \in I : ~(<<y, x>> \in Less)
  <2>1. I \subseteq Nat
    OBVIOUS
  <2> HIDE DEF Less
  <2>. QED
    BY <1>1, <2>1, WFMin
<1>3. \A y \in I : x <= y
  <2> SUFFICES ASSUME NEW y \in I PROVE x <= y
    OBVIOUS
  <2>1. x \in Nat /\ y \in Nat
    OBVIOUS
  <2>2. <<y, x>> \in Nat \X Nat /\ <<y, x>>[1] = y /\ <<y, x>>[2] = x
    BY <2>1
  <2>3. ~(y < x)
    BY <1>2, <2>2
  <2>. QED
    BY <2>1, <2>3
<1>. QED
  BY <1>3 DEF Min

At(ms, id) == SelectInSeq(ms, LAMBDA m : m.id = id)

(* Where a message with an id is, 0 when there is none.                    *)
LEMMA AtFinds ==
  ASSUME NEW ms \in Histories, NEW id
  PROVE  /\ At(ms, id) = 0 => \A i \in DOMAIN ms : ms[i].id # id
         /\ At(ms, id) # 0 => At(ms, id) \in DOMAIN ms /\ ms[At(ms, id)].id = id
         /\ At(ms, id) \in Nat
<1> DEFINE I == {i \in 1..Len(ms) : ms[i].id = id}
<1>1. DOMAIN ms = 1..Len(ms) /\ Len(ms) \in Nat
  BY DEF Histories
<1>2. At(ms, id) = IF I # {} THEN Min(I) ELSE 0
  BY DEF At, SelectInSeq
<1>3. CASE I = {}
  BY <1>1, <1>2, <1>3
<1>4. CASE I # {}
  <2>1. Min(I) \in I
    BY <1>1, <1>4, LeastExists
  <2>. QED
    BY <1>1, <1>2, <1>4, <2>1
<1>. QED
  BY <1>3, <1>4

(* Replacing a message by one with its id leaves a history.                *)
LEMMA ReplacingKeeps ==
  ASSUME NEW ms \in Histories, NEW p \in DOMAIN ms, NEW m \in Message, m.id = ms[p].id
  PROVE  /\ ReplaceAt(ms, p, m) \in Histories
         /\ Len(ReplaceAt(ms, p, m)) = Len(ms)
         /\ ReplaceAt(ms, p, m)[p] = m
<1> DEFINE t == ReplaceAt(ms, p, m)
<1>1. ms \in Seq(Message) /\ Distinct(ms)
  BY DEF Histories
<1>2. /\ t \in Seq(Message) /\ Len(t) = Len(ms) /\ DOMAIN t = DOMAIN ms
      /\ \A i \in DOMAIN ms : t[i] = IF i = p THEN m ELSE ms[i]
  BY <1>1 DEF ReplaceAt
<1> HIDE DEF t
<1>3. \A i \in DOMAIN ms : t[i].id = ms[i].id
  BY <1>2
<1>4. Distinct(t)
  BY <1>1, <1>2, <1>3 DEF Distinct
<1>. QED
  BY <1>2, <1>4 DEF t, Histories

(* No message has the id.                                                  *)
Lacks(ms, id) == \A i \in DOMAIN ms : ms[i].id # id

(* History t is ms and one more message, at p.                             *)
HasOneMore(t, ms, p, m) ==
  /\ t \in Histories /\ Len(t) = Len(ms) + 1 /\ t[p] = m
  /\ \A i \in DOMAIN t : i # p => \E j \in DOMAIN ms : t[i] = ms[j]
  /\ \A j \in DOMAIN ms : \E i \in DOMAIN t : i # p /\ t[i] = ms[j]

(* Inserting a message with a new id leaves a history.                     *)
LEMMA InsertingKeeps ==
  ASSUME NEW ms \in Histories, NEW p \in 1..(Len(ms) + 1),
         NEW m \in Message, Lacks(ms, m.id)
  PROVE  HasOneMore(InsertAt(ms, p, m), ms, p, m)
<1> DEFINE n == Len(ms)
           t == InsertAt(ms, p, m)
           head == SubSeq(ms, 1, p - 1)
           tail == SubSeq(ms, p, n)
           start == head \o <<m>>
<1>1. ms \in Seq(Message) /\ Distinct(ms) /\ n \in Nat /\ DOMAIN ms = 1..n
  BY DEF Histories
<1>2. \A i \in 1..n : ms[i] \in Message
  BY <1>1, ElementOfSeq
<1>3. /\ head \in Seq(Message) /\ Len(head) = p - 1
      /\ \A i \in 1..(p - 1) : head[i] = ms[i]
  <2>1. \A i \in 1..(p - 1) : ms[i] \in Message
    BY <1>1, <1>2
  <2>. QED
    BY <1>1, <2>1, SubSeqProperties
<1>4. /\ tail \in Seq(Message) /\ Len(tail) = n - p + 1
      /\ \A i \in 1..(n - p + 1) : tail[i] = ms[p + i - 1]
  <2>1. \A i \in p..n : ms[i] \in Message
    BY <1>1, <1>2
  <2>. QED
    BY <1>1, <2>1, SubSeqProperties
<1>5. t = start \o tail
  BY DEF InsertAt
<1> HIDE DEF head, tail, n, t
<1>6. /\ start \in Seq(Message) /\ Len(start) = p
      /\ \A i \in 1..p : start[i] = IF i < p THEN ms[i] ELSE m
  <2>1. <<m>> \in Seq(Message) /\ Len(<<m>>) = 1 /\ <<m>>[1] = m
    OBVIOUS
  <2>2. p \in Nat
    BY <1>1 DEF n
  <2>. QED
    BY <1>3, <2>1, <2>2, ConcatProperties
<1> HIDE DEF start
<1>7. p \in 1..(n + 1)
  BY DEF n
<1>8. /\ t \in Seq(Message) /\ Len(t) = n + 1
      /\ \A i \in 1..(n + 1) : t[i] = IF i < p THEN ms[i] ELSE IF i = p THEN m ELSE ms[i - 1]
  <2>1. /\ t \in Seq(Message) /\ Len(t) = p + (n - p + 1)
        /\ \A i \in 1..(p + (n - p + 1)) : t[i] = IF i <= p THEN start[i] ELSE tail[i - p]
    <3>1. /\ t \in Seq(Message) /\ Len(t) = Len(start) + Len(tail)
          /\ \A i \in 1..(Len(start) + Len(tail)) :
               t[i] = IF i <= Len(start) THEN start[i] ELSE tail[i - Len(start)]
      BY <1>4, <1>5, <1>6, ConcatProperties
    <3>. QED
      BY <1>4, <1>6, <3>1, Zenon
  <2>2. p + (n - p + 1) = n + 1
    BY <1>1, <1>7
  <2>3. ASSUME NEW i \in 1..(n + 1)
        PROVE  t[i] = IF i < p THEN ms[i] ELSE IF i = p THEN m ELSE ms[i - 1]
    <3>1. CASE i <= p
      BY <1>6, <1>7, <2>1, <2>2, <3>1
    <3>2. CASE p < i
      <4>1. i - p \in 1..(n - p + 1) /\ p + (i - p) - 1 = i - 1
        BY <1>1, <1>7, <3>2
      <4>. QED
        BY <1>4, <1>7, <2>1, <2>2, <3>2, <4>1
    <3>. QED
      BY <1>7, <3>1, <3>2
  <2>. QED
    BY <2>1, <2>2, <2>3
<1>9. DOMAIN t = 1..(n + 1)
  BY <1>1, <1>8
<1>10. Distinct(t)
  <2> SUFFICES ASSUME NEW i \in 1..(n + 1), NEW j \in 1..(n + 1), t[i].id = t[j].id
               PROVE  i = j
    BY <1>9 DEF Distinct
  <2> DEFINE old(k) == IF k < p THEN k ELSE k - 1
  <2>1. \A k \in 1..(n + 1) : k # p => old(k) \in 1..n /\ t[k] = ms[old(k)]
    BY <1>1, <1>7, <1>8
  <2>2. \A k \in 1..(n + 1) : k # p => t[k].id # m.id
    BY <1>1, <2>1 DEF Lacks
  <2>3. i = p <=> j = p
    BY <1>7, <1>8, <2>2
  <2>4. i # p => old(i) = old(j)
    <3> HAVE i # p
    <3> HIDE DEF old
    <3>1. old(i) \in DOMAIN ms /\ old(j) \in DOMAIN ms /\ ms[old(i)].id = ms[old(j)].id
      BY <1>1, <2>1, <2>3
    <3>. QED
      BY <1>1, <3>1 DEF Distinct
  <2>. QED
    BY <1>7, <2>3, <2>4
<1>11. \A i \in DOMAIN t : i # p => \E j \in DOMAIN ms : t[i] = ms[j]
  <2> SUFFICES ASSUME NEW i \in 1..(n + 1), i # p PROVE \E j \in 1..n : t[i] = ms[j]
    BY <1>1, <1>9
  <2>1. CASE i < p
    BY <1>1, <1>7, <1>8, <2>1
  <2>2. CASE p < i
    <3>1. i - 1 \in 1..n /\ t[i] = ms[i - 1]
      BY <1>1, <1>7, <1>8, <2>2
    <3>. QED
      BY <3>1
  <2>. QED
    BY <1>7, <2>1, <2>2
<1>12. \A j \in DOMAIN ms : \E i \in DOMAIN t : i # p /\ t[i] = ms[j]
  <2> SUFFICES ASSUME NEW j \in 1..n PROVE \E i \in 1..(n + 1) : i # p /\ t[i] = ms[j]
    BY <1>1, <1>9
  <2>1. CASE j < p
    <3>1. j \in 1..(n + 1) /\ j # p /\ t[j] = ms[j]
      BY <1>1, <1>7, <1>8, <2>1
    <3>. QED
      BY <3>1
  <2>2. CASE p <= j
    <3>1. j + 1 \in 1..(n + 1) /\ j + 1 # p /\ t[j + 1] = ms[j]
      BY <1>1, <1>7, <1>8, <2>2
    <3>. QED
      BY <3>1
  <2>. QED
    BY <1>7, <2>1, <2>2
<1>13. t[p] = m
  BY <1>7, <1>8
<1>14. t \in Histories
  BY <1>8, <1>10 DEF Histories
<1>. QED
  BY <1>8, <1>11, <1>12, <1>13, <1>14 DEF t, n, HasOneMore

(* Removing a message leaves a history.                                    *)
LEMMA RemovingKeeps ==
  ASSUME NEW ms \in Histories, NEW p \in DOMAIN ms
  PROVE  RemoveAt(ms, p) \in Histories
<1> DEFINE n == Len(ms)
           t == RemoveAt(ms, p)
           head == SubSeq(ms, 1, p - 1)
           tail == SubSeq(ms, p + 1, n)
<1>1. ms \in Seq(Message) /\ Distinct(ms) /\ n \in Nat /\ DOMAIN ms = 1..n /\ p \in 1..n
  BY DEF Histories
<1>2. \A i \in 1..n : ms[i] \in Message
  BY <1>1, ElementOfSeq
<1>3. /\ head \in Seq(Message) /\ Len(head) = p - 1
      /\ \A i \in 1..(p - 1) : head[i] = ms[i]
  <2>1. \A i \in 1..(p - 1) : ms[i] \in Message
    BY <1>1, <1>2
  <2>. QED
    BY <1>1, <2>1, SubSeqProperties
<1>4. /\ tail \in Seq(Message) /\ Len(tail) = n - p
      /\ \A i \in 1..(n - p) : tail[i] = ms[p + i]
  <2>1. \A i \in (p + 1)..n : ms[i] \in Message
    BY <1>1, <1>2
  <2>2. p + 1 \in Int /\ n \in Int
    BY <1>1
  <2> DEFINE q == p + 1
  <2> HIDE DEF q
  <2>3. SubSeq(ms, q, n) = tail /\ q = p + 1
    BY DEF q
  <2>4. /\ SubSeq(ms, q, n) \in Seq(Message)
        /\ Len(SubSeq(ms, q, n)) = IF q <= n THEN n - q + 1 ELSE 0
        /\ \A i \in 1..(n - q + 1) : SubSeq(ms, q, n)[i] = ms[q + i - 1]
    BY <2>1, <2>2, <2>3, SubSeqProperties
  <2>5. \A i \in 1..(n - p) : i \in 1..(n - q + 1) /\ q + i - 1 = p + i
    BY <1>1, <2>3
  <2>6. \A i \in 1..(n - p) : tail[i] = ms[p + i]
    BY <2>3, <2>4, <2>5
  <2>. QED
    BY <1>1, <2>3, <2>4, <2>6
<1>5. t = head \o tail
  BY DEF RemoveAt
<1> HIDE DEF head, tail, n, t
<1>6. /\ t \in Seq(Message) /\ Len(t) = n - 1
      /\ \A i \in 1..(n - 1) : t[i] = IF i < p THEN ms[i] ELSE ms[i + 1]
  <2>1. /\ t \in Seq(Message) /\ Len(t) = (p - 1) + (n - p)
        /\ \A i \in 1..((p - 1) + (n - p)) :
             t[i] = IF i <= p - 1 THEN head[i] ELSE tail[i - (p - 1)]
    BY <1>3, <1>4, <1>5, ConcatProperties
  <2>2. (p - 1) + (n - p) = n - 1
    BY <1>1
  <2>3. ASSUME NEW i \in 1..(n - 1)
        PROVE  t[i] = IF i < p THEN ms[i] ELSE ms[i + 1]
    <3>1. CASE i < p
      BY <1>1, <1>3, <2>1, <2>2, <3>1
    <3>2. CASE p <= i
      <4>1. i - (p - 1) \in 1..(n - p) /\ p + (i - (p - 1)) = i + 1
        BY <1>1, <3>2
      <4>2. i \in 1..((p - 1) + (n - p)) /\ ~(i <= p - 1) /\ ~(i < p)
        BY <1>1, <2>2, <3>2
      <4>3. t[i] = tail[i - (p - 1)]
        BY <2>1, <4>2, Zenon
      <4>4. tail[i - (p - 1)] = ms[p + (i - (p - 1))]
        BY <1>4, <4>1, Zenon
      <4>. QED
        BY <4>1, <4>2, <4>3, <4>4, Zenon
    <3>. QED
      BY <1>1, <3>1, <3>2
  <2>. QED
    BY <2>1, <2>2, <2>3
<1>7. DOMAIN t = 1..(n - 1)
  BY <1>1, <1>6
<1>8. Distinct(t)
  <2> SUFFICES ASSUME NEW i \in 1..(n - 1), NEW j \in 1..(n - 1), t[i].id = t[j].id
               PROVE  i = j
    BY <1>7 DEF Distinct
  <2> DEFINE old(k) == IF k < p THEN k ELSE k + 1
  <2>1. \A k \in 1..(n - 1) : old(k) \in 1..n /\ t[k] = ms[old(k)]
    BY <1>1, <1>6
  <2>2. old(i) = old(j)
    <3> HIDE DEF old
    <3>1. old(i) \in DOMAIN ms /\ old(j) \in DOMAIN ms /\ ms[old(i)].id = ms[old(j)].id
      BY <1>1, <2>1
    <3>. QED
      BY <1>1, <3>1 DEF Distinct
  <2>. QED
    BY <1>1, <2>2
<1>. QED
  BY <1>6, <1>8 DEF t, Histories

-----------------------------------------------------------------------------
(* Rows.                                                                   *)

(* The places of the messages' rows rise, by two where a day begins.       *)
LEMMA PlacesRise ==
  ASSUME NEW ms \in Histories
  PROVE  /\ IsFiniteSet(DayStarts(ms)) /\ Cardinality(DayStarts(ms)) \in 0..Len(ms)
         /\ \A i \in 1..Len(ms) : RowPlaces(ms)[i] \in Nat
         /\ \A i, j \in 1..Len(ms) : i < j => RowPlaces(ms)[i] < RowPlaces(ms)[j]
         /\ Len(ms) # 0 =>
              /\ RowPlaces(ms)[1] = 2 /\ 1 \in DayStarts(ms)
              /\ RowPlaces(ms)[Len(ms)] = Len(ms) + Cardinality(DayStarts(ms))
         /\ \A i \in 1..Len(ms) : i > 1 =>
              RowPlaces(ms)[i] = RowPlaces(ms)[i - 1] + (IF i \in DayStarts(ms) THEN 2 ELSE 1)
<1> DEFINE n == Len(ms)
           starts == DayStarts(ms)
           places == RowPlaces(ms)
           upTo(i) == {j \in starts : j <= i}
           begun(i) == Cardinality(upTo(i))
<1>1. n \in Nat /\ DOMAIN ms = 1..n
  BY DEF Histories
<1>2. starts \in SUBSET (1..n) /\ (n # 0 => 1 \in starts)
  BY <1>1 DEF DayStarts
<1>3. \A i \in 1..n : places[i] = i + begun(i)
  BY <1>1 DEF RowPlaces
<1> HIDE DEF n, starts, places
<1>4. IsFiniteSet(1..n) /\ Cardinality(1..n) = n
  BY <1>1, FS_Interval
<1>5. IsFiniteSet(starts) /\ Cardinality(starts) \in 0..n
  <2>1. IsFiniteSet(starts) /\ Cardinality(starts) <= Cardinality(1..n)
    BY <1>2, <1>4, FS_Subset
  <2>2. Cardinality(starts) \in Nat
    BY <2>1, FS_CardinalityType
  <2>. QED
    BY <1>1, <1>4, <2>1, <2>2
<1>6. \A i \in Int : IsFiniteSet(upTo(i)) /\ begun(i) \in Nat
  <2> TAKE i \in Int
  <2>1. upTo(i) \in SUBSET starts
    OBVIOUS
  <2>2. IsFiniteSet(upTo(i))
    BY <1>5, <2>1, FS_Subset
  <2>. QED
    BY <2>2, FS_CardinalityType
<1>7. \A i, j \in 1..n : i < j => begun(i) <= begun(j)
  <2> SUFFICES ASSUME NEW i \in 1..n, NEW j \in 1..n, i < j PROVE begun(i) <= begun(j)
    OBVIOUS
  <2>1. upTo(i) \in SUBSET upTo(j)
    <3>1. \A k \in starts : k <= i => k <= j
      BY <1>1, <1>2
    <3>. QED
      BY <3>1, Zenon
  <2>2. IsFiniteSet(upTo(j))
    BY <1>6
  <2> HIDE DEF upTo
  <2>. QED
    BY <2>1, <2>2, FS_Subset
<1>8. n # 0 => begun(1) = 1
  <2> HAVE n # 0
  <2>1. upTo(1) = {1}
    <3>1. \A j \in starts : j <= 1 <=> j = 1
      BY <1>1, <1>2
    <3>. QED
      BY <1>2, <3>1, Zenon
  <2>2. Cardinality({1}) = 1
    BY FS_Singleton
  <2>. QED
    BY <2>1, <2>2, Zenon
<1>9. n # 0 => begun(n) = Cardinality(starts)
  <2> HAVE n # 0
  <2>1. upTo(n) = starts
    <3>1. \A j \in starts : j <= n
      BY <1>1, <1>2
    <3>. QED
      BY <3>1, Zenon
  <2>. QED
    BY <2>1, Zenon
<1>10. ASSUME NEW i \in 1..n, i > 1
       PROVE  begun(i) = begun(i - 1) + (IF i \in starts THEN 1 ELSE 0)
  <2> DEFINE less == upTo(i - 1)
  <2>1. i - 1 \in Int
    BY <1>1
  <2>2. IsFiniteSet(less) /\ Cardinality(less) \in Nat
    BY <1>6, <2>1
  <2>3. CASE i \in starts
    <3>1. upTo(i) = less \union {i} /\ i \notin less
      <4>1. \A j \in starts : j <= i <=> (j <= i - 1 \/ j = i)
        BY <1>1, <1>2
      <4>2. ~(i <= i - 1)
        BY <1>1
      <4>3. i <= i
        BY <1>1
      <4>. QED
        BY <2>3, <4>1, <4>2, <4>3, Zenon
    <3> HIDE DEF less
    <3>2. Cardinality(less \union {i}) = Cardinality(less) + 1
      BY <2>2, <3>1, FS_AddElement
    <3>. QED
      BY <2>3, <3>1, <3>2 DEF less
  <2>4. CASE i \notin starts
    <3>1. upTo(i) = less
      <4>1. \A j \in starts : j <= i <=> j <= i - 1
        BY <1>1, <1>2, <2>4
      <4>. QED
        BY <4>1, Zenon
    <3> HIDE DEF less, upTo
    <3>2. Cardinality(upTo(i)) = Cardinality(less) + 0
      BY <2>2, <3>1
    <3>. QED
      BY <2>4, <3>2 DEF less
  <2>. QED
    BY <2>3, <2>4
<1>11. \A i \in 1..n : begun(i) \in Nat
  <2> TAKE i \in 1..n
  <2>1. i \in Int
    OBVIOUS
  <2>. QED
    BY <1>6, <2>1, Zenon
<1> HIDE DEF upTo
<1>12. \A i \in 1..n : places[i] \in Nat
  BY <1>1, <1>3, <1>11
<1>13. \A i, j \in 1..n : i < j => places[i] < places[j]
  BY <1>1, <1>3, <1>7, <1>11
<1>14. n # 0 => places[1] = 2 /\ places[n] = n + Cardinality(starts)
  BY <1>1, <1>3, <1>8, <1>9
<1>15. \A i \in 1..n : i > 1 => places[i] = places[i - 1] + (IF i \in starts THEN 2 ELSE 1)
  <2> SUFFICES ASSUME NEW i \in 1..n, i > 1
               PROVE  places[i] = places[i - 1] + (IF i \in starts THEN 2 ELSE 1)
    OBVIOUS
  <2>1. i - 1 \in 1..n
    BY <1>1
  <2>2. begun(i) = begun(i - 1) + (IF i \in starts THEN 1 ELSE 0)
    BY <1>10
  <2>3. places[i] = i + begun(i) /\ places[i - 1] = (i - 1) + begun(i - 1)
    BY <1>3, <2>1
  <2>4. begun(i - 1) \in Nat
    BY <1>11, <2>1
  <2> HIDE DEF begun
  <2>. QED
    BY <1>1, <2>2, <2>3, <2>4
<1>. QED
  BY <1>2, <1>5, <1>12, <1>13, <1>14, <1>15 DEF n, starts, places

(* The rows are the messages', each at its place, and the separators just  *)
(* before the messages that begin a day.                                   *)
LEMMA RowsStand ==
  ASSUME NEW ms \in Histories
  PROVE  /\ DOMAIN RowsOf(ms) = 1..(Len(ms) + Cardinality(DayStarts(ms)))
         /\ \A i \in 1..Len(ms) :
              /\ RowPlaces(ms)[i] \in DOMAIN RowsOf(ms)
              /\ RowsOf(ms)[RowPlaces(ms)[i]] = MessageRow(ms[i], GroupPosition(ms, i))
         /\ \A k \in DOMAIN RowsOf(ms) :
              \/ \E i \in 1..Len(ms) : k = RowPlaces(ms)[i]
              \/ \E i \in DayStarts(ms) :
                   k + 1 = RowPlaces(ms)[i] /\ RowsOf(ms)[k] = DaySeparator(Label(ms[i]))
<1> DEFINE n == Len(ms)
           starts == DayStarts(ms)
           places == RowPlaces(ms)
           last == n + Cardinality(starts)
           from(k) == MessageFrom(places, k)
<1>1. n \in Nat /\ DOMAIN ms = 1..n /\ starts \in SUBSET (1..n) /\ DOMAIN places = 1..n
  BY DEF Histories, DayStarts, RowPlaces
<1>2. /\ Cardinality(starts) \in 0..n
      /\ \A i \in 1..n : places[i] \in Nat
      /\ \A i, j \in 1..n : i < j => places[i] < places[j]
      /\ n # 0 => places[1] = 2 /\ 1 \in starts /\ places[n] = last
      /\ \A i \in 1..n : i > 1 => places[i] = places[i - 1] + (IF i \in starts THEN 2 ELSE 1)
  BY PlacesRise
<1>3. /\ DOMAIN RowsOf(ms) = 1..last
      /\ \A k \in 1..last :
           RowsOf(ms)[k] = IF places[from(k)] = k
                           THEN MessageRow(ms[from(k)], GroupPosition(ms, from(k)))
                           ELSE DaySeparator(Label(ms[from(k)]))
  BY DEF RowsOf
<1> HIDE DEF n, starts, places, last
<1>4. ASSUME NEW k \in Nat, NEW i \in 1..n, k <= places[i], \A j \in 1..n : j < i => places[j] < k
      PROVE  from(k) = i
  <2>1. from(k) = CHOOSE h \in 1..n : k <= places[h] /\ \A j \in 1..n : j < h => places[j] < k
    BY <1>1, Zenon DEF MessageFrom
  <2>2. ASSUME NEW h \in 1..n, k <= places[h], \A j \in 1..n : j < h => places[j] < k
        PROVE  h = i
    <3>1. h < i => places[h] < k
      BY <1>4
    <3>2. i < h => places[i] < k
      BY <2>2
    <3>3. places[h] \in Nat /\ places[i] \in Nat
      BY <1>2
    <3>4. ~(h < i) /\ ~(i < h)
      BY <1>4, <2>2, <3>1, <3>2, <3>3
    <3>. QED
      BY <1>1, <3>4
  <2>. QED
    BY <1>4, <2>1, <2>2, Zenon
<1>5. last \in Nat
  BY <1>1, <1>2 DEF last
<1>6. ASSUME NEW i \in 1..n
      PROVE  /\ places[i] \in 1..last /\ from(places[i]) = i
             /\ RowsOf(ms)[places[i]] = MessageRow(ms[i], GroupPosition(ms, i))
  <2>1. 2 <= places[i] /\ places[i] <= last
    <3>1. n # 0 /\ 1 \in 1..n /\ n \in 1..n
      BY <1>1
    <3>2. i = 1 \/ places[1] < places[i]
      BY <1>1, <1>2, <3>1
    <3>3. i = n \/ places[i] < places[n]
      BY <1>1, <1>2, <3>1
    <3>. QED
      BY <1>1, <1>2, <1>5, <3>1, <3>2, <3>3
  <2>2. places[i] \in 1..last
    BY <1>2, <1>5, <2>1
  <2>3. from(places[i]) = i
    BY <1>2, <1>4
  <2>. QED
    BY <1>3, <2>2, <2>3
<1>7. ASSUME NEW k \in 1..last
      PROVE  \/ \E i \in 1..n : k = places[i]
             \/ \E i \in starts : k + 1 = places[i] /\ RowsOf(ms)[k] = DaySeparator(Label(ms[i]))
  <2> DEFINE I == {i \in 1..n : k <= places[i]}
             i == Min(I)
  <2>1. n # 0
    BY <1>1, <1>2 DEF last
  <2>2. n \in I
    BY <1>1, <1>2, <1>5, <2>1
  <2>3. i \in I /\ \A j \in I : i <= j
    BY <1>1, <2>2, LeastExists
  <2> HIDE DEF i
  <2>4. i \in 1..n /\ k <= places[i] /\ \A j \in 1..n : j < i => places[j] < k
    BY <1>1, <1>2, <1>5, <2>3
  <2>5. from(k) = i
    BY <1>4, <1>5, <2>4
  <2>6. CASE k = places[i]
    BY <2>4, <2>6
  <2>7. CASE k # places[i]
    <3>1. RowsOf(ms)[k] = DaySeparator(Label(ms[i]))
      BY <1>3, <2>5, <2>7
    <3>2. k + 1 = places[i] /\ i \in starts
      <4>1. CASE i = 1
        BY <1>2, <1>5, <2>1, <2>4, <2>7, <4>1
      <4>2. CASE i > 1
        <5>1. i - 1 \in 1..n /\ i - 1 < i
          BY <1>1, <2>4, <4>2
        <5>2. places[i - 1] < k /\ places[i - 1] \in Nat
          BY <1>2, <2>4, <5>1
        <5>3. places[i] = places[i - 1] + (IF i \in starts THEN 2 ELSE 1)
          BY <1>2, <2>4, <4>2
        <5>. QED
          BY <1>2, <1>5, <2>4, <2>7, <5>2, <5>3
      <4>. QED
        BY <2>4, <4>1, <4>2
    <3>. QED
      BY <3>1, <3>2
  <2>. QED
    BY <2>6, <2>7
<1>. QED
  BY <1>3, <1>6, <1>7 DEF n, starts, places, last

-----------------------------------------------------------------------------
(* Days.                                                                   *)

Timelines == {ms \in Histories : Ascending(ms)}

(* Division keeps the order.                                               *)
LEMMA DivRises ==
  ASSUME NEW d \in Nat \ {0}, NEW a \in Int, NEW b \in Int, a <= b
  PROVE  a \div d \in Int /\ a \div d <= b \div d
  BY SMT

(* A timeline's days do not fall, and rise where a day begins: elsewhere a *)
(* message has the day of the one before it.                               *)
LEMMA DaysRise ==
  ASSUME NEW ms \in Timelines
  PROVE  /\ \A i \in 1..Len(ms) : Day(ms[i]) \in Int
         /\ \A i, j \in 1..Len(ms) : i < j => Day(ms[i]) <= Day(ms[j])
         /\ \A i, j \in 1..Len(ms) :
              (Label(ms[i]) = Label(ms[j])) <=> (Day(ms[i]) = Day(ms[j]))
         /\ \A i \in DayStarts(ms), j \in 1..Len(ms) : j < i => Day(ms[j]) < Day(ms[i])
<1> DEFINE n == Len(ms)
<1>1. n \in Nat /\ DOMAIN ms = 1..n /\ Ascending(ms) /\ \A i \in 1..n : ms[i] \in Message
  BY ElementOfSeq DEF Timelines, Histories
<1> HIDE DEF n
<1>2. \A i \in 1..n : ms[i].sent \in Int
  BY <1>1, TimelineAssumption DEF TimelineAssumption
<1>3. \A i \in 1..n : Day(ms[i]) \in Int
  <2> TAKE i \in 1..n
  <2>1. ms[i].sent \in Int /\ DayLength \in Nat \ {0}
    BY <1>2, TimelineAssumption DEF TimelineAssumption
  <2>. QED
    BY <2>1, DivRises DEF Day
<1>4. \A i, j \in 1..n : i < j => Day(ms[i]) <= Day(ms[j])
  <2> SUFFICES ASSUME NEW i \in 1..n, NEW j \in 1..n, i < j
               PROVE  Day(ms[i]) <= Day(ms[j])
    OBVIOUS
  <2>1. ms[i].sent \in Int /\ ms[j].sent \in Int /\ DayLength \in Nat \ {0}
    BY <1>2, TimelineAssumption DEF TimelineAssumption
  <2>2. ms[i].sent <= ms[j].sent
    BY <1>1, <2>1 DEF Ascending, Before
  <2>. QED
    BY <2>1, <2>2, DivRises DEF Day
<1>5. \A i, j \in 1..n : (Label(ms[i]) = Label(ms[j])) <=> (Day(ms[i]) = Day(ms[j]))
  <2> TAKE i, j \in 1..n
  <2>1. Day(ms[i]) \in Int /\ Day(ms[j]) \in Int
    BY <1>3
  <2>. QED
    BY <2>1, LabelsDiffer DEF Label
<1>6. ASSUME NEW i \in DayStarts(ms), NEW j \in 1..n, j < i
      PROVE  Day(ms[j]) < Day(ms[i])
  <2>1. i \in 1..n /\ i - 1 \in 1..n /\ i - 1 < i /\ Label(ms[i]) # Label(ms[i - 1])
    BY <1>1, <1>6 DEF DayStarts
  <2>2. Day(ms[i - 1]) <= Day(ms[i]) /\ Day(ms[i - 1]) # Day(ms[i])
    BY <1>4, <1>5, <2>1
  <2>3. j = i - 1 \/ j < i - 1
    BY <1>6, <2>1
  <2>4. Day(ms[j]) <= Day(ms[i - 1])
    BY <1>3, <1>4, <2>1, <2>3
  <2>. QED
    BY <1>3, <2>1, <2>2, <2>4
<1>. QED
  BY <1>3, <1>4, <1>5, <1>6 DEF n

(* As many days begin as there are days.                                   *)
LEMMA DaysCounted ==
  ASSUME NEW ms \in Timelines
  PROVE  Cardinality(DayStarts(ms)) = Cardinality({Day(ms[i]) : i \in DOMAIN ms})
<1> DEFINE n == Len(ms)
           starts == DayStarts(ms)
           days == {Day(ms[i]) : i \in 1..n}
           dayOf == [i \in starts |-> Day(ms[i])]
<1>1. n \in Nat /\ DOMAIN ms = 1..n /\ starts \in SUBSET (1..n) /\ IsFiniteSet(starts)
  <2>1. n \in Nat /\ DOMAIN ms = 1..n /\ ms \in Histories
    BY DEF Timelines, Histories
  <2>2. IsFiniteSet(starts)
    BY <2>1, PlacesRise
  <2> HIDE DEF n
  <2>. QED
    BY <2>1, <2>2 DEF DayStarts
<1>2. /\ \A i \in 1..n : Day(ms[i]) \in Int
      /\ \A i, j \in 1..n : (Label(ms[i]) = Label(ms[j])) <=> (Day(ms[i]) = Day(ms[j]))
      /\ \A i \in starts, j \in 1..n : j < i => Day(ms[j]) < Day(ms[i])
  BY DaysRise
<1> HIDE DEF n
<1>3. dayOf \in [starts -> days]
  BY <1>1
<1>4. \A i, j \in starts : dayOf[i] = dayOf[j] => i = j
  <2> SUFFICES ASSUME NEW i \in starts, NEW j \in starts, Day(ms[i]) = Day(ms[j])
               PROVE  i = j
    BY Zenon
  <2>1. i \in 1..n /\ j \in 1..n /\ i \in Int /\ j \in Int
    BY <1>1
  <2>2. ~(i < j) /\ ~(j < i)
    BY <1>2, <2>1
  <2>. QED
    BY <2>1, <2>2
<1>5. \A d \in days : \E i \in starts : dayOf[i] = d
  <2> SUFFICES ASSUME NEW h \in 1..n PROVE \E i \in starts : Day(ms[i]) = Day(ms[h])
    OBVIOUS
  <2> DEFINE I == {i \in 1..n : Day(ms[i]) = Day(ms[h])}
             i == Min(I)
  <2>1. i \in I /\ \A j \in I : i <= j
    <3>1. I \in SUBSET (1..n) /\ h \in I
      OBVIOUS
    <3>. QED
      BY <1>1, <3>1, LeastExists
  <2> HIDE DEF i
  <2>2. i \in 1..n /\ Day(ms[i]) = Day(ms[h])
    BY <2>1
  <2>3. i > 1 => Label(ms[i]) # Label(ms[i - 1])
    <3> HAVE i > 1
    <3>1. i - 1 \in 1..n /\ ~(i <= i - 1)
      BY <1>1, <2>2
    <3>2. i - 1 \notin I
      BY <2>1, <3>1
    <3>. QED
      BY <1>2, <2>2, <3>1, <3>2
  <2>4. i \in starts
    BY <1>1, <2>2, <2>3 DEF DayStarts
  <2>. QED
    BY <2>2, <2>4
<1> HIDE DEF dayOf, days, starts
<1>6. dayOf \in Bijection(starts, days)
  BY <1>3, <1>4, <1>5, Fun_IsBij
<1>7. ExistsBijection(starts, days)
  BY <1>6 DEF ExistsBijection
<1>8. Cardinality(days) = Cardinality(starts)
  BY <1>1, <1>7, FS_Bijection
<1>. QED
  BY <1>1, <1>8 DEF starts, days

-----------------------------------------------------------------------------
(* Steps.                                                                  *)

(* The rows of a timeline make a sequence.                                 *)
LEMMA RowsAreSequence ==
  ASSUME NEW ms \in Histories
  PROVE  /\ RowsOf(ms) \in Seq({RowsOf(ms)[k] : k \in DOMAIN RowsOf(ms)})
         /\ Len(RowsOf(ms)) = Len(ms) + Cardinality(DayStarts(ms))
         /\ Len(RowsOf(ms)) \in Nat
<1> DEFINE rs == RowsOf(ms)
           last == Len(ms) + Cardinality(DayStarts(ms))
           element(k) == LET i == MessageFrom(RowPlaces(ms), k)
                         IN  IF RowPlaces(ms)[i] = k THEN MessageRow(ms[i], GroupPosition(ms, i))
                             ELSE DaySeparator(Label(ms[i]))
<1>1. rs = [k \in 1..last |-> element(k)]
  BY Zenon DEF RowsOf
<1>2. last \in Nat
  BY PlacesRise DEF Histories
<1> HIDE DEF element, last, rs
<1>3. rs \in [1..last -> {rs[k] : k \in DOMAIN rs}] /\ DOMAIN rs = 1..last
  BY <1>1
<1>4. rs \in Seq({rs[k] : k \in DOMAIN rs}) /\ Len(rs) = last
  BY <1>2, <1>3
<1>. QED
  BY <1>2, <1>4 DEF rs, last

(* What sync_store leaves in the store, whatever was in it, are the rows:  *)
(* the rows it keeps are those that are the same in every field.           *)
LEMMA SyncingShows ==
  ASSUME NEW S, NEW rs \in Seq(S)
  PROVE  SyncStore(rs) = rs
<1>1. SyncStore(rs) = [i \in DOMAIN rs |-> rs[i]]
  BY DEF SyncStore, SameRow
<1>. QED
  BY <1>1

(* A message of a timeline is found in its rows, at its place.             *)
LEMMA RowFound ==
  ASSUME NEW ms \in Timelines, NEW i \in 1..Len(ms)
  PROVE  /\ RowOf(RowsOf(ms), ms[i].id) + 1 = RowPlaces(ms)[i]
         /\ RowOf(RowsOf(ms), ms[i].id) \in Nat
<1> DEFINE rs == RowsOf(ms)
           id == ms[i].id
           place == RowPlaces(ms)[i]
           I == {k \in 1..Len(rs) : rs[k].row = "message" /\ rs[k].message.id = id}
<1>1. ms \in Histories /\ Distinct(ms) /\ DOMAIN ms = 1..Len(ms)
  BY DEF Timelines, Histories
<1>2. DOMAIN rs = 1..Len(rs) /\ Len(rs) \in Nat
  BY <1>1, RowsAreSequence, RowsStand
<1>3. /\ \A j \in 1..Len(ms) :
           /\ RowPlaces(ms)[j] \in DOMAIN rs
           /\ rs[RowPlaces(ms)[j]] = MessageRow(ms[j], GroupPosition(ms, j))
      /\ \A k \in DOMAIN rs :
           \/ \E j \in 1..Len(ms) : k = RowPlaces(ms)[j]
           \/ \E j \in DayStarts(ms) :
                k + 1 = RowPlaces(ms)[j] /\ rs[k] = DaySeparator(Label(ms[j]))
  BY <1>1, RowsStand
<1> HIDE DEF rs
<1>4. place \in I
  <2>1. place \in DOMAIN rs /\ rs[place] = MessageRow(ms[i], GroupPosition(ms, i))
    BY <1>3
  <2> HIDE DEF place
  <2>2. rs[place].row = "message" /\ rs[place].message = ms[i]
    BY <2>1 DEF MessageRow
  <2>. QED
    BY <1>2, <2>1, <2>2
<1>5. ASSUME NEW k \in I PROVE k = place
  <2>1. k \in DOMAIN rs /\ rs[k].row = "message" /\ rs[k].message.id = id
    BY <1>2
  <2>2. \A label : DaySeparator(label).row = "day"
    BY DEF DaySeparator
  <2>3. PICK j \in 1..Len(ms) : k = RowPlaces(ms)[j]
    BY <1>3, <2>1, <2>2
  <2>4. rs[k] = MessageRow(ms[j], GroupPosition(ms, j))
    BY <1>3, <2>3
  <2>5. rs[k].message = ms[j]
    BY <2>4 DEF MessageRow
  <2>6. ms[j].id = id
    BY <2>1, <2>5
  <2>7. j = i
    BY <1>1, <2>6 DEF Distinct
  <2>. QED
    BY <2>3, <2>7
<1>6. Min(I) \in I
  <2>1. I \in SUBSET (1..Len(rs)) /\ I # {}
    BY <1>4
  <2> HIDE DEF I
  <2>. QED
    BY <1>2, <2>1, LeastExists
<1>7. RowOf(rs, id) = Min(I) - 1
  <2>1. RowOf(rs, id) = (IF I # {} THEN Min(I) ELSE 0) - 1
    BY Zenon DEF RowOf, SelectInSeq
  <2>. QED
    BY <1>4, <2>1, Zenon
<1>8. Min(I) = place
  BY <1>5, <1>6
<1>9. place \in 1..Len(rs)
  BY <1>4
<1> HIDE DEF I, place, id
<1>10. RowOf(rs, id) + 1 = place /\ RowOf(rs, id) \in Nat
  BY <1>2, <1>7, <1>8, <1>9
<1>. QED
  BY <1>10 DEF rs, id, place

-----------------------------------------------------------------------------
(* The inductive invariant.                                                *)

Kinds == {"Ignored", "Inserted", "Appended", "Updated", "Removed"}

(* The messages are a timeline, the rows are made of them, and the store   *)
(* the list view shows has the same rows.                                  *)
TimelineInv ==
  /\ messages \in Timelines
  /\ rows = RowsOf(messages)
  /\ store = rows
  /\ loadState \in {"Loading", "Ready", "Error"}
  /\ effect.kind \in Kinds /\ effect.index \in Nat

(* What rebuilding and syncing leave.                                      *)
LEMMA ShowingKeeps ==
  ASSUME TimelineInv, NEW ms \in Histories, Show(ms)
  PROVE  /\ messages' = Sorted(ms) /\ messages' \in Timelines
         /\ rows' = RowsOf(messages') /\ store' = rows'
<1>1. messages' = Sorted(ms) /\ rows' = RowsOf(messages') /\ store' = SyncStore(rows')
  BY DEF Show
<1>2. messages' \in Timelines
  BY <1>1, SortingSorts DEF Timelines
<1> DEFINE now == messages'
           rs == RowsOf(now)
           all == {rs[k] : k \in DOMAIN rs}
<1>3. rs \in Seq(all)
  BY <1>2, RowsAreSequence DEF Timelines
<1>4. SyncStore(rs) = rs
  BY <1>3, SyncingShows
<1>. QED
  BY <1>1, <1>2, <1>4 DEF rs

(* Of two messages each before the other there are none.                   *)
LEMMA BeforeOneWay ==
  ASSUME NEW m \in Message, NEW n \in Message, Before(m, n)
  PROVE  ~Before(n, m) /\ m # n
<1>1. /\ m.id \in Int /\ m.sent \in Int
      /\ n.id \in Int /\ n.sent \in Int
  BY TimelineAssumption DEF TimelineAssumption
<1>. QED
  BY <1>1 DEF Before

(* What an event that has an effect says of its message.                   *)
Names(m) ==
  /\ rows'[effect'.index + 1].row = "message"
  /\ rows'[effect'.index + 1].message = m
  /\ effect'.kind # "Updated" =>
       (effect'.kind = "Appended" <=> effect'.index + 1 = Len(rows'))

(* The message at k of a new timeline, found in its rows.                  *)
LEMMA RowNamed ==
  ASSUME NEW ms \in Timelines, NEW k \in 1..Len(ms)
  PROVE  /\ RowOf(RowsOf(ms), ms[k].id) \in Nat
         /\ RowsOf(ms)[RowOf(RowsOf(ms), ms[k].id) + 1].row = "message"
         /\ RowsOf(ms)[RowOf(RowsOf(ms), ms[k].id) + 1].message = ms[k]
         /\ RowOf(RowsOf(ms), ms[k].id) + 1 = Len(RowsOf(ms)) <=> k = Len(ms)
<1> DEFINE n == Len(ms)
           place == RowPlaces(ms)[k]
           found == RowOf(RowsOf(ms), ms[k].id)
<1>1. ms \in Histories /\ n \in Nat
  BY DEF Timelines, Histories
<1>2. found + 1 = place /\ found \in Nat
  BY RowFound
<1>3. RowsOf(ms)[place] = MessageRow(ms[k], GroupPosition(ms, k))
  BY <1>1, RowsStand
<1>4. RowsOf(ms)[place].row = "message" /\ RowsOf(ms)[place].message = ms[k]
  <2> HIDE DEF place
  <2>. QED
    BY <1>3 DEF MessageRow
<1>5. place = Len(RowsOf(ms)) <=> k = n
  <2>1. Len(RowsOf(ms)) = n + Cardinality(DayStarts(ms))
    BY <1>1, RowsAreSequence
  <2>2. n # 0 /\ n \in 1..n
    BY <1>1
  <2>3. RowPlaces(ms)[n] = n + Cardinality(DayStarts(ms))
    BY <1>1, <2>2, PlacesRise
  <2>4. k < n => RowPlaces(ms)[k] < RowPlaces(ms)[n]
    BY <1>1, <2>2, PlacesRise
  <2>5. RowPlaces(ms)[k] \in Nat /\ RowPlaces(ms)[n] \in Nat
    BY <1>1, <2>2, PlacesRise
  <2>. QED
    BY <1>1, <2>1, <2>3, <2>4, <2>5
<1> HIDE DEF place, found
<1>6. found \in Nat /\ (found + 1 = Len(RowsOf(ms)) <=> k = n)
      /\ RowsOf(ms)[found + 1].row = "message" /\ RowsOf(ms)[found + 1].message = ms[k]
  BY <1>2, <1>4, <1>5
<1>. QED
  BY <1>6 DEF found

(* A message that is in the timeline is replaced.                          *)
LEMMA ReplaceStep ==
  ASSUME TimelineInv, NEW m \in Message, Position(m.id) # 0, Replace(m)
  PROVE  TimelineInv' /\ Names(m)
<1> DEFINE p == Position(m.id)
           t == ReplaceAt(messages, p, m)
<1>1. messages \in Histories
  BY DEF TimelineInv, Timelines
<1>2. p = At(messages, m.id)
  BY Zenon DEF Position, At
<1>3. p \in DOMAIN messages /\ messages[p].id = m.id
  BY <1>1, <1>2, AtFinds
<1>4. Show(t) /\ effect' = Effect("Updated", m.id) /\ loadState' = "Ready"
  BY DEF Replace
<1> HIDE DEF p
<1>5. t \in Histories /\ t[p] = m /\ Len(t) = Len(messages)
  BY <1>1, <1>3, ReplacingKeeps
<1>6. p \in DOMAIN t
  BY <1>1, <1>3, <1>5 DEF Histories
<1> HIDE DEF t
<1>7. /\ messages' = Sorted(t) /\ messages' \in Timelines
      /\ rows' = RowsOf(messages') /\ store' = rows'
  BY <1>4, <1>5, ShowingKeeps
<1>8. PICK k \in DOMAIN Sorted(t) : Sorted(t)[k] = t[p]
  BY <1>5, <1>6, SortingSorts
<1>9. k \in 1..Len(messages') /\ messages'[k] = m
  BY <1>5, <1>7, <1>8 DEF Timelines, Histories
<1>10. effect' = [kind |-> "Updated", index |-> RowOf(rows', m.id)]
  BY <1>4, Zenon DEF Effect
<1>11. effect'.kind = "Updated" /\ effect'.index = RowOf(rows', m.id)
  BY <1>10
<1>12. Names(m) /\ effect'.index \in Nat
  BY <1>7, <1>9, <1>11, RowNamed DEF Names
<1>. QED
  BY <1>4, <1>7, <1>11, <1>12 DEF TimelineInv, Kinds

(* A message that is not in the timeline is inserted.                      *)
LEMMA InsertStep ==
  ASSUME TimelineInv, NEW m \in Message, Position(m.id) = 0, Insert(m)
  PROVE  TimelineInv' /\ Names(m)
<1> DEFINE n == Len(messages)
           earlier == {i \in DOMAIN messages : Before(messages[i], m)}
           place == Cardinality(earlier) + 1
           t == InsertAt(messages, place, m)
           s == Sorted(t)
<1>1. /\ messages \in Histories /\ n \in Nat /\ DOMAIN messages = 1..n
      /\ \A i \in 1..n : messages[i] \in Message
  BY ElementOfSeq DEF TimelineInv, Timelines, Histories
<1>2. \A i \in 1..n : messages[i].id # m.id
  <2>1. At(messages, m.id) = 0
    BY Zenon DEF Position, At
  <2>. QED
    BY <1>1, <2>1, AtFinds
<1>3. /\ Show(t)
      /\ effect' = Effect(IF place = n + 1 THEN "Appended" ELSE "Inserted", m.id)
      /\ loadState' = "Ready"
  BY Zenon DEF Insert
<1> HIDE DEF n, earlier
<1>4. IsFiniteSet(1..n) /\ Cardinality(1..n) = n
  BY <1>1, FS_Interval
<1>5. /\ Cardinality(earlier) \in 0..n
      /\ Cardinality(earlier) = n <=> \A i \in 1..n : Before(messages[i], m)
  <2>1. earlier \in SUBSET (1..n)
    BY <1>1 DEF earlier
  <2>2. IsFiniteSet(earlier) /\ Cardinality(earlier) <= n /\ (n = Cardinality(earlier) => 1..n = earlier)
    BY <1>4, <2>1, FS_Subset
  <2>3. Cardinality(earlier) \in Nat
    BY <2>2, FS_CardinalityType
  <2>4. 1..n = earlier <=> \A i \in 1..n : Before(messages[i], m)
    BY <1>1 DEF earlier
  <2>5. 1..n = earlier => Cardinality(earlier) = n
    BY <1>4
  <2>. QED
    BY <1>1, <2>2, <2>3, <2>4, <2>5
<1>6. place \in 1..(n + 1)
  BY <1>1, <1>5
<1>7. place = n + 1 <=> \A i \in 1..n : Before(messages[i], m)
  BY <1>1, <1>5
<1> HIDE DEF place
<1>8. /\ t \in Histories /\ Len(t) = n + 1 /\ t[place] = m
      /\ \A i \in DOMAIN t : i # place => \E j \in 1..n : t[i] = messages[j]
      /\ \A j \in 1..n : \E i \in DOMAIN t : i # place /\ t[i] = messages[j]
  <2>1. place \in 1..(Len(messages) + 1) /\ Lacks(messages, m.id)
    BY <1>1, <1>2, <1>6 DEF n, Lacks
  <2>2. HasOneMore(t, messages, place, m)
    BY <1>1, <2>1, InsertingKeeps
  <2> HIDE DEF t
  <2>3. /\ t \in Histories /\ Len(t) = Len(messages) + 1 /\ t[place] = m
        /\ \A i \in DOMAIN t : i # place => \E j \in DOMAIN messages : t[i] = messages[j]
        /\ \A j \in DOMAIN messages : \E i \in DOMAIN t : i # place /\ t[i] = messages[j]
    BY <2>2, Zenon DEF HasOneMore
  <2>. QED
    BY <1>1, <2>3 DEF n
<1>9. place \in DOMAIN t
  BY <1>1, <1>6, <1>8 DEF Histories
<1> HIDE DEF t
<1>10. /\ s \in Histories /\ Ascending(s) /\ Len(s) = n + 1
       /\ \A i \in DOMAIN t : \E k \in DOMAIN s : s[k] = t[i]
       /\ \A k \in DOMAIN s : \E i \in DOMAIN t : s[k] = t[i]
  BY <1>8, SortingSorts
<1>11. /\ messages' = s /\ messages' \in Timelines
       /\ rows' = RowsOf(messages') /\ store' = rows'
  BY <1>3, <1>8, ShowingKeeps
<1> HIDE DEF s
<1>12. DOMAIN s = 1..(n + 1)
  BY <1>1, <1>10 DEF Histories
<1>13. PICK k \in 1..(n + 1) : s[k] = m
  BY <1>8, <1>9, <1>10, <1>12
<1>14. k = n + 1 <=> place = n + 1
  <2>1. ASSUME k = n + 1, NEW j \in 1..n
        PROVE  Before(messages[j], m)
    <3>1. PICK l \in 1..(n + 1) : s[l] = messages[j]
      <4>1. PICK i \in DOMAIN t : t[i] = messages[j]
        BY <1>8
      <4>2. PICK l \in DOMAIN s : s[l] = t[i]
        BY <1>10
      <4>. QED
        BY <1>12, <4>1, <4>2
    <3>2. l # k
      BY <1>2, <1>13, <3>1
    <3>3. l < k
      BY <1>1, <2>1, <3>2
    <3>. QED
      BY <1>10, <1>12, <1>13, <3>1, <3>3 DEF Ascending
  <2>2. ASSUME \A i \in 1..n : Before(messages[i], m), k # n + 1
        PROVE  FALSE
    <3>1. k + 1 \in 1..(n + 1) /\ k < k + 1
      BY <1>1, <1>13, <2>2
    <3>2. Before(m, s[k + 1])
      BY <1>10, <1>12, <1>13, <3>1 DEF Ascending
    <3>3. PICK i \in DOMAIN t : s[k + 1] = t[i]
      BY <1>10, <1>12, <3>1
    <3>4. i # place
      <4>1. s[k + 1] \in Message
        BY <1>10, <1>12, <3>1, ElementOfSeq DEF Histories
      <4>2. m # s[k + 1]
        BY <3>2, <4>1, BeforeOneWay
      <4>. QED
        BY <1>8, <3>3, <4>2
    <3>5. PICK j \in 1..n : s[k + 1] = messages[j]
      BY <1>8, <3>3, <3>4
    <3>6. Before(messages[j], m) /\ Before(m, messages[j]) /\ messages[j] \in Message
      BY <1>1, <2>2, <3>2, <3>5
    <3>. QED
      BY <3>6, BeforeOneWay
  <2>. QED
    BY <1>7, <2>1, <2>2
<1>15. k \in 1..Len(messages') /\ messages'[k] = m /\ Len(messages') = n + 1
  BY <1>10, <1>11, <1>13
<1> DEFINE kind == IF place = n + 1 THEN "Appended" ELSE "Inserted"
<1>16. effect' = [kind |-> kind, index |-> RowOf(rows', m.id)]
  <2>1. kind # "Removed"
    OBVIOUS
  <2> HIDE DEF kind
  <2>2. effect' = Effect(kind, m.id)
    BY <1>3, Zenon DEF kind
  <2>. QED
    BY <2>1, <2>2, Zenon DEF Effect
<1>17. effect'.kind = kind /\ effect'.index = RowOf(rows', m.id)
  BY <1>16
<1>18. /\ effect'.index \in Nat
       /\ rows'[effect'.index + 1].row = "message"
       /\ rows'[effect'.index + 1].message = m
       /\ effect'.index + 1 = Len(rows') <=> k = n + 1
  BY <1>11, <1>15, <1>17, RowNamed
<1>19. effect'.kind = "Appended" <=> place = n + 1
  BY <1>17
<1>20. effect'.kind \in Kinds
  BY <1>17 DEF Kinds
<1>21. Names(m)
  BY <1>14, <1>18, <1>19, Zenon DEF Names
<1>. QED
  BY <1>3, <1>11, <1>18, <1>20, <1>21 DEF TimelineInv

(* A message is removed; the effect names the row it had.                  *)
LEMMA RemoveStep ==
  ASSUME TimelineInv, NEW id, Position(id) # 0, MessageRemoved(id)
  PROVE  TimelineInv'
<1> DEFINE p == Position(id)
           t == RemoveAt(messages, p)
<1>1. messages \in Histories /\ messages \in Timelines
  BY DEF TimelineInv, Timelines
<1>2. p = At(messages, id)
  BY Zenon DEF Position, At
<1>3. p \in DOMAIN messages /\ messages[p].id = id
  BY <1>1, <1>2, AtFinds
<1>4. Show(t) /\ effect' = Effect("Removed", id) /\ loadState' = "Ready"
  BY Zenon DEF MessageRemoved
<1> HIDE DEF p
<1>5. t \in Histories
  BY <1>1, <1>3, RemovingKeeps
<1> HIDE DEF t
<1>6. /\ messages' = Sorted(t) /\ messages' \in Timelines
      /\ rows' = RowsOf(messages') /\ store' = rows'
  BY <1>4, <1>5, ShowingKeeps
<1>7. effect' = [kind |-> "Removed", index |-> RowOf(rows, id)]
  BY <1>4, Zenon DEF Effect
<1>8. p \in 1..Len(messages)
  BY <1>1, <1>3 DEF Histories
<1>9. RowOf(RowsOf(messages), messages[p].id) \in Nat
  BY <1>1, <1>8, RowNamed
<1>10. effect'.kind = "Removed" /\ effect'.index \in Nat
  BY <1>3, <1>7, <1>9 DEF TimelineInv
<1>. QED
  BY <1>4, <1>6, <1>10 DEF TimelineInv, Kinds

(* An event for which nothing changes.                                     *)
LEMMA IgnoreStep ==
  ASSUME TimelineInv, Ignore
  PROVE  TimelineInv' /\ effect' = Ignored
<1>1. effect' = Ignored /\ UNCHANGED <<messages, rows, loadState, store>>
  BY Zenon DEF Ignore
<1>2. effect'.kind = "Ignored" /\ effect'.index = 0
  BY <1>1 DEF Ignored
<1>. QED
  BY <1>1, <1>2 DEF TimelineInv, Kinds

(* A message that is added or changed.                                     *)
LEMMA MessageStep ==
  ASSUME TimelineInv, NEW m \in Message, MessageAdded(m) \/ MessageChanged(m)
  PROVE  TimelineInv' /\ (effect' # Ignored => Names(m))
<1>1. CASE Position(m.id) = 0
  <2>1. Insert(m)
    BY <1>1, Zenon DEF MessageAdded, MessageChanged
  <2>. QED
    BY <1>1, <2>1, InsertStep
<1>2. CASE Position(m.id) # 0
  <2>1. Ignore \/ Replace(m)
    BY <1>2, Zenon DEF MessageAdded, MessageChanged
  <2>. QED
    BY <1>2, <2>1, IgnoreStep, ReplaceStep
<1>. QED
  BY <1>1, <1>2

(* The invariant holds of a timeline that was just filled.                 *)
LEMMA TimelineInvStarts == TimelineInit => TimelineInv
<1> SUFFICES ASSUME TimelineInit PROVE TimelineInv
  OBVIOUS
<1>1. PICK ms \in Snapshots : messages = Sorted(ms)
  BY DEF TimelineInit
<1>2. ms \in Histories
  BY TimelineAssumption DEF TimelineAssumption, Histories, Distinct
<1>3. messages \in Timelines
  BY <1>1, <1>2, SortingSorts DEF Timelines
<1>4. effect.kind = "Ignored" /\ effect.index = 0
  BY DEF TimelineInit, Ignored
<1>. QED
  BY <1>3, <1>4 DEF TimelineInit, TimelineInv, Kinds

(* Every step keeps the invariant.                                         *)
LEMMA TimelineInvKept == TimelineInv /\ [TimelineNext]_timelineVars => TimelineInv'
<1> SUFFICES ASSUME TimelineInv, [TimelineNext]_timelineVars PROVE TimelineInv'
  OBVIOUS
<1>1. ASSUME NEW m \in Message, MessageAdded(m) \/ MessageChanged(m) PROVE TimelineInv'
  BY <1>1, MessageStep
<1>2. ASSUME NEW id \in MessageIds, MessageRemoved(id) PROVE TimelineInv'
  <2>1. CASE Position(id) = 0
    <3>1. Ignore
      BY <1>2, <2>1, Zenon DEF MessageRemoved
    <3>. QED
      BY <3>1, IgnoreStep
  <2>2. CASE Position(id) # 0
    BY <1>2, <2>2, RemoveStep
  <2>. QED
    BY <2>1, <2>2
<1>3. CASE SetLoading
  BY <1>3 DEF SetLoading, TimelineInv
<1>4. CASE SetError
  BY <1>4 DEF SetError, TimelineInv
<1>5. CASE SetReady
  <2>1. loadState' = "Ready" /\ Show(messages) /\ effect' = effect
    BY <1>5, Zenon DEF SetReady
  <2>2. messages \in Histories
    BY DEF TimelineInv, Timelines
  <2>3. messages' \in Timelines /\ rows' = RowsOf(messages') /\ store' = rows'
    BY <2>1, <2>2, ShowingKeeps
  <2>. QED
    BY <2>1, <2>3 DEF TimelineInv
<1>6. CASE UNCHANGED timelineVars
  BY <1>6 DEF timelineVars, TimelineInv
<1>. QED
  BY <1>1, <1>2, <1>3, <1>4, <1>5, <1>6, Zenon DEF TimelineNext

(* The invariant is one of the timeline.                                   *)
LEMMA TimelineHolds == TimelineSpec => []TimelineInv
<1>. QED
  BY TimelineInvStarts, TimelineInvKept, PTL DEF TimelineSpec

-----------------------------------------------------------------------------
(* The theorems.                                                           *)

(* Whatever events arrive, the rows are at most two for a message and the  *)
(* effect of an event is one of the five, with a row of the list.          *)
THEOREM TimelineTypeCorrect == TimelineSpec => []TimelineTypeOK
<1>1. TimelineInv => TimelineTypeOK
  <2> SUFFICES ASSUME TimelineInv PROVE TimelineTypeOK
    OBVIOUS
  <2>1. messages \in Seq(Message) /\ messages \in Histories /\ Len(messages) \in Nat
    BY DEF TimelineInv, Timelines, Histories
  <2>2. Len(RowsOf(messages)) = Len(messages) + Cardinality(DayStarts(messages))
    BY <2>1, RowsAreSequence
  <2>3. Cardinality(DayStarts(messages)) \in 0..Len(messages)
    BY <2>1, PlacesRise
  <2>4. Len(rows) <= 2 * Len(messages)
    BY <2>1, <2>2, <2>3 DEF TimelineInv
  <2>. QED
    BY <2>1, <2>4 DEF TimelineInv, TimelineTypeOK, Kinds
<1>. QED
  BY <1>1, TimelineHolds, PTL

(* Whatever order events come in and whatever times an update moves a      *)
(* message to, the messages stand in order, one for each id.               *)
THEOREM MessagesAlwaysInOrder == TimelineSpec => []MessagesInOrder
<1>1. TimelineInv => MessagesInOrder
  <2> SUFFICES ASSUME TimelineInv,
                      NEW i \in DOMAIN messages, NEW j \in DOMAIN messages, i < j
               PROVE  Before(messages[i], messages[j]) /\ messages[i].id # messages[j].id
    BY DEF MessagesInOrder
  <2>1. Ascending(messages) /\ Distinct(messages) /\ DOMAIN messages = 1..Len(messages)
    BY DEF TimelineInv, Timelines, Histories
  <2>2. i # j
    BY <2>1
  <2>. QED
    BY <2>1, <2>2 DEF Ascending, Distinct
<1>. QED
  BY <1>1, TimelineHolds, PTL

(* The list view shows the messages with one separator before the first of *)
(* each UTC day, and no other.                                             *)
THEOREM StoreAlwaysShowsDays == TimelineSpec => []StoreShowsDays
<1>1. TimelineInv => StoreShowsDays
  <2> SUFFICES ASSUME TimelineInv PROVE StoreShowsDays
    OBVIOUS
  <2> DEFINE ms == messages
             n == Len(ms)
             places == RowPlaces(ms)
  <2>1. /\ ms \in Timelines /\ ms \in Histories /\ n \in Nat /\ DOMAIN ms = 1..n
        /\ store = RowsOf(ms) /\ rows = store
    BY DEF TimelineInv, Timelines, Histories
  <2>2. /\ Len(store) = n + Cardinality(DayStarts(ms)) /\ Len(store) \in Nat
        /\ DOMAIN store = 1..Len(store)
    BY <2>1, RowsAreSequence, RowsStand
  <2>3. Cardinality(DayStarts(ms)) = Cardinality({Day(ms[i]) : i \in DOMAIN ms})
    BY <2>1, DaysCounted
  <2>4. /\ \A i \in 1..n :
             places[i] \in DOMAIN store /\ store[places[i]] = MessageRow(ms[i], GroupPosition(ms, i))
        /\ \A k \in DOMAIN store :
             \/ \E i \in 1..n : k = places[i]
             \/ \E i \in DayStarts(ms) : k + 1 = places[i] /\ store[k] = DaySeparator(Label(ms[i]))
    BY <2>1, RowsStand
  <2>5. /\ \A i \in 1..n : places[i] \in Nat
        /\ \A i, j \in 1..n : i < j => places[i] < places[j]
    BY <2>1, PlacesRise
  <2>6. \A m, position : MessageRow(m, position).row = "message" /\ MessageRow(m, position).message = m
    BY DEF MessageRow
  <2>7. \A label : DaySeparator(label).row = "day"
    BY DEF DaySeparator
  <2>8. \A i \in DayStarts(ms), j \in 1..n : j < i => Day(ms[j]) < Day(ms[i])
    BY <2>1, DaysRise
  <2>9. DayStarts(ms) \in SUBSET (1..n)
    BY <2>1 DEF DayStarts
  <2> HIDE DEF n, places
  <2>10. ASSUME NEW k \in DOMAIN store, store[k].row = "day"
         PROVE  /\ k < Len(store) /\ store[k + 1].row = "message"
                /\ \A l \in 1..k : store[l].row = "message" =>
                     Day(store[l].message) < Day(store[k + 1].message)
    <3>1. ~ \E i \in 1..n : k = places[i]
      BY <2>4, <2>6, <2>10
    <3>2. PICK i \in DayStarts(ms) : k + 1 = places[i]
      BY <2>4, <3>1
    <3>3. i \in 1..n /\ store[k + 1] = MessageRow(ms[i], GroupPosition(ms, i)) /\ k + 1 \in DOMAIN store
      BY <2>4, <2>9, <3>2
    <3>4. store[k + 1].row = "message" /\ store[k + 1].message = ms[i]
      BY <2>6, <3>3
    <3>5. k < Len(store)
      BY <2>2, <3>3
    <3>6. ASSUME NEW l \in 1..k, store[l].row = "message"
          PROVE  Day(store[l].message) < Day(store[k + 1].message)
      <4>1. l \in DOMAIN store
        BY <2>2, <3>5
      <4>2. PICK j \in 1..n : l = places[j]
        BY <2>4, <2>7, <3>6, <4>1
      <4>3. store[l].message = ms[j]
        BY <2>4, <2>6, <4>2
      <4>4. j < i
        <5>1. l < k + 1
          BY <2>2
        <5>2. ~(i < j) /\ i # j
          BY <2>5, <3>2, <3>3, <4>2, <5>1
        <5>. QED
          BY <2>1, <3>3, <5>2
      <4>5. Day(ms[j]) < Day(ms[i])
        BY <2>8, <4>4
      <4>. QED
        BY <3>4, <4>3, <4>5
    <3>. QED
      BY <3>4, <3>5, <3>6
  <2>11. Len(store) = Len(messages) + Cardinality({Day(messages[i]) : i \in DOMAIN messages})
    BY <2>2, <2>3 DEF n
  <2>12. SelectSeq(store, LAMBDA r : r.row = "message") = SelectSeq(rows, LAMBDA r : r.row = "message")
    BY <2>1, Zenon
  <2>. QED
    BY <2>10, <2>11, <2>12, Zenon DEF StoreShowsDays
<1>. QED
  BY <1>1, TimelineHolds, PTL

(* The bubbles of a group join up: one that opens a group is followed, in  *)
(* the next row, by one that continues it, of the same sender.             *)
THEOREM GroupsAlwaysWhole == TimelineSpec => []GroupsAreWhole
<1>1. TimelineInv => GroupsAreWhole
  <2> SUFFICES ASSUME TimelineInv PROVE GroupsAreWhole
    OBVIOUS
  <2> DEFINE ms == messages
             n == Len(ms)
             places == RowPlaces(ms)
             opens(j) == j \in DOMAIN store /\ store[j].row = "message"
                         /\ store[j].position \in {"First", "Middle"}
             continues(j) == j \in DOMAIN store /\ store[j].row = "message"
                             /\ store[j].position \in {"Middle", "Last"}
  <2>1. ms \in Histories /\ n \in Nat /\ DOMAIN ms = 1..n /\ store = RowsOf(ms)
    BY DEF TimelineInv, Timelines, Histories
  <2>2. /\ \A i \in 1..n :
             places[i] \in DOMAIN store /\ store[places[i]] = MessageRow(ms[i], GroupPosition(ms, i))
        /\ \A k \in DOMAIN store :
             \/ \E i \in 1..n : k = places[i]
             \/ \E i \in DayStarts(ms) : k + 1 = places[i] /\ store[k] = DaySeparator(Label(ms[i]))
    BY <2>1, RowsStand
  <2>3. /\ \A i \in 1..n : places[i] \in Nat
        /\ \A i \in 1..n : i > 1 => places[i] = places[i - 1] + (IF i \in DayStarts(ms) THEN 2 ELSE 1)
        /\ n # 0 => places[1] = 2
    BY <2>1, PlacesRise
  <2>4. \A m, position : /\ MessageRow(m, position).row = "message"
                         /\ MessageRow(m, position).message = m
                         /\ MessageRow(m, position).position = position
    BY DEF MessageRow
  <2>5. \A label : DaySeparator(label).row = "day"
    BY DEF DaySeparator
  <2> HIDE DEF n, places, ms
  <2>6. \A k \in DOMAIN store : store[k].row = "message" => \E i \in 1..n : k = places[i]
    BY <2>2, <2>5
  <2>7. \A i \in 1..n : /\ store[places[i]].row = "message"
                        /\ store[places[i]].message = ms[i]
                        /\ store[places[i]].position = GroupPosition(ms, i)
    BY <2>2, <2>4
  <2>8. \A i \in 1..n : /\ GroupPosition(ms, i) \in {"First", "Middle"} <=> Joined(ms, i, i + 1)
                        /\ GroupPosition(ms, i) \in {"Middle", "Last"} <=> Joined(ms, i, i - 1)
    BY DEF GroupPosition
  <2>9. ASSUME NEW i \in 1..n, Joined(ms, i, i + 1)
        PROVE  /\ i + 1 \in 1..n /\ places[i + 1] = places[i] + 1
               /\ Joined(ms, i + 1, i) /\ ms[i].sender = ms[i + 1].sender
    <3>1. i + 1 \in 1..n /\ i + 1 > 1 /\ (i + 1) - 1 = i
      BY <2>1, <2>9 DEF Joined
    <3>2. i + 1 \notin DayStarts(ms)
      BY <2>9, <3>1 DEF Joined, DayStarts
    <3>3. places[i + 1] = places[i] + 1
      BY <2>3, <3>1, <3>2
    <3>. QED
      BY <2>1, <2>9, <3>1, <3>3 DEF Joined
  <2>10. ASSUME NEW i \in 1..n, Joined(ms, i, i - 1)
         PROVE  /\ i - 1 \in 1..n /\ places[i] = places[i - 1] + 1 /\ Joined(ms, i - 1, i)
    <3>1. i - 1 \in 1..n /\ i > 1
      BY <2>1, <2>10 DEF Joined
    <3>2. i \notin DayStarts(ms)
      BY <2>10, <3>1 DEF Joined, DayStarts
    <3>3. places[i] = places[i - 1] + 1
      BY <2>3, <3>1, <3>2
    <3>. QED
      BY <2>1, <2>10, <3>1, <3>3 DEF Joined
  <2>11. ASSUME NEW k \in DOMAIN store, opens(k)
         PROVE  continues(k + 1) /\ store[k].message.sender = store[k + 1].message.sender
    <3>1. PICK i \in 1..n : k = places[i]
      BY <2>6, <2>11
    <3>2. Joined(ms, i, i + 1)
      BY <2>7, <2>8, <2>11, <3>1
    <3>3. /\ i + 1 \in 1..n /\ places[i + 1] = k + 1
          /\ Joined(ms, i + 1, i) /\ ms[i].sender = ms[i + 1].sender
      BY <2>9, <3>1, <3>2
    <3>4. Joined(ms, i + 1, (i + 1) - 1)
      BY <2>1, <3>3
    <3>5. GroupPosition(ms, i + 1) \in {"Middle", "Last"}
      BY <2>8, <3>3, <3>4
    <3>. QED
      BY <2>2, <2>7, <3>1, <3>3, <3>5
  <2>12. ASSUME NEW k \in DOMAIN store, continues(k + 1)
         PROVE  opens(k)
    <3>1. PICK i \in 1..n : k + 1 = places[i]
      BY <2>6, <2>12
    <3>2. Joined(ms, i, i - 1)
      BY <2>7, <2>8, <2>12, <3>1
    <3>3. i - 1 \in 1..n /\ places[i] = places[i - 1] + 1 /\ Joined(ms, i - 1, i)
      BY <2>10, <3>2
    <3>4. DOMAIN store \in SUBSET Int
      BY <2>1, RowsAreSequence
    <3>5. places[i - 1] = k
      BY <2>3, <3>1, <3>3, <3>4
    <3>6. Joined(ms, i - 1, (i - 1) + 1)
      BY <2>1, <3>3
    <3>7. GroupPosition(ms, i - 1) \in {"First", "Middle"}
      BY <2>8, <3>3, <3>6
    <3>. QED
      BY <2>7, <3>3, <3>5, <3>7
  <2>. QED
    BY <2>11, <2>12, Zenon DEF GroupsAreWhole
<1>. QED
  BY <1>1, TimelineHolds, PTL

(* A separator's label is the date of its day: day 0 is 1970-01-01 and the *)
(* date of the next day is the calendar's next, however far the days are   *)
(* from it on either side.                                                 *)
THEOREM LabelsAlwaysDates ==
  ASSUME CalendarDays \subseteq Int, \A m \in Message : Day(m) \in CalendarDays
  PROVE  TimelineSpec => []LabelsAreDates
<1>1. TimelineInv => LabelsAreDates
  <2> SUFFICES ASSUME TimelineInv PROVE LabelsAreDates
    OBVIOUS
  <2>1. \A i \in DOMAIN messages : messages[i] \in Message
    BY ElementOfSeq DEF TimelineInv, Timelines, Histories
  <2>2. \A i \in DOMAIN messages : Day(messages[i]) \in CalendarDays
    BY <2>1
  <2>3. \A d \in CalendarDays : CivilDate(d + 1) = NextDate(CivilDate(d))
    BY DatesFollow
  <2>4. WrongDates = {}
    BY <2>3, Zenon DEF WrongDates
  <2>. QED
    BY <2>2, <2>4, EpochDate, SMT DEF LabelsAreDates
<1>. QED
  BY <1>1, TimelineHolds, PTL

(* The effect an event returns names the row its message has now, which is *)
(* the last row exactly when the message was appended.                     *)
THEOREM EffectAlwaysNamesRow == TimelineSpec => EffectNamesRow
<1> DEFINE Named == \A m \in Message :
             effect' # Ignored /\ (MessageAdded(m) \/ MessageChanged(m)) =>
               /\ rows'[effect'.index + 1].row = "message"
               /\ rows'[effect'.index + 1].message = m
               /\ effect'.kind # "Updated" =>
                    (effect'.kind = "Appended" <=> effect'.index + 1 = Len(rows'))
<1>1. TimelineInv => Named
  BY MessageStep DEF Names
<1>2. TimelineInv /\ [TimelineNext]_timelineVars => [Named]_timelineVars
  BY <1>1
<1>. QED
  BY <1>2, TimelineHolds, PTL DEF TimelineSpec, EffectNamesRow
=============================================================================
