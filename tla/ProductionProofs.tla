---------------------------- MODULE ProductionProofs ----------------------------
(* The production commands never make key material that the next command   *)
(* cannot read, for any number of commands and wherever they end, and      *)
(* signing out does not either.                                            *)
EXTENDS SignOut, TLAPS

(* A command that connects has a keystore key to register with.            *)
WithKey == {"load", "getHardware", "getSession", "connect"}
HasKey == \A p \in Command : pc[p] \in WithKey => key[p] # None

TypeInv == ProductionTypeOK /\ HasKey

(* None is not one of the commands.                                        *)
LEMMA NoneIsNoCommand == None \notin Command
BY CommandAssumption DEF Command

(* Every step keeps the types.                                             *)
LEMMA TypeStep == TypeInv /\ [ProductionNext]_productionVars => TypeInv'
<1> SUFFICES ASSUME TypeInv, [ProductionNext]_productionVars
             PROVE  TypeInv'
  OBVIOUS
<1> USE NoneIsNoCommand DEF TypeInv, ProductionTypeOK, HasKey, WithKey,
                            secretVars, localVars, historyVars
<1>1. CASE UNCHANGED productionVars
  BY <1>1 DEF productionVars
<1>2. ASSUME NEW p \in Command, Runs(p) PROVE TypeInv'
  <2> USE DEF Move, Places
  <2>1. CASE Start(p)
    BY <2>1 DEF Start
  <2>2. CASE GetKey(p)
    BY <2>2 DEF GetKey
  <2>3. CASE SetKey(p)
    BY <2>3 DEF SetKey
  <2>4. CASE LoadKeystore(p)
    BY <2>4 DEF LoadKeystore
  <2>5. CASE GetHardware(p)
    BY <2>5 DEF GetHardware
  <2>6. CASE GetSession(p)
    BY <2>6 DEF GetSession
  <2>7. CASE Reconnect(p)
    BY <2>7 DEF Reconnect
  <2>8. CASE Register(p)
    <3>1. [registration |-> p, key |-> key[p]] \in Entry
      BY <2>8 DEF Register, Entry
    <3> QED
      BY <2>8, <3>1 DEF Register
  <2>9. CASE TruncateKeystore(p)
    BY <2>9 DEF TruncateKeystore
  <2>10. CASE WriteKeystore(p)
    BY <2>10 DEF WriteKeystore
  <2>11. CASE WriteFails(p)
    BY <2>11 DEF WriteFails
  <2>12. CASE Operate(p)
    BY <2>12 DEF Operate
  <2>13. CASE SetSession(p)
    BY <2>13 DEF SetSession
  <2>14. CASE SetHardware(p)
    BY <2>14 DEF SetHardware
  <2>15. CASE Stop(p)
    BY <2>15 DEF Stop
  <2> QED
    BY <1>2, <2>1, <2>2, <2>3, <2>4, <2>5, <2>6, <2>7, <2>8, <2>9, <2>10, <2>11,
       <2>12, <2>13, <2>14, <2>15 DEF Runs
<1> QED
  BY <1>1, <1>2 DEF ProductionNext

(* The types are right at the start.                                       *)
LEMMA InitType == ProductionInit => TypeInv
<1> SUFFICES ASSUME ProductionInit PROVE TypeInv
  OBVIOUS
<1>1. file \in [readable : BOOLEAN, entries : SUBSET Entry]
  BY DEF ProductionInit
<1>2. pc \in [Command -> Places] /\ HasKey
  BY DEF ProductionInit, Places, HasKey, WithKey
<1>3. /\ entries \in [Command -> SUBSET Entry]
      /\ key \in [Command -> Command \union {None}]
      /\ held \in [Command -> Command \union {None}]
  BY DEF ProductionInit
<1> QED
  BY <1>1, <1>2, <1>3 DEF ProductionInit, TypeInv, ProductionTypeOK

(* The types are always right.                                             *)
LEMMA TypeInvariant == ProductionSpec => []TypeInv
BY InitType, TypeStep, PTL DEF ProductionSpec

(* The commands never leave their places and keep only what they made.     *)
THEOREM ProductionTypeCorrect == ProductionSpec => []ProductionTypeOK
<1>1. TypeInv => ProductionTypeOK
  BY DEF TypeInv
<1> QED
  BY <1>1, TypeInvariant, PTL

-----------------------------------------------------------------------------
(* No two commands run, as long as none was started beside another.        *)
Alone == \A p, q \in Running : p = q

(* Before it loads the keystore a command has nothing of it in memory, and *)
(* it makes a key only when there is none; afterwards it works with the    *)
(* key that the Secret Service has.                                        *)
WorksWithKey ==
  \A p \in Running :
    /\ pc[p] \in {"getKey", "setKey"} => entries[p] = {}
    /\ pc[p] = "setKey" => keystoreKey = None
    /\ pc[p] \notin {"getKey", "setKey"} => key[p] = keystoreKey /\ keystoreKey # None

(* A command that was not started has nothing in memory.                   *)
FreshStart == \A p \in Command : pc[p] = "idle" => entries[p] = {}

KeyInv ==
  /\ FreshStart
  /\ ~overlapped => Alone /\ WorksWithKey /\ KeysAreReadable

(* Every step keeps the invariant of the secret key.                       *)
LEMMA KeyStep ==
  TypeInv /\ KeyInv /\ [ProductionNext]_productionVars => KeyInv'
<1> SUFFICES ASSUME TypeInv, KeyInv, [ProductionNext]_productionVars
             PROVE  KeyInv'
  OBVIOUS
<1> USE NoneIsNoCommand DEF KeyInv, FreshStart, Alone, WorksWithKey, KeysAreReadable,
        Running, Ended, TypeInv, ProductionTypeOK, secretVars, localVars, historyVars
<1>1. CASE UNCHANGED productionVars
  BY <1>1 DEF productionVars
<1>2. ASSUME NEW p \in Command, Runs(p) PROVE KeyInv'
  <2> USE DEF Move
  <2>1. CASE Start(p)
    <3>1. /\ \A q \in Command : pc'[q] = IF q = p THEN "getKey" ELSE pc[q]
          /\ entries' = entries /\ file' = file /\ keystoreKey' = keystoreKey
          /\ entries[p] = {}
      BY <2>1 DEF Start
    <3>2. FreshStart'
      BY <3>1
    <3>3. ASSUME ~overlapped' PROVE ~overlapped /\ \A q \in Running' : q = p
      BY <2>1, <3>1, <3>3 DEF Start
    <3> QED
      BY <3>1, <3>2, <3>3
  <2>2. CASE GetKey(p)
    BY <2>2 DEF GetKey
  <2>3. CASE SetKey(p)
    <3>1. ASSUME ~overlapped PROVE file.entries = {}
      <4>1. keystoreKey = None
        BY <2>3, <3>1 DEF SetKey
      <4>2. \A e \in file.entries : e \in Entry /\ e.key = None
        BY <3>1, <4>1
      <4> QED
        BY <4>2 DEF Entry
    <3> QED
      BY <2>3, <3>1 DEF SetKey
  <2>4. CASE LoadKeystore(p)
    BY <2>4 DEF LoadKeystore
  <2>5. CASE GetHardware(p)
    BY <2>5 DEF GetHardware
  <2>6. CASE GetSession(p)
    BY <2>6 DEF GetSession
  <2>7. CASE Reconnect(p)
    BY <2>7 DEF Reconnect
  <2>8. CASE Register(p)
    BY <2>8 DEF Register
  <2>9. CASE TruncateKeystore(p)
    BY <2>9 DEF TruncateKeystore
  <2>10. CASE WriteKeystore(p)
    BY <2>10 DEF WriteKeystore
  <2>11. CASE WriteFails(p)
    BY <2>11 DEF WriteFails
  <2>12. CASE Operate(p)
    BY <2>12 DEF Operate
  <2>13. CASE SetSession(p)
    BY <2>13 DEF SetSession
  <2>14. CASE SetHardware(p)
    BY <2>14 DEF SetHardware
  <2>15. CASE Stop(p)
    BY <2>15 DEF Stop
  <2> QED
    BY <1>2, <2>1, <2>2, <2>3, <2>4, <2>5, <2>6, <2>7, <2>8, <2>9, <2>10, <2>11,
       <2>12, <2>13, <2>14, <2>15 DEF Runs
<1> QED
  BY <1>1, <1>2 DEF ProductionNext

(* For any number of commands, killed anywhere: key material is readable   *)
(* by the next command, as long as they run one by one.                    *)
THEOREM KeysAlwaysReadable == ProductionSpec => []KeysAreReadable
<1>1. ProductionInit => KeyInv
  BY DEF ProductionInit, KeyInv, FreshStart, Alone, WorksWithKey, KeysAreReadable,
         Running, Ended
<1>2. KeyInv => KeysAreReadable
  BY DEF KeyInv, KeysAreReadable
<1> QED
  BY <1>1, <1>2, KeyStep, TypeInvariant, PTL DEF ProductionSpec
-----------------------------------------------------------------------------
(* A session once saved stays, the hardware is saved after one, and a       *)
(* command that will save a session holds one.                              *)
Saving == {"open", "write", "operate", "setSession", "setHardware"}

SessionInv ==
  /\ SessionIsNeverMissing
  /\ hardware => session # None
  /\ \A p \in Command :
       /\ pc[p] = "setHardware" => session # None
       /\ pc[p] \in Saving => held[p] # None
       /\ p \in Use /\ pc[p] = "getSession" => session # None
       /\ p \in Use /\ pc[p] = "connect" => held[p] # None

(* Every step keeps the invariant of the session.                          *)
LEMMA SessionStep ==
  TypeInv /\ SessionInv /\ [ProductionNext]_productionVars => SessionInv'
<1> SUFFICES ASSUME TypeInv, SessionInv, [ProductionNext]_productionVars
             PROVE  SessionInv'
  OBVIOUS
<1>1. Use \subseteq Command /\ \A p \in Use : p \notin Setup
  BY CommandAssumption DEF Command
<1> USE <1>1, NoneIsNoCommand DEF SessionInv, SessionIsNeverMissing, Saving, TypeInv,
        ProductionTypeOK, secretVars, localVars, historyVars
<1>2. CASE UNCHANGED productionVars
  BY <1>2 DEF productionVars
<1>3. ASSUME NEW p \in Command, Runs(p) PROVE SessionInv'
  <2> USE DEF Move
  <2>1. CASE Start(p)
    BY <2>1 DEF Start
  <2>2. CASE GetKey(p)
    BY <2>2 DEF GetKey
  <2>3. CASE SetKey(p)
    BY <2>3 DEF SetKey
  <2>4. CASE LoadKeystore(p)
    BY <2>4 DEF LoadKeystore
  <2>5. CASE GetHardware(p)
    BY <2>5 DEF GetHardware
  <2>6. CASE GetSession(p)
    BY <2>6 DEF GetSession
  <2>7. CASE Reconnect(p)
    BY <2>7 DEF Reconnect
  <2>8. CASE Register(p)
    BY <2>8 DEF Register
  <2>9. CASE TruncateKeystore(p)
    BY <2>9 DEF TruncateKeystore
  <2>10. CASE WriteKeystore(p)
    BY <2>10 DEF WriteKeystore
  <2>11. CASE WriteFails(p)
    BY <2>11 DEF WriteFails
  <2>12. CASE Operate(p)
    BY <2>12 DEF Operate
  <2>13. CASE SetSession(p)
    BY <2>13 DEF SetSession
  <2>14. CASE SetHardware(p)
    BY <2>14 DEF SetHardware
  <2>15. CASE Stop(p)
    BY <2>15 DEF Stop
  <2> QED
    BY <1>3, <2>1, <2>2, <2>3, <2>4, <2>5, <2>6, <2>7, <2>8, <2>9, <2>10, <2>11,
       <2>12, <2>13, <2>14, <2>15 DEF Runs
<1> QED
  BY <1>2, <1>3 DEF ProductionNext

(* For any number of commands that run side by side and are killed         *)
(* anywhere: send and listen never find the hardware without a session.    *)
THEOREM SessionNeverMissing == ProductionSpec => []SessionIsNeverMissing
<1>1. ProductionInit => SessionInv
  BY CommandAssumption
     DEF ProductionInit, SessionInv, SessionIsNeverMissing, Saving, Command
<1>2. SessionInv => SessionIsNeverMissing
  BY DEF SessionInv
<1> QED
  BY <1>1, <1>2, SessionStep, TypeInvariant, PTL DEF ProductionSpec
-----------------------------------------------------------------------------
(* Signing out moves no command and leaves the session, the keystore key   *)
(* and the memory of the commands alone; what it takes away is no loss to  *)
(* the three invariants.                                                   *)
AccountInv == TypeInv /\ KeyInv /\ SessionInv

(* The account invariant holds at the start.                               *)
LEMMA InitAccount == ProductionInit => AccountInv
<1> SUFFICES ASSUME ProductionInit PROVE AccountInv
  OBVIOUS
<1>1. TypeInv
  BY InitType
<1>2. KeyInv
  BY DEF ProductionInit, KeyInv, FreshStart, Alone, WorksWithKey, KeysAreReadable,
         Running, Ended
<1>3. SessionInv
  BY CommandAssumption
     DEF ProductionInit, SessionInv, SessionIsNeverMissing, Saving, Command
<1> QED
  BY <1>1, <1>2, <1>3 DEF AccountInv

(* Signing out keeps the account invariant.                                *)
LEMMA SignOutKeepsInv == AccountInv /\ SignOutStep => AccountInv'
<1> SUFFICES ASSUME AccountInv, SignOutStep PROVE AccountInv'
  OBVIOUS
<1> USE DEF AccountInv
<1>1. CASE UNCHANGED productionVars
  <2>1. TypeInv'
    BY <1>1, TypeStep
  <2>2. KeyInv'
    BY <1>1, KeyStep
  <2>3. SessionInv'
    BY <1>1, SessionStep
  <2> QED
    BY <2>1, <2>2, <2>3
<1>2. CASE DeleteHardware
  <2> USE <1>2 DEF DeleteHardware, localVars, historyVars
  <2>1. TypeInv'
    BY DEF TypeInv, ProductionTypeOK, HasKey
  <2>2. KeyInv'
    BY DEF KeyInv, FreshStart, Alone, WorksWithKey, KeysAreReadable, Running
  <2>3. SessionInv'
    BY DEF SessionInv, SessionIsNeverMissing
  <2> QED
    BY <2>1, <2>2, <2>3
<1>3. CASE PurgeData
  <2> USE <1>3 DEF PurgeData, secretVars, localVars, historyVars
  <2>1. TypeInv'
    BY DEF TypeInv, ProductionTypeOK, HasKey
  <2>2. KeyInv'
    BY DEF KeyInv, FreshStart, Alone, WorksWithKey, KeysAreReadable, Running
  <2>3. SessionInv'
    BY DEF SessionInv, SessionIsNeverMissing
  <2> QED
    BY <2>1, <2>2, <2>3
<1> QED
  BY <1>1, <1>2, <1>3
     DEF SignOutStep, BeginSignOut, DeleteApple, PurgeCache, StopSignOut

(* Every step keeps the account invariant.                                 *)
LEMMA AccountStep == AccountInv /\ [SignOutNext]_accountVars => AccountInv'
<1> SUFFICES ASSUME AccountInv, [SignOutNext]_accountVars PROVE AccountInv'
  OBVIOUS
<1>1. CASE SignOutStep
  BY <1>1, SignOutKeepsInv
<1>2. CASE [ProductionNext]_productionVars
  BY <1>2, TypeStep, KeyStep, SessionStep DEF AccountInv
<1> QED
  BY <1>1, <1>2 DEF SignOutNext, CommandRuns, ProductionNext, accountVars

(* The account invariant always holds.                                     *)
LEMMA AccountInvariant == SignOutSpec => []AccountInv
<1>1. SignOutInit => AccountInv
  BY InitAccount DEF SignOutInit
<1> QED
  BY <1>1, AccountStep, PTL DEF SignOutSpec

(* The same when the account is signed out at any time, beside commands or *)
(* between them: what key material is left is under the key that is left.  *)
THEOREM SignOutKeepsKeys == SignOutSpec => []KeysAreReadable
<1>1. AccountInv => KeysAreReadable
  BY DEF AccountInv, KeyInv, KeysAreReadable
<1> QED
  BY <1>1, AccountInvariant, PTL

(* And a command that runs beside it finds the hardware missing, not the   *)
(* session.                                                                *)
THEOREM SignOutKeepsSession == SignOutSpec => []SessionIsNeverMissing
<1>1. AccountInv => SessionIsNeverMissing
  BY DEF AccountInv, SessionInv
<1> QED
  BY <1>1, AccountInvariant, PTL
-----------------------------------------------------------------------------
(* Types of the whole.                                                     *)

(* A command's step moves that command only, and it writes what it opened. *)
LEMMA OneCommandMoves ==
  ASSUME TypeInv, NEW p \in Command, Runs(p)
  PROVE  /\ \A q \in Command \ {p} : pc'[q] = pc[q]
         /\ pc'[p] = "write" => pc[p] = "open"
<1> USE DEF TypeInv, ProductionTypeOK, Move
<1>1. CASE Start(p) \/ GetKey(p) \/ SetKey(p) \/ LoadKeystore(p) \/ GetHardware(p)
  BY <1>1 DEF Start, GetKey, SetKey, LoadKeystore, GetHardware
<1>2. CASE GetSession(p) \/ Reconnect(p) \/ Register(p) \/ TruncateKeystore(p)
           \/ WriteKeystore(p)
  BY <1>2 DEF GetSession, Reconnect, Register, TruncateKeystore, WriteKeystore
<1>3. CASE WriteFails(p) \/ Operate(p) \/ SetSession(p) \/ SetHardware(p) \/ Stop(p)
  BY <1>3 DEF WriteFails, Operate, SetSession, SetHardware, Stop
<1>. QED
  BY <1>1, <1>2, <1>3 DEF Runs

(* Where signing out stands, and which keystore files are gone.            *)
PlaceInv ==
  /\ signOut \in SignOutPlaces
  /\ directories \subseteq {"data", "cache"}
  /\ orphaned \subseteq {p \in Command : pc[p] = "write"}
  /\ mixed \in BOOLEAN
  /\ \A p \in Command : pc[p] = "write" => "data" \in directories \/ p \in orphaned

(* Every step keeps what is known of the place a command is at.            *)
LEMMA PlaceStep == TypeInv /\ PlaceInv /\ [SignOutNext]_accountVars => PlaceInv'
<1> SUFFICES ASSUME TypeInv, PlaceInv, [SignOutNext]_accountVars PROVE PlaceInv'
  OBVIOUS
<1> USE DEF PlaceInv, SignOutPlaces, MoveOn
<1>1. ASSUME NEW p \in Command, CommandRuns(p) PROVE PlaceInv'
  <2>1. /\ \A q \in Command \ {p} : pc'[q] = pc[q]
        /\ pc'[p] = "write" => pc[p] = "open"
    BY <1>1, OneCommandMoves DEF CommandRuns
  <2>2. /\ pc[p] = "open" /\ pc'[p] = "write" => "data" \in directories
        /\ orphaned' = orphaned \ {p} /\ mixed' \in BOOLEAN /\ signOut' = signOut
    BY <1>1 DEF CommandRuns
  <2>3. directories \subseteq directories' /\ directories' \subseteq {"data", "cache"}
    BY <1>1 DEF CommandRuns
  <2>. QED
    BY <2>1, <2>2, <2>3
<1>2. CASE BeginSignOut \/ DeleteApple \/ DeleteHardware
  BY <1>2 DEF BeginSignOut, DeleteApple, DeleteHardware, productionVars
<1>3. CASE PurgeData \/ PurgeCache \/ StopSignOut
  BY <1>3 DEF PurgeData, PurgeCache, StopSignOut, productionVars
<1>4. CASE UNCHANGED accountVars
  BY <1>4 DEF accountVars, productionVars, signOutVars
<1>. QED
  BY <1>1, <1>2, <1>3, <1>4 DEF SignOutNext, SignOutStep

(* However commands and the one that signs out interleave, a keystore file *)
(* that is open is in a data directory or has been removed.                *)
THEOREM SignOutTypeCorrect == SignOutSpec => []SignOutTypeOK
<1>1. SignOutInit => AccountInv /\ PlaceInv
  <2> SUFFICES ASSUME SignOutInit PROVE AccountInv /\ PlaceInv
    OBVIOUS
  <2>1. AccountInv
    BY InitAccount DEF SignOutInit
  <2>2. PlaceInv
    BY DEF SignOutInit, ProductionInit, PlaceInv, SignOutPlaces
  <2>. QED
    BY <2>1, <2>2
<1>2. AccountInv => TypeInv
  BY DEF AccountInv
<1>3. AccountInv /\ PlaceInv => SignOutTypeOK
  BY DEF AccountInv, TypeInv, PlaceInv, SignOutTypeOK
<1>. QED
  BY <1>1, <1>2, <1>3, AccountStep, PlaceStep, PTL DEF SignOutSpec

-----------------------------------------------------------------------------
(* A completed setup is of use.                                            *)

(* The keystore file has the key material of a session, under the key at   *)
(* hand.                                                                   *)
Saved(s) ==
  /\ s # None /\ file.readable
  /\ [registration |-> s, key |-> keystoreKey] \in file.entries

(* What a command that runs alone relies on, place by place.               *)
UndisturbedCommand(p) ==
  /\ pc[p] \in {"getHardware", "getSession", "connect"} =>
       file.readable /\ entries[p] = file.entries
  /\ pc[p] = "connect" => held[p] = session
  /\ pc[p] \in {"open", "write"} =>
       /\ session = None
       /\ held[p] = p /\ [registration |-> p, key |-> keystoreKey] \in entries[p]
  /\ pc[p] \in {"operate", "setSession"} => Saved(held[p])
  /\ pc[p] = "setHardware" => Saved(session)

(* The hardware payload, saved last and deleted before the keystore file,  *)
(* means that session and keystore are there.                              *)
UsableInv ==
  ~overlapped /\ ~mixed /\ ~unwritten =>
    /\ SigningOut => Running = {}
    /\ signOut \in {"data", "cache"} => ~hardware
    /\ SetupCompleted /\ signOut = "idle" => hardware
    /\ hardware => Saved(session)
    /\ \A p \in Running : UndisturbedCommand(p)

(* A command makes a keystore key only when there is no key material.      *)
LEMMA NoKeyNoEntries ==
  ASSUME AccountInv, ~overlapped, keystoreKey = None
  PROVE  file.entries = {}
<1>1. \A e \in file.entries : e \in Entry /\ e.key = None
  BY DEF AccountInv, TypeInv, ProductionTypeOK, KeyInv, KeysAreReadable
<1>. QED
  BY <1>1, NoneIsNoCommand DEF Entry

(* No history of a disturbance is ever forgotten.                          *)
LEMMA DisturbedStays ==
  ASSUME NEW p \in Command, CommandRuns(p)
  PROVE  /\ overlapped => overlapped'
         /\ unwritten => unwritten'
         /\ mixed => mixed'
         /\ signOut' = signOut
<1>1. Runs(p) /\ (mixed => mixed') /\ signOut' = signOut
  BY DEF CommandRuns
<1> USE DEF historyVars
<1>2. ASSUME Start(p) \/ WriteFails(p)
      PROVE  (overlapped => overlapped') /\ (unwritten => unwritten')
  <2>1. CASE Start(p)
    <3>1. overlapped' = (overlapped \/ Running # {}) /\ unwritten' = unwritten
      BY <2>1 DEF Start
    <3>. QED
      BY <3>1, Zenon
  <2>2. CASE WriteFails(p)
    <3>1. overlapped' = overlapped /\ unwritten' = TRUE
      BY <2>2 DEF WriteFails
    <3>. QED
      BY <3>1, Zenon
  <2>. QED
    BY <1>2, <2>1, <2>2
<1>3. Start(p) \/ WriteFails(p) \/ UNCHANGED <<overlapped, unwritten>>
  <2>1. CASE GetKey(p) \/ SetKey(p) \/ LoadKeystore(p) \/ GetHardware(p) \/ GetSession(p)
    BY <2>1 DEF GetKey, SetKey, LoadKeystore, GetHardware, GetSession
  <2>2. CASE Reconnect(p) \/ Register(p) \/ TruncateKeystore(p) \/ WriteKeystore(p)
    BY <2>2 DEF Reconnect, Register, TruncateKeystore, WriteKeystore
  <2>3. CASE Operate(p) \/ SetSession(p) \/ SetHardware(p) \/ Stop(p)
    BY <2>3 DEF Operate, SetSession, SetHardware, Stop
  <2>. QED
    BY <1>1, <2>1, <2>2, <2>3 DEF Runs
<1>. QED
  BY <1>1, <1>2, <1>3

(* The steps of a command that runs alone.                                 *)
LEMMA AloneStep ==
  ASSUME AccountInv, UsableInv, NEW p \in Command, CommandRuns(p),
         ~overlapped', ~mixed', ~unwritten'
  PROVE  /\ ~SigningOut
         /\ \A q \in Running' : q = p
         /\ SetupCompleted' /\ signOut' = "idle" => hardware'
         /\ hardware' => Saved(session)'
         /\ p \in Running' => UndisturbedCommand(p)'
<1>1. /\ Runs(p) /\ signOut' = signOut
      /\ ~overlapped /\ ~mixed /\ ~unwritten
  BY DisturbedStays DEF CommandRuns
<1>2. /\ TypeInv /\ KeyInv /\ Alone /\ WorksWithKey /\ KeysAreReadable
      /\ hardware => session # None
  BY <1>1 DEF AccountInv, KeyInv, SessionInv
<1>3. /\ SigningOut => Running = {}
      /\ SetupCompleted /\ signOut = "idle" => hardware
      /\ hardware => Saved(session)
      /\ p \in Running => UndisturbedCommand(p)
  BY <1>1 DEF UsableInv
<1>4. p \in Setup => p \notin Use
  BY CommandAssumption
<1>5. pc \in [Command -> Places] /\ \A q \in Command \ {p} : pc'[q] = pc[q]
  BY <1>1, <1>2, OneCommandMoves DEF TypeInv, ProductionTypeOK
<1> DEFINE Goal == /\ ~SigningOut
                   /\ \A q \in Running' : q = p
                   /\ SetupCompleted' /\ signOut' = "idle" => hardware'
                   /\ hardware' => Saved(session)'
                   /\ p \in Running' => UndisturbedCommand(p)'
<1>6. CASE Start(p)
  <2>1. /\ Running = {} /\ ~SigningOut
        /\ pc[p] = "idle" /\ pc'[p] = "getKey"
        /\ UNCHANGED <<keystoreKey, session, hardware, file>>
    BY <1>1, <1>5, <1>6 DEF Start, Move, CommandRuns, secretVars
  <2>2. \A q \in Running' : q = p
    BY <1>5, <2>1 DEF Running
  <2>3. SetupCompleted' => SetupCompleted
    BY <1>5, <2>1 DEF SetupCompleted, Command
  <2>4. Saved(session)' = Saved(session) /\ UndisturbedCommand(p)'
    BY <2>1 DEF Saved, UndisturbedCommand
  <2>. QED
    BY <1>1, <1>3, <2>1, <2>2, <2>3, <2>4
<1>7. ASSUME pc[p] \notin Ended PROVE ~SigningOut /\ \A q \in Running' : q = p
  <2>1. p \in Running
    BY <1>7 DEF Running
  <2>2. \A q \in Running : q = p
    BY <1>2, <2>1 DEF Alone
  <2>. QED
    BY <1>3, <1>5, <2>1, <2>2 DEF Running
<1> USE DEF Running, Ended, SetupCompleted, Saved, UndisturbedCommand, TypeInv,
            ProductionTypeOK, WorksWithKey, Move, secretVars, localVars, historyVars
<1> HIDE DEF SigningOut
<1>8. CASE GetKey(p)
  BY <1>1, <1>2, <1>3, <1>5, <1>7, <1>8 DEF GetKey
<1>9. CASE SetKey(p)
  <2>1. file.entries = {}
    BY <1>1, <1>2, <1>9, NoKeyNoEntries DEF SetKey
  <2>2. ~hardware
    BY <1>3, <2>1
  <2>. QED
    BY <1>1, <1>2, <1>3, <1>5, <1>7, <1>9, <2>2 DEF SetKey
<1>10. CASE LoadKeystore(p)
  BY <1>1, <1>2, <1>3, <1>5, <1>7, <1>10 DEF LoadKeystore
<1>11. CASE GetHardware(p)
  BY <1>1, <1>2, <1>3, <1>5, <1>7, <1>11 DEF GetHardware
<1>12. CASE GetSession(p)
  BY <1>1, <1>2, <1>3, <1>5, <1>7, <1>12 DEF GetSession
<1>13. CASE Reconnect(p)
  BY <1>1, <1>2, <1>3, <1>5, <1>7, <1>13 DEF Reconnect
<1>14. CASE Register(p)
  BY <1>1, <1>2, <1>3, <1>5, <1>7, <1>14 DEF Register
<1>15. CASE TruncateKeystore(p)
  BY <1>1, <1>2, <1>3, <1>5, <1>7, <1>15 DEF TruncateKeystore
<1>16. CASE WriteKeystore(p)
  BY <1>1, <1>2, <1>3, <1>5, <1>7, <1>16, NoneIsNoCommand DEF WriteKeystore
<1>17. CASE WriteFails(p)
  BY <1>17 DEF WriteFails
<1>18. CASE Operate(p)
  BY <1>1, <1>2, <1>3, <1>5, <1>7, <1>18 DEF Operate
<1>19. CASE SetSession(p)
  BY <1>1, <1>2, <1>3, <1>4, <1>5, <1>7, <1>19 DEF SetSession
<1>20. CASE SetHardware(p)
  BY <1>1, <1>2, <1>3, <1>5, <1>7, <1>20 DEF SetHardware
<1>21. CASE Stop(p)
  BY <1>1, <1>2, <1>3, <1>5, <1>7, <1>21 DEF Stop
<1>. QED
  BY <1>1, <1>6, <1>8, <1>9, <1>10, <1>11, <1>12, <1>13, <1>14, <1>15, <1>16, <1>17, <1>18,
     <1>19, <1>20, <1>21 DEF Runs

(* Every step keeps the account usable.                                    *)
LEMMA UsableStep == AccountInv /\ UsableInv /\ [SignOutNext]_accountVars => UsableInv'
<1> SUFFICES ASSUME AccountInv, UsableInv, [SignOutNext]_accountVars,
                    ~overlapped', ~mixed', ~unwritten'
             PROVE  UsableInv'
  BY DEF UsableInv
<1>1. ASSUME NEW p \in Command, CommandRuns(p) PROVE UsableInv'
  <2>1. /\ ~SigningOut /\ signOut' = signOut
        /\ \A q \in Running' : q = p
        /\ SetupCompleted' /\ signOut' = "idle" => hardware'
        /\ hardware' => Saved(session)'
        /\ p \in Running' => UndisturbedCommand(p)'
    BY <1>1, AloneStep, DisturbedStays
  <2>2. \A q \in Running' : UndisturbedCommand(q)'
    BY <2>1
  <2>3. ~SigningOut' /\ signOut' \notin {"data", "cache"}
    BY <2>1 DEF SigningOut
  <2>. QED
    BY <2>1, <2>2, <2>3 DEF UsableInv
<1> USE DEF MoveOn, UsableInv, SigningOut, SetupCompleted, Running, Saved, UndisturbedCommand,
            productionVars, secretVars, localVars, historyVars
<1>2. CASE BeginSignOut
  BY <1>2 DEF BeginSignOut
<1>3. CASE DeleteApple
  BY <1>3 DEF DeleteApple
<1>4. CASE DeleteHardware
  BY <1>4 DEF DeleteHardware
<1>5. CASE PurgeData
  BY <1>5 DEF PurgeData
<1>6. CASE PurgeCache
  BY <1>6 DEF PurgeCache
<1>7. CASE StopSignOut
  BY <1>7 DEF StopSignOut
<1>8. CASE UNCHANGED accountVars
  BY <1>8 DEF accountVars, signOutVars
<1>. QED
  BY <1>1, <1>2, <1>3, <1>4, <1>5, <1>6, <1>7, <1>8 DEF SignOutNext, SignOutStep

(* However many setups were killed, and wherever, before one completed, and *)
(* wherever signing out stopped: what send and listen read after the        *)
(* hardware payload is there, as main.rs:109 tells the user.                *)
THEOREM AccountAlwaysUsable == SignOutSpec => []AccountIsUsable
<1>1. SignOutInit => AccountInv /\ UsableInv
  <2> SUFFICES ASSUME SignOutInit PROVE AccountInv /\ UsableInv
    OBVIOUS
  <2>1. AccountInv
    BY InitAccount DEF SignOutInit
  <2>2. UsableInv
    BY CommandAssumption DEF SignOutInit, ProductionInit, UsableInv, SigningOut, SetupCompleted,
       Running, Ended, Command
  <2>. QED
    BY <2>1, <2>2
<1>2. UsableInv => AccountIsUsable
  BY DEF UsableInv, AccountIsUsable, Saved, Usable
<1>. QED
  BY <1>1, <1>2, AccountStep, UsableStep, PTL DEF SignOutSpec
=============================================================================
