--------------------------- MODULE ProductionSession ---------------------------
(***************************************************************************)
(* The setup, send and listen commands of litebubblesd for one Apple       *)
(* account (crates/daemon/src/lib.rs:72-247) and what they keep between    *)
(* runs: three items of the desktop's Secret Service, and the keystore     *)
(* file of rustpush (crates/rustpush-backend/src/live.rs:375-414).         *)
(*                                                                         *)
(* Every command is a process.  It ends a step at each call of the Secret  *)
(* Service, of Apple's services or of the file system, may be killed       *)
(* between any two, and may run while others do.  rustpush is external: a  *)
(* registration makes key material, which it encrypts with the keystore    *)
(* key and keeps in the keystore; a session is of use only with it.        *)
(***************************************************************************)
EXTENDS FiniteSets

CONSTANTS
  Setup, Use,   \* the setup commands, and the send and listen commands
  None          \* no secret, no session

Command == Setup \union Use

ASSUME CommandAssumption == Setup \intersect Use = {} /\ None \notin Command

VARIABLES
  keystoreKey,  \* secret rustpush-keystore: the command that made it
  session,      \* secret apple-session: the command whose registration it is
  hardware,     \* secret apple-hardware: whether it is there
  file,         \* keystore.plist: whether it can be read, and its entries
  pc,
  key,          \* the keystore key a command works with
  entries,      \* the keystore a command has in memory
  held,         \* the session it will save
  overlapped,   \* history: a command was started while another ran
  unwritten     \* history: an error of the file system lost a write of the keystore

secretVars == <<keystoreKey, session, hardware>>
localVars == <<key, entries, held>>
historyVars == <<overlapped, unwritten>>
productionVars == <<secretVars, file, pc, localVars, historyVars>>

Places == {"idle", "getKey", "setKey", "load", "getHardware", "getSession", "connect",
           "open", "write", "operate", "setSession", "setHardware", "completed",
           "MissingHardware", "MissingSession", "stopped"}
Ended == {"idle", "completed", "MissingHardware", "MissingSession", "stopped"}

(* Key material is known by its registration and the key it is under.      *)
Entry == [registration : Command, key : Command]

ProductionTypeOK ==
  /\ keystoreKey \in Command \union {None}
  /\ session \in Command \union {None}
  /\ hardware \in BOOLEAN
  /\ file \in [readable : BOOLEAN, entries : SUBSET Entry]
  /\ pc \in [Command -> Places]
  /\ key \in [Command -> Command \union {None}]
  /\ entries \in [Command -> SUBSET Entry]
  /\ held \in [Command -> Command \union {None}]
  /\ overlapped \in BOOLEAN /\ unwritten \in BOOLEAN

(* A file that is not there reads as an empty keystore.                    *)
ProductionInit ==
  /\ keystoreKey = None /\ session = None /\ hardware = FALSE
  /\ file = [readable |-> TRUE, entries |-> {}]
  /\ pc = [p \in Command |-> "idle"]
  /\ key = [p \in Command |-> None]
  /\ entries = [p \in Command |-> {}]
  /\ held = [p \in Command |-> None]
  /\ overlapped = FALSE /\ unwritten = FALSE

Move(p, from, to) == pc[p] = from /\ pc' = [pc EXCEPT ![p] = to]
Running == {p \in Command : pc[p] \notin Ended}

-----------------------------------------------------------------------------
(* prepare_production_state                                                *)

Start(p) ==
  /\ Move(p, "idle", "getKey")
  /\ overlapped' = (overlapped \/ Running # {})
  /\ UNCHANGED <<secretVars, file, localVars, unwritten>>

Bug_KeyIsAlwaysNew(p) ==
  /\ Move(p, "getKey", "setKey")
  /\ UNCHANGED <<secretVars, file, localVars, historyVars>>

(* ensure_keystore_key: the key of an earlier command, or a new one.       *)
GetKey(p) ==
  /\ Move(p, "getKey", IF keystoreKey = None THEN "setKey" ELSE "load")
  /\ key' = [key EXCEPT ![p] = keystoreKey]
  /\ UNCHANGED <<secretVars, file, entries, held, historyVars>>

Bug_KeyIsNotReturned(p) ==
  /\ Move(p, "setKey", "load")
  /\ keystoreKey' = p
  /\ UNCHANGED <<session, hardware, file, localVars, historyVars>>

SetKey(p) ==
  /\ Move(p, "setKey", "load")
  /\ keystoreKey' = p
  /\ key' = [key EXCEPT ![p] = p]
  /\ UNCHANGED <<session, hardware, file, entries, held, historyVars>>

(* initialize_local_keystore reads the file once; a file that was cut      *)
(* short does not parse and ends the command.                              *)
LoadKeystore(p) ==
  /\ file.readable
  /\ Move(p, "load", IF p \in Setup THEN "getSession" ELSE "getHardware")
  /\ entries' = [entries EXCEPT ![p] = file.entries]
  /\ UNCHANGED <<secretVars, file, key, held, historyVars>>

-----------------------------------------------------------------------------
(* run_production_setup and load_live_session                              *)

GetHardware(p) ==
  /\ Move(p, "getHardware", IF hardware THEN "getSession" ELSE "MissingHardware")
  /\ UNCHANGED <<secretVars, file, localVars, historyVars>>

GetSession(p) ==
  /\ Move(p, "getSession", IF p \in Use /\ session = None THEN "MissingSession" ELSE "connect")
  /\ held' = [held EXCEPT ![p] = session]
  /\ UNCHANGED <<secretVars, file, key, entries, historyVars>>

(* LiveSession::connect with a saved session, whose key material must be   *)
(* readable with the key at hand.                                          *)
Reconnect(p) ==
  /\ held[p] # None
  /\ [registration |-> held[p], key |-> key[p]] \in entries[p]
  /\ Move(p, "connect", IF p \in Setup THEN "setSession" ELSE "operate")
  /\ UNCHANGED <<secretVars, file, localVars, historyVars>>

(* LiveSession::connect without one registers, and the keystore is to be   *)
(* rewritten with the new key material.                                    *)
Register(p) ==
  /\ held[p] = None
  /\ Move(p, "connect", "open")
  /\ entries' = [entries EXCEPT ![p] = @ \union {[registration |-> p, key |-> key[p]]}]
  /\ held' = [held EXCEPT ![p] = p]
  /\ UNCHANGED <<secretVars, file, key, historyVars>>

(* update_state: the file is truncated, and then written in place.         *)
TruncateKeystore(p) ==
  /\ Move(p, "open", "write")
  /\ file' = [readable |-> FALSE, entries |-> {}]
  /\ UNCHANGED <<secretVars, localVars, historyVars>>

WriteKeystore(p) ==
  /\ Move(p, "write", "setSession")
  /\ file' = [readable |-> TRUE, entries |-> entries[p]]
  /\ UNCHANGED <<secretVars, localVars, historyVars>>

(* It returns nothing: an error of the file system is lost, and the file   *)
(* stays as it was or cut short.                                           *)
WriteFails(p) ==
  /\ pc[p] \in {"open", "write"}
  /\ pc' = [pc EXCEPT ![p] = "setSession"]
  /\ unwritten' = TRUE
  /\ UNCHANGED <<secretVars, file, localVars, overlapped>>

(* send_text or wait_for_message                                           *)
Operate(p) ==
  /\ Move(p, "operate", "setSession")
  /\ UNCHANGED <<secretVars, file, localVars, historyVars>>

Bug_HardwareFirst(p) ==
  /\ pc[p] = "setSession"
  /\ IF p \in Setup /\ ~hardware
       THEN hardware' = TRUE /\ UNCHANGED <<pc, session>>
       ELSE /\ pc' = [pc EXCEPT ![p] = IF p \in Setup THEN "setHardware" ELSE "completed"]
            /\ session' = held[p]
            /\ UNCHANGED hardware
  /\ UNCHANGED <<keystoreKey, file, localVars, historyVars>>

SetSession(p) ==
  /\ Move(p, "setSession", IF p \in Setup THEN "setHardware" ELSE "completed")
  /\ session' = held[p]
  /\ UNCHANGED <<keystoreKey, hardware, file, localVars, historyVars>>

SetHardware(p) ==
  /\ Move(p, "setHardware", "completed")
  /\ hardware' = TRUE
  /\ UNCHANGED <<keystoreKey, session, file, localVars, historyVars>>

(* An error of the Secret Service, of Apple's services or of the file, or  *)
(* the end of the process.                                                 *)
Stop(p) ==
  /\ p \in Running
  /\ pc' = [pc EXCEPT ![p] = "stopped"]
  /\ UNCHANGED <<secretVars, file, localVars, historyVars>>

-----------------------------------------------------------------------------
Runs(p) ==
  \/ Start(p) \/ GetKey(p) \/ SetKey(p) \/ LoadKeystore(p)
  \/ GetHardware(p) \/ GetSession(p) \/ Reconnect(p) \/ Register(p)
  \/ TruncateKeystore(p) \/ WriteKeystore(p) \/ WriteFails(p) \/ Operate(p)
  \/ SetSession(p) \/ SetHardware(p) \/ Stop(p)

ProductionNext == \E p \in Command : Runs(p)

ProductionSpec == ProductionInit /\ [][ProductionNext]_productionVars

-----------------------------------------------------------------------------
(* What is in the keystore, in the file or in the memory of a command, is  *)
(* under the key that the Secret Service has, however the commands before  *)
(* ended: as long as commands run one by one (lib.rs:95-112 is no atomic   *)
(* step), none of them makes a second key.                                 *)
KeysAreReadable ==
  ~overlapped =>
    /\ \A e \in file.entries : e.key = keystoreKey
    /\ \A p \in Running : \A e \in entries[p] : e.key = keystoreKey

(* send and listen ask for the hardware first and setup saves it last      *)
(* (lib.rs:166-178, 186-197), so a setup that was interrupted shows as     *)
(* missing hardware and never as a missing session, even to a command that *)
(* runs beside it.                                                         *)
SessionIsNeverMissing == \A p \in Use : pc[p] # "MissingSession"
=============================================================================
