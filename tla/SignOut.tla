-------------------------------- MODULE SignOut --------------------------------
(***************************************************************************)
(* Signing an account out (crates/storage/src/state.rs:662-695) beside the *)
(* production commands of ProductionSession: two secrets are deleted and   *)
(* then the data and the cache directory are removed, each in a step after *)
(* which the process may stop or an error end it.  No command of           *)
(* litebubblesd signs out yet; the library offers it.                      *)
(*                                                                         *)
(* The keystore file is in the data directory, which every command makes   *)
(* if it is missing; a command that has the file open when the directory   *)
(* goes writes into nothing.  The secrets are those of SecretStore, whose  *)
(* operations are atomic.                                                  *)
(***************************************************************************)
EXTENDS ProductionSession

VARIABLES
  signOut,      \* what signing out does next
  directories,  \* "data" and "cache", those that are there
  orphaned,     \* commands whose open keystore file was removed
  mixed         \* history: a command ran while the account was signed out

signOutVars == <<signOut, directories, orphaned, mixed>>
accountVars == <<productionVars, signOutVars>>

SignOutPlaces == {"idle", "apple", "hardware", "data", "cache", "done", "stopped"}
SigningOut == signOut \notin {"idle", "done", "stopped"}

SignOutTypeOK ==
  /\ ProductionTypeOK
  /\ signOut \in SignOutPlaces
  /\ directories \subseteq {"data", "cache"}
  /\ orphaned \subseteq {p \in Command : pc[p] = "write"}
  /\ mixed \in BOOLEAN
  /\ \A p \in Command : pc[p] = "write" => "data" \in directories \/ p \in orphaned

SignOutInit ==
  /\ ProductionInit
  /\ signOut = "idle" /\ directories = {} /\ orphaned = {} /\ mixed = FALSE

-----------------------------------------------------------------------------
(* A command begins by making both directories, makes the first again on   *)
(* the way to the keystore and needs it to open the file.                  *)
CommandRuns(p) ==
  /\ Runs(p)
  /\ pc[p] = "open" /\ pc'[p] = "write" => "data" \in directories
  /\ p \in orphaned => ~WriteKeystore(p)
  /\ directories' = directories \union
       CASE pc[p] = "idle" -> {"data", "cache"}
         [] pc[p] = "load" /\ pc'[p] # "stopped" -> {"data"}
         [] OTHER -> {}
  /\ orphaned' = orphaned \ {p}
  /\ mixed' = (mixed \/ (pc[p] = "idle" /\ SigningOut))
  /\ UNCHANGED signOut

-----------------------------------------------------------------------------
(* sign_out_account                                                        *)

MoveOn(from, to) == signOut = from /\ signOut' = to

BeginSignOut ==
  /\ MoveOn("idle", "apple")
  /\ mixed' = (mixed \/ Running # {})
  /\ UNCHANGED <<productionVars, directories, orphaned>>

(* The secret "apple", which no command sets.                              *)
DeleteApple ==
  /\ MoveOn("apple", "hardware")
  /\ UNCHANGED <<productionVars, directories, orphaned, mixed>>

Bug_HardwareIsKept ==
  /\ MoveOn("hardware", "data")
  /\ UNCHANGED <<productionVars, directories, orphaned, mixed>>

DeleteHardware ==
  /\ MoveOn("hardware", "data")
  /\ hardware' = FALSE
  /\ UNCHANGED <<keystoreKey, session, file, pc, localVars, historyVars>>
  /\ UNCHANGED <<directories, orphaned, mixed>>

(* The data directory with the keystore file goes, or an error ends the    *)
(* removal when the file is gone and the directory is not.                 *)
PurgeData ==
  /\ \/ MoveOn("data", "cache") /\ directories' = directories \ {"data"}
     \/ MoveOn("data", "stopped") /\ UNCHANGED directories
  /\ file' = [readable |-> TRUE, entries |-> {}]
  /\ orphaned' = {p \in Command : pc[p] = "write"}
  /\ UNCHANGED <<secretVars, pc, localVars, historyVars, mixed>>

PurgeCache ==
  /\ MoveOn("cache", "done")
  /\ directories' = directories \ {"cache"}
  /\ UNCHANGED <<productionVars, orphaned, mixed>>

(* An error of the Secret Service or of the file system, or a kill.        *)
StopSignOut ==
  /\ SigningOut
  /\ signOut' = "stopped"
  /\ UNCHANGED <<productionVars, directories, orphaned, mixed>>

SignOutStep ==
  \/ BeginSignOut \/ DeleteApple \/ DeleteHardware \/ PurgeData \/ PurgeCache \/ StopSignOut

SignOutNext == SignOutStep \/ \E p \in Command : CommandRuns(p)

SignOutSpec == SignOutInit /\ [][SignOutNext]_accountVars

-----------------------------------------------------------------------------
Usable ==
  /\ session # None /\ hardware
  /\ file.readable
  /\ [registration |-> session, key |-> keystoreKey] \in file.entries

SetupCompleted == \E p \in Setup : pc[p] = "completed"

(* main.rs:109 "Apple setup completed. The daemon can now use this local   *)
(* session.": after a completed setup the next command finds all it needs, *)
(* wherever this setup, those before and the commands since were killed,   *)
(* if they ran one by one and the file system lost no write.  (When it     *)
(* does, update_state tells nobody, and the setup completes all the same.) *)
(* And as long as the hardware payload is there, signing out, which may    *)
(* stop anywhere, has not taken what send and listen need besides.         *)
AccountIsUsable ==
  /\ Running = {} /\ ~overlapped /\ ~mixed /\ ~unwritten
  /\ hardware \/ (SetupCompleted /\ signOut = "idle")
  => Usable

(* state.rs:662-663 "Sign out and remove both Apple credentials and the    *)
(* matching hardware activation payload.": when signing out ends, alone,   *)
(* neither the session nor the payload is left.                            *)
SignOutRemovesCredentials ==
  [][ signOut # "done" /\ signOut' = "done" /\ ~mixed
        => session' = None /\ ~hardware' ]_accountVars
=============================================================================
