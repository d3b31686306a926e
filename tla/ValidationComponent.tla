-------------------------- MODULE ValidationComponent --------------------------
(***************************************************************************)
(* The directory of the validation component as the install and remove     *)
(* commands of litebubbles-validation-component leave it                   *)
(* (crates/validation-provider/src/lib.rs:775-884).  Commands run side by  *)
(* side and may be killed.  An install fills a temporary directory of its  *)
(* own and renames it to the component; an archive is good or it is not.    *)
(*                                                                         *)
(* The file system is external: a directory can be renamed to a name that  *)
(* is free or to an empty directory, and removing a directory tree unlinks *)
(* its files one by one before the directory itself.                       *)
(***************************************************************************)
EXTENDS FiniteSets

CONSTANTS Installer, Remover

ASSUME CommandsAreDistinct == Installer \intersect Remover = {}

VARIABLES
  component,   \* the directory at the component's name, and the files it has
  temporary,   \* installers whose temporary directory is on disk
  command,     \* where each command is
  opened       \* the directory a remover removes, known by its installer

componentVars == <<component, temporary, command, opened>>

Absent == [by |-> {}, files |-> "none"]
Whole(p) == [by |-> {p}, files |-> "all"]

Outcomes == {"installed", "removed", "nothing", "refused", "failed", "killed"}
CommandPlaces == {"idle", "filling", "kept", "unlinking", "rmdir"} \union Outcomes

ComponentTypeOK ==
  /\ component \in [by : {{}} \union {{p} : p \in Installer}, files : {"none", "some", "all"}]
  /\ temporary \subseteq Installer
  /\ command \in [Installer \union Remover -> CommandPlaces]
  /\ opened \in [Remover -> {{}} \union {{p} : p \in Installer}]

ComponentInit ==
  /\ component = Absent
  /\ temporary = {}
  /\ command = [p \in Installer \union Remover |-> "idle"]
  /\ opened = [p \in Remover |-> {}]

Advance(p, from, to) == command[p] = from /\ command' = [command EXCEPT ![p] = to]

-----------------------------------------------------------------------------
(* install_official_artifact                                               *)

Bug_FillInPlace(p) ==
  /\ component = Absent
  /\ Advance(p, "idle", "filling")
  /\ component' = [by |-> {p}, files |-> "some"]
  /\ UNCHANGED <<temporary, opened>>

(* An archive that cannot be read, that has an unsafe path, no library or  *)
(* two, or a library that is too long or not the expected one.             *)
RejectArchive(p) ==
  /\ Advance(p, "idle", "failed")
  /\ UNCHANGED <<component, temporary, opened>>

(* The name must be free before anything is written.                       *)
BeginInstall(p) ==
  /\ component = Absent
  /\ Advance(p, "idle", "filling")
  /\ temporary' = temporary \union {p}
  /\ UNCHANGED <<component, opened>>

RefuseInstall(p) ==
  /\ component # Absent
  /\ Advance(p, "idle", "refused")
  /\ UNCHANGED <<component, temporary, opened>>

(* Library, material and manifest are written and synced.                  *)
FillTemporary(p) ==
  /\ Advance(p, "filling", "kept")
  /\ UNCHANGED <<component, temporary, opened>>

(* An error before keep() takes the temporary directory with it.           *)
FillFails(p) ==
  /\ Advance(p, "filling", "failed")
  /\ temporary' = temporary \ {p}
  /\ UNCHANGED <<component, opened>>

RenameToComponent(p) ==
  /\ component.files = "none"
  /\ Advance(p, "kept", "installed")
  /\ component' = Whole(p)
  /\ temporary' = temporary \ {p}
  /\ UNCHANGED opened

(* A directory that is not empty is in the way, or any other error: after  *)
(* keep() nobody removes the temporary directory.                          *)
RenameFails(p) ==
  /\ Advance(p, "kept", "failed")
  /\ UNCHANGED <<component, temporary, opened>>

-----------------------------------------------------------------------------
(* remove_installed_component                                              *)

RemoveNothing(p) ==
  /\ component = Absent
  /\ Advance(p, "idle", "nothing")
  /\ UNCHANGED <<component, temporary, opened>>

BeginRemove(p) ==
  /\ component # Absent
  /\ Advance(p, "idle", "unlinking")
  /\ opened' = [opened EXCEPT ![p] = component.by]
  /\ UNCHANGED <<component, temporary>>

(* Files go one by one, those of the directory that was opened.            *)
UnlinkSome(p) ==
  /\ command[p] = "unlinking"
  /\ component.by = opened[p] /\ component.files = "all"
  /\ component' = [by |-> opened[p], files |-> "some"]
  /\ UNCHANGED <<temporary, command, opened>>

UnlinkLast(p) ==
  /\ component.by = opened[p] => component.files # "all"
  /\ Advance(p, "unlinking", "rmdir")
  /\ component' = IF component.by = opened[p] THEN [by |-> opened[p], files |-> "none"] ELSE component
  /\ UNCHANGED <<temporary, opened>>

(* The directory itself goes by its name, if it is there and empty.        *)
RemoveDirectory(p) ==
  /\ component # Absent /\ component.files = "none"
  /\ Advance(p, "rmdir", "removed")
  /\ component' = Absent
  /\ UNCHANGED <<temporary, opened>>

RemoveFails(p) ==
  /\ Advance(p, "unlinking", "failed") \/ Advance(p, "rmdir", "failed")
  /\ UNCHANGED <<component, temporary, opened>>

-----------------------------------------------------------------------------
KillCommand(p) ==
  /\ command[p] \notin {"idle"} \union Outcomes
  /\ command' = [command EXCEPT ![p] = "killed"]
  /\ UNCHANGED <<component, temporary, opened>>

ComponentNext ==
  \/ \E p \in Installer :
       \/ RejectArchive(p) \/ BeginInstall(p) \/ RefuseInstall(p)
       \/ FillTemporary(p) \/ FillFails(p)
       \/ RenameToComponent(p) \/ RenameFails(p)
  \/ \E p \in Remover :
       \/ RemoveNothing(p) \/ BeginRemove(p) \/ UnlinkSome(p) \/ UnlinkLast(p)
       \/ RemoveDirectory(p) \/ RemoveFails(p)
  \/ \E p \in Installer \union Remover : KillCommand(p)

-----------------------------------------------------------------------------
(* Until someone begins to remove it, the component is all there or not at *)
(* all, wherever installers were killed, and it is the one that the single *)
(* installer that reported success had written (lib.rs:823-868).           *)
InstalledIsWhole ==
  (\A p \in Remover : command[p] \in {"idle", "nothing"}) =>
    /\ component = Absent \/ \E p \in Installer : component = Whole(p)
    /\ \A p \in Installer : command[p] = "installed" => component = Whole(p)
=============================================================================
