---------------------------- MODULE UpdateInstall ----------------------------
(***************************************************************************)
(* Replacing the installed application (updater/src/main.rs):              *)
(* install_linux_archive and install_dmg move the old application to a     *)
(* backup, the new one in its place and the links to it into place, and    *)
(* undo that when a step fails.  Any step may fail, and the updater may    *)
(* die at any moment.                                                      *)
(*                                                                         *)
(* Releases are numbered as they are installed.  What is staged aside has  *)
(* the installer's process id in its name and is in nobody's way; so is    *)
(* the macOS backup of an older naming, left out.  One installer runs at a *)
(* time.                                                                   *)
(***************************************************************************)
EXTENDS Naturals

CONSTANTS
  hh, Entries, \* links to the application: `hh`, on Linux also menu and icon
  MaxInstalls, \* bound: installations begun
  Absent, Broken

ASSUME MarksAssumption == {Absent, Broken} \cap Nat = {}

VARIABLES
  platform,    \* "linux" or "macos": which installer runs
  app, backup, \* a release, Absent, or Broken: some of its files are gone
  links,       \* links that are there
  install,     \* the installation under way, or how the last one ended
  installs,    \* installations begun, and the release the last one brings
  lone         \* history: it began without an application to go back to

vars == <<platform, app, backup, links, install, installs, lone>>

Links == IF platform = "linux" THEN {hh} \cup Entries ELSE {hh}

Whole(a) == a \in Nat

Ends == {"none", "updated", "failed", "restoreFailed", "died"}
Steps(p) ==
  IF p = "linux"
  THEN [begin |-> "check", check |-> "dropBackup", dropBackup |-> "prepare",
        prepare |-> "moveOld"]
  ELSE [begin |-> "prepare", prepare |-> "check", check |-> "dropBackup",
        dropBackup |-> "moveOld"]
After(step) == Steps(platform)[step]

At(step) == install.at = step
Goes(step) == install' = [install EXCEPT !.at = step]

Init ==
  /\ platform \in {"linux", "macos"}
  /\ app \in {Absent, 0} /\ backup = Absent /\ links \in SUBSET Links
  /\ install = [at |-> "none", app |-> app, backup |-> backup, links |-> links,
                oldMoved |-> FALSE, newIn |-> FALSE, due |-> {}, jammed |-> FALSE]
  /\ installs = 0
  /\ lone = (app = Absent)

(***************************************************************************)
(* Up to the first change                                                  *)
(***************************************************************************)
Begins ==
  /\ install.at \in Ends /\ installs < MaxInstalls
  /\ installs' = installs + 1
  /\ install' = [at |-> After("begin"), app |-> app, backup |-> backup, links |-> links,
                 oldMoved |-> FALSE, newIn |-> FALSE, due |-> Links, jammed |-> FALSE]
  /\ lone' = IF app = Broken THEN lone ELSE app = Absent
  /\ UNCHANGED <<platform, app, backup, links>>

\* The installed application and the backup are validated, if they are there.
Checks ==
  /\ At("check") /\ app # Broken /\ backup # Broken
  /\ Goes(After("check"))
  /\ UNCHANGED <<platform, app, backup, links, installs, lone>>

\* The new release is unpacked or copied aside and validated; the service
\* stops, or does not mind.
Prepares ==
  /\ At("prepare")
  /\ Goes(After("prepare"))
  /\ UNCHANGED <<platform, app, backup, links, installs, lone>>

DropsBackup ==
  /\ At("dropBackup")
  /\ backup' = Absent
  /\ Goes(After("dropBackup"))
  /\ UNCHANGED <<platform, app, links, installs, lone>>

\* Any of these fails; removing the backup may fail half way.
Refuses ==
  /\ install.at \in {"check", "prepare", "dropBackup"}
  /\ backup' \in IF At("dropBackup") /\ backup # Absent THEN {backup, Broken} ELSE {backup}
  /\ Goes("failed")
  /\ UNCHANGED <<platform, app, links, installs, lone>>

(***************************************************************************)
(* The exchange                                                            *)
(***************************************************************************)
\* Without noting that there is an application to move back.
MovesOldUnnoticed ==
  /\ At("moveOld")
  /\ IF app = Absent THEN UNCHANGED <<app, backup>> ELSE app' = Absent /\ backup' = app
  /\ Goes("moveNew")
  /\ UNCHANGED <<platform, links, installs, lone>>

MovesOld ==
  /\ At("moveOld")
  /\ IF app = Absent THEN UNCHANGED <<app, backup>> ELSE app' = Absent /\ backup' = app
  /\ install' = [install EXCEPT !.at = "moveNew", !.oldMoved = app # Absent]
  /\ UNCHANGED <<platform, links, installs, lone>>

MovesNew ==
  /\ At("moveNew")
  /\ app' = installs
  /\ install' = [install EXCEPT !.at = "link", !.newIn = TRUE]
  /\ UNCHANGED <<platform, backup, links, installs, lone>>

\* macOS removes the old link first; Linux renames the new one over it.
DropsLink(l) ==
  /\ At("link") /\ platform = "macos" /\ l \in links \cap install.due
  /\ links' = links \ {l}
  /\ UNCHANGED <<platform, app, backup, install, installs, lone>>

PlacesLink(l) ==
  /\ At("link") /\ l \in install.due /\ (platform = "macos" => l \notin links)
  /\ links' = links \cup {l}
  /\ install' = [install EXCEPT !.due = @ \ {l}]
  /\ UNCHANGED <<platform, app, backup, installs, lone>>

\* The application and its links are validated; Linux starts it, too.
Finishes ==
  /\ At("link") /\ install.due = {}
  /\ Goes("updated")
  /\ UNCHANGED <<platform, app, backup, links, installs, lone>>

ExchangeFails ==
  /\ install.at \in {"moveOld", "moveNew", "link"}
  /\ Goes("dropNew")
  /\ UNCHANGED <<platform, app, backup, links, installs, lone>>

(***************************************************************************)
(* Undoing it                                                              *)
(***************************************************************************)
\* Linux removes the links that were not there before, and goes on when it
\* cannot; then the old application is moved back.  macOS is the other way
\* round and gives up at the first failure.
AfterDropNew  == IF platform = "linux" THEN "unlink" ELSE "restore"
AfterRestore  == IF platform = "linux" THEN "failed" ELSE "unlink"
AfterUnlink   == IF platform = "linux" THEN "restore" ELSE "relink"
Fresh         == IF platform = "linux" THEN links \ install.links ELSE links

DropsNew ==
  /\ At("dropNew")
  /\ app' = IF install.newIn THEN Absent ELSE app
  /\ Goes(AfterDropNew)
  /\ UNCHANGED <<platform, backup, links, installs, lone>>

DropNewFails ==
  /\ At("dropNew") /\ install.newIn
  /\ app' \in {app, Broken}
  /\ install' = [install EXCEPT !.at = IF platform = "linux" THEN AfterDropNew
                                       ELSE "restoreFailed",
                                !.jammed = TRUE]
  /\ UNCHANGED <<platform, backup, links, installs, lone>>

Unlinks ==
  /\ At("unlink")
  /\ links' = links \ Fresh
  /\ Goes(AfterUnlink)
  /\ UNCHANGED <<platform, app, backup, installs, lone>>

UnlinkFails ==
  /\ At("unlink") /\ Fresh # {}
  /\ \E L \in SUBSET Fresh : L # {} /\ links' = (links \ Fresh) \cup L
  /\ install' = [install EXCEPT !.at = IF platform = "linux" THEN AfterUnlink
                                       ELSE "restoreFailed",
                                !.jammed = TRUE]
  /\ UNCHANGED <<platform, app, backup, installs, lone>>

\* A directory that is not empty cannot be renamed over.
Restores ==
  /\ At("restore") /\ (install.oldMoved => app = Absent)
  /\ IF install.oldMoved THEN app' = backup /\ backup' = Absent
     ELSE UNCHANGED <<app, backup>>
  /\ Goes(AfterRestore)
  /\ UNCHANGED <<platform, links, installs, lone>>

RestoreFails ==
  /\ At("restore") /\ install.oldMoved
  /\ Goes("restoreFailed")
  /\ UNCHANGED <<platform, app, backup, links, installs, lone>>

\* macOS makes the link again, whether it was there before or not.
Relinks ==
  /\ At("relink")
  /\ links' = IF install.app = Absent THEN links ELSE Links
  /\ Goes("failed")
  /\ UNCHANGED <<platform, app, backup, installs, lone>>

\* So does a staged copy that cannot be removed.
RelinkFails ==
  /\ At("relink")
  /\ links' \in {links, IF install.app = Absent THEN links ELSE Links}
  /\ Goes("restoreFailed")
  /\ UNCHANGED <<platform, app, backup, installs, lone>>

\* The updater dies, perhaps half way through removing something.
Dies ==
  /\ install.at \notin Ends
  /\ backup' \in IF At("dropBackup") /\ backup # Absent THEN {backup, Broken} ELSE {backup}
  /\ app' \in IF At("dropNew") /\ install.newIn THEN {app, Broken} ELSE {app}
  /\ Goes("died")
  /\ UNCHANGED <<platform, links, installs, lone>>

Next ==
  \/ Begins \/ Checks \/ Prepares \/ DropsBackup \/ Refuses
  \/ MovesOld \/ MovesNew \/ Finishes \/ ExchangeFails
  \/ \E l \in Links : DropsLink(l) \/ PlacesLink(l)
  \/ DropsNew \/ DropNewFails \/ Unlinks \/ UnlinkFails
  \/ Restores \/ RestoreFails \/ Relinks \/ RelinkFails \/ Dies

Spec == Init /\ [][Next]_vars

-----------------------------------------------------------------------------
(***************************************************************************)
(* An update happens or does not (install_linux_archive, install_dmg).     *)
(* Whatever fails and whenever the updater dies, a whole application is in *)
(* its place or in the backup, if one was in its place when it began.  An  *)
(* update that says it was made has put the new release and every link     *)
(* there and kept the old one; one that failed has put the application     *)
(* back as it was, with the links it had, or none to an application that   *)
(* was never there.  Not so when what it had put there could not be taken  *)
(* away again.                                                             *)
(***************************************************************************)
UpdatesAreAllOrNothing ==
  /\ ~lone => Whole(app) \/ Whole(backup)
  /\ At("updated") =>
       /\ app = installs /\ links = Links
       /\ Whole(install.app) => backup = install.app
  /\ At("failed") /\ ~install.jammed =>
       /\ app = install.app
       /\ IF Whole(app) THEN install.links \subseteq links ELSE links \subseteq install.links
=============================================================================
