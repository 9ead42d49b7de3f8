------------------------- MODULE SurroundingsProofs -------------------------
(***************************************************************************)
(* Proofs about the parts of MCSurroundings.                               *)
(*                                                                         *)
(* UpdateInstall, for any number of installations and any links.  What     *)
(* install_linux_archive and install_dmg promise is about the end of an    *)
(* installation; the invariant follows the installed release through the   *)
(* steps: until moveOld nothing has changed (Untouched), from then on the  *)
(* installer's own notes tell which of app and backup is the old release   *)
(* (OldIsKept), what is in its place (InExchange) and, on the way back,    *)
(* what is left to undo (Undoing).                                         *)
(***************************************************************************)
EXTENDS MCSurroundings, FiltersProofs, FiniteSetTheorems, TLAPS

Release == Nat \cup {Absent, Broken}

InstallSteps == Ends \cup {"check", "prepare", "dropBackup", "moveOld", "moveNew", "link",
                           "dropNew", "unlink", "restore", "relink"}

Installation ==
  [at : InstallSteps, app : Release, backup : Release, links : SUBSET Links,
   oldMoved : BOOLEAN, newIn : BOOLEAN, due : SUBSET Links, jammed : BOOLEAN]

InstallTypes ==
  /\ platform \in {"linux", "macos"} /\ app \in Release /\ backup \in Release
  /\ links \subseteq Links /\ install \in Installation
  /\ installs \in Nat /\ lone \in BOOLEAN

Recoverable == ~lone => Whole(app) \/ Whole(backup)

\* Linux unpacks the new release when the backup has gone, macOS before.
Cleared == At("moveOld") \/ (At("prepare") /\ platform = "linux")

Untouched == install.at \in {"check", "prepare", "dropBackup", "moveOld"} =>
  /\ app = install.app /\ links = install.links /\ install.due = Links
  /\ ~install.oldMoved /\ ~install.newIn /\ ~install.jammed
  /\ app # Broken => (lone <=> app = Absent)
  /\ At("dropBackup") \/ Cleared => app # Broken
  /\ Cleared => backup = Absent

\* The installer's notes still count.
Noted == \/ install.at \in {"moveNew", "link", "dropNew", "restore"}
         \/ At("unlink") /\ platform = "linux"

OldIsKept == Noted =>
  /\ install.app # Broken /\ (lone <=> install.app = Absent)
  /\ IF install.oldMoved THEN Whole(backup) /\ backup = install.app
     ELSE backup = Absent /\ (install.newIn => install.app = Absent)

\* What is in its place when the new release is not.
OldPlace == IF install.oldMoved THEN Absent ELSE install.app

InExchange == install.at \in {"moveNew", "link", "dropNew"} =>
  /\ ~install.jammed
  /\ app = IF install.newIn THEN installs ELSE OldPlace
  /\ At("moveNew") => app = Absent /\ install.due = Links
  /\ At("link") => install.newIn /\ Links \ install.due \subseteq links
  /\ platform = "linux" => install.links \subseteq links

\* Linux goes on when something is in the way, macOS does not.
Undoing ==
  /\ platform = "linux" /\ install.at \in {"unlink", "restore"} /\ ~install.jammed =>
       app = OldPlace /\ install.links \subseteq links /\ (At("restore") => links = install.links)
  /\ platform = "linux" => ~At("relink")
  /\ platform = "macos" /\ install.at \in {"restore", "unlink", "relink"} =>
       /\ ~install.jammed /\ install.app # Broken
       /\ app = IF At("restore") THEN OldPlace ELSE install.app
       /\ At("relink") => links = {}

InstallInv == InstallTypes /\ Recoverable /\ Untouched /\ OldIsKept /\ InExchange /\ Undoing
              /\ UpdatesAreAllOrNothing

LEMMA InstallInit == Init => InstallInv
<1> SUFFICES ASSUME Init PROVE InstallInv
  OBVIOUS
<1>1. /\ platform \in {"linux", "macos"} /\ app \in Release /\ backup \in Release
      /\ links \subseteq Links /\ installs = 0 /\ lone = (app = Absent) /\ app \in {Absent, 0}
      /\ install = [at |-> "none", app |-> app, backup |-> backup, links |-> links,
                    oldMoved |-> FALSE, newIn |-> FALSE, due |-> {}, jammed |-> FALSE]
  BY DEF Init, Release
<1>2. install \in Installation /\ install.at = "none"
  BY <1>1 DEF Installation, InstallSteps, Ends
<1>3. InstallTypes
  BY <1>1, <1>2 DEF InstallTypes
<1>4. Recoverable
  <2>1. ~lone => app = 0
    BY <1>1
  <2> QED BY <2>1 DEF Recoverable, Whole
<1>5. Untouched /\ OldIsKept /\ InExchange /\ Undoing
  BY <1>2 DEF Untouched, Noted, OldIsKept, InExchange, Undoing, At
<1>6. UpdatesAreAllOrNothing
  BY <1>2, <1>4 DEF UpdatesAreAllOrNothing, Recoverable, At
<1> QED BY <1>3, <1>5, <1>6, <1>4 DEF InstallInv

\* Each action against the whole invariant, conjunct by conjunct where it
\* changes what several of them speak of.
LEMMA InstallStep == InstallInv /\ [Next]_vars => InstallInv'
<1> SUFFICES ASSUME InstallInv, [Next]_vars PROVE InstallInv'
  OBVIOUS
<1> USE MarksAssumption
    DEF InstallInv, InstallTypes, Recoverable, Untouched, Cleared, Noted, OldIsKept, OldPlace,
        InExchange, Undoing, UpdatesAreAllOrNothing, Installation, InstallSteps, Release, Ends,
        Whole, At, Links, Goes
<1>1. CASE Begins
  <2>1. PICK begin \in InstallSteps :
          begin = IF platform = "linux" THEN "check" ELSE "prepare"
    OBVIOUS
  <2>2. /\ install' = [at |-> begin, app |-> app, backup |-> backup, links |-> links,
                       oldMoved |-> FALSE, newIn |-> FALSE, due |-> Links, jammed |-> FALSE]
        /\ installs' = installs + 1 /\ lone' = (IF app = Broken THEN lone ELSE app = Absent)
        /\ UNCHANGED <<platform, app, backup, links>>
    BY <1>1, <2>1 DEF Begins, After, Steps
  <2>3. InstallTypes'
    <3>1. install' \in Installation' /\ lone' \in BOOLEAN
      BY ZenonT(60), <2>1, <2>2
    <3> QED BY <2>2, <3>1
  <2>4. Recoverable'
    BY <2>2
  <2>5. Untouched' /\ OldIsKept' /\ InExchange' /\ Undoing'
    BY <2>1, <2>2
  <2> QED BY <2>1, <2>2, <2>3, <2>4, <2>5
<1>2. CASE Checks
  BY <1>2 DEF Checks, After, Steps
<1>3. CASE Prepares
  BY <1>3 DEF Prepares, After, Steps
<1>4. CASE DropsBackup
  BY <1>4 DEF DropsBackup, After, Steps
<1>5. CASE Refuses
  BY <1>5 DEF Refuses
<1>6. CASE MovesOld
  BY <1>6 DEF MovesOld
<1>7. CASE MovesNew
  BY <1>7 DEF MovesNew
<1>8. CASE Finishes
  BY <1>8 DEF Finishes
<1>9. CASE ExchangeFails
  BY <1>9 DEF ExchangeFails
<1>10. ASSUME NEW l \in Links, DropsLink(l) PROVE InstallInv'
  BY <1>10 DEF DropsLink
<1>11. ASSUME NEW l \in Links, PlacesLink(l) PROVE InstallInv'
  BY <1>11 DEF PlacesLink
<1>12. CASE DropsNew
  BY <1>12 DEF DropsNew, AfterDropNew
<1>13. CASE DropNewFails
  BY ZenonT(60), <1>13 DEF DropNewFails, AfterDropNew
<1>14. CASE Unlinks
  BY <1>14 DEF Unlinks, AfterUnlink, Fresh
<1>15. CASE UnlinkFails
  BY ZenonT(60), <1>15 DEF UnlinkFails, AfterUnlink, Fresh
<1>16. CASE Restores
  <2>1. InstallTypes'
    BY <1>16 DEF Restores, AfterRestore
  <2>2. Recoverable'
    BY <1>16 DEF Restores, AfterRestore
  <2>3. Untouched' /\ OldIsKept' /\ InExchange'
    BY <1>16 DEF Restores, AfterRestore
  <2>4. Undoing'
    BY <1>16 DEF Restores, AfterRestore
  <2>5. UpdatesAreAllOrNothing'
    BY <1>16 DEF Restores, AfterRestore
  <2> QED BY <2>1, <2>2, <2>3, <2>4, <2>5
<1>17. CASE RestoreFails
  BY <1>17 DEF RestoreFails
<1>18. CASE Relinks
  <2>1. InstallTypes'
    BY <1>18 DEF Relinks
  <2>2. Recoverable'
    BY <1>18 DEF Relinks
  <2>3. Untouched' /\ OldIsKept' /\ InExchange'
    BY <1>18 DEF Relinks
  <2>4. Undoing'
    BY <1>18 DEF Relinks
  <2>5. UpdatesAreAllOrNothing'
    BY <1>18 DEF Relinks
  <2> QED BY <2>1, <2>2, <2>3, <2>4, <2>5
<1>19. CASE RelinkFails
  BY <1>19 DEF RelinkFails
<1>20. CASE Dies
  BY <1>20 DEF Dies
<1>21. CASE UNCHANGED vars
  BY <1>21 DEF vars
<1> QED
  BY <1>1, <1>2, <1>3, <1>4, <1>5, <1>6, <1>7, <1>8, <1>9, <1>10, <1>11, <1>12, <1>13, <1>14,
     <1>15, <1>16, <1>17, <1>18, <1>19, <1>20, <1>21
  DEF Next

\* The variables of UpdateInstall take its steps or keep their values.
LEMMA FollowsInstall == MCSpec => Spec
<1>1. MCInit => Init
  BY DEF MCInit
<1>2. ASSUME MCNext PROVE Next \/ UNCHANGED vars
  <2>1. CASE InstallNext
    BY <2>1 DEF InstallNext, OnInstall, Next
  <2>2. CASE PageNext
    BY <2>2 DEF PageNext, OnPage
  <2>3. CASE CommandsNext
    BY <2>3 DEF CommandsNext, OnCommands
  <2>4. CASE RemoteNext
    BY <2>4 DEF RemoteNext, OnRemote
  <2>5. CASE BotsNext
    BY <2>5 DEF BotsNext, OnBots
  <2>6. CASE PasteNext
    BY <2>6 DEF PasteNext, OnPaste
  <2> QED BY <1>2, <2>1, <2>2, <2>3, <2>4, <2>5, <2>6 DEF MCNext
<1>3. UNCHANGED allVars => UNCHANGED vars
  BY DEF allVars
<1> QED BY <1>1, <1>2, <1>3, PTL DEF MCSpec, Spec

\* install_linux_archive, install_dmg: whatever fails, a whole application is
\* in its place or in the backup, and an end means what it says.
THEOREM UpdatesAreAllOrNothingHolds == MCSpec => []UpdatesAreAllOrNothing
<1>1. InstallInv => UpdatesAreAllOrNothing
  BY DEF InstallInv
<1> QED BY <1>1, InstallInit, InstallStep, FollowsInstall, PTL DEF Spec

(***************************************************************************)
(* BrowserPage, for any addresses, polls and bounds.  As long as nothing   *)
(* was typed, no report failed and no snapshot reloaded the page (Calm),   *)
(* synced_url is the address the service has and the view knows where the  *)
(* page is, unless the page has just moved.                                *)
(***************************************************************************)
Snapshot == [url : Urls, revision : Nat]
Address == Urls \cup {None}
Sent == [at : {"sent", "ok", "error"}, url : Urls]

PageTypes ==
  /\ saved \in Snapshot /\ known \in Snapshot
  /\ page \in Urls /\ load \in Address
  /\ shared \in [url : Urls, dirty : BOOLEAN]
  /\ view \in [last_snapshot_url : Urls, synced_url : Urls, pending : Address, in_flight : Address]
  /\ report \in {Page!NoCall} \cup Sent
  /\ submit \in {Page!NoCall} \cup Sent
  /\ poll \in [Polls -> {Page!NoCall} \cup [at : {"asked"}, revision : Nat]
                        \cup [at : {"answered"}, snapshot : SUBSET Snapshot]]
  /\ typed \subseteq Urls /\ failed \in BOOLEAN /\ pulled \in BOOLEAN

Calm == typed = {} /\ ~failed /\ ~pulled

\* The address that the service will have been told.
Heading == IF view.pending # None THEN view.pending
           ELSE IF view.in_flight # None THEN view.in_flight ELSE view.synced_url

OneReport ==
  /\ view.in_flight = None <=> report = Page!NoCall
  /\ report # Page!NoCall => report.url = view.in_flight

Follows == Calm =>
  /\ load = None /\ submit = Page!NoCall /\ shared.url = page /\ report.at # "error"
  /\ saved.url = IF report.at = "ok" THEN report.url ELSE view.synced_url
  /\ shared.dirty \/ Heading = page

PageInv == PageTypes /\ OneReport /\ Follows

LEMMA PageInit == Page!Init => PageInv
<1> SUFFICES ASSUME Page!Init PROVE PageInv
  OBVIOUS
<1> USE NoneAssumption DEF Page!Init, Page!NoCall
<1>1. PageTypes
  BY DEF PageTypes, Snapshot, Address
<1>2. OneReport
  BY DEF OneReport
<1>3. Follows
  BY DEF Follows, Heading, Calm
<1> QED BY <1>1, <1>2, <1>3 DEF PageInv

LEMMA PageStep == PageInv /\ [Page!Next]_(Page!vars) => PageInv'
<1> SUFFICES ASSUME PageInv, [Page!Next]_(Page!vars) PROVE PageInv'
  OBVIOUS
<1> USE NoneAssumption
    DEF PageInv, PageTypes, OneReport, Follows, Heading, Calm, Snapshot, Address, Sent,
        Page!NoCall, Page!Call, Page!history
<1>1. ASSUME NEW url \in Urls, Page!Visit(url) PROVE PageInv'
  BY <1>1 DEF Page!Visit
<1>2. ASSUME NEW url \in Urls, Page!submit_browser_url(url) PROVE PageInv'
  BY <1>2 DEF Page!submit_browser_url
<1>3. CASE Page!Loads
  BY <1>3 DEF Page!Loads
<1>4. CASE Page!ReportRuns
  <2>1. report \in Sent /\ report.at = "sent"
    BY <1>4 DEF Page!ReportRuns
  <2>2. PICK answer \in {"ok", "error"} :
          report' = [report EXCEPT !.at = answer] /\ failed' = (failed \/ answer = "error")
    BY <1>4 DEF Page!ReportRuns
  <2>3. report' = [at |-> answer, url |-> report.url]
    BY <2>1, <2>2
  <2>4. saved' \in Snapshot /\ saved'.url = report.url
    BY <1>4, <2>1 DEF Page!ReportRuns, Page!set_browser_state
  <2>5. UNCHANGED <<known, page, load, shared, view, submit, poll, visits, typed, pulled>>
    BY <1>4 DEF Page!ReportRuns
  <2>6. PageTypes'
    BY <2>1, <2>2, <2>3, <2>4, <2>5
  <2>7. OneReport'
    BY <2>1, <2>3, <2>5
  <2>8. Follows'
    BY <2>1, <2>2, <2>3, <2>4, <2>5
  <2> QED BY <2>6, <2>7, <2>8
<1>5. CASE Page!ReportFails
  BY <1>5 DEF Page!ReportFails
<1>6. CASE Page!ReportEnds
  <2>1. report \in Sent /\ report.at \in {"ok", "error"} /\ report.url = view.in_flight
    BY <1>6 DEF Page!ReportEnds
  <2>2. UNCHANGED <<saved, known, page, load, shared, submit, poll, visits, typed, failed, pulled>>
    BY <1>6 DEF Page!ReportEnds, Page!history
  <2> DEFINE last == view.last_snapshot_url
             View(synced, pending, flying) ==
               [last_snapshot_url |-> last, synced_url |-> synced,
                pending |-> pending, in_flight |-> flying]
  <2>3. CASE report.at = "error"
    <3>1. report' = Page!NoCall
          /\ view' = View(view.synced_url,
                          IF view.pending = None THEN report.url ELSE view.pending, None)
      BY ZenonT(60), <1>6, <2>3 DEF Page!ReportEnds
    <3> QED BY <2>1, <2>2, <2>3, <3>1
  <2>4. CASE report.at = "ok" /\ view.pending \in {None, report.url}
    <3>1. report' = Page!NoCall /\ view' = View(report.url, None, None)
      BY <1>6, <2>4 DEF Page!ReportEnds
    <3> QED BY <2>1, <2>2, <2>4, <3>1
  <2>5. CASE report.at = "ok" /\ view.pending \notin {None, report.url}
    <3>1. report' = [at |-> "sent", url |-> view.pending]
          /\ view' = View(report.url, None, view.pending)
      BY <1>6, <2>5 DEF Page!ReportEnds, Page!Flushes
    <3> QED BY <2>1, <2>2, <2>5, <3>1
  <2> QED BY <2>1, <2>3, <2>4, <2>5
<1>7. CASE Page!SubmitRuns
  BY <1>7 DEF Page!SubmitRuns, Page!set_browser_state
<1>8. CASE Page!SubmitFails
  BY <1>8 DEF Page!SubmitFails
<1>9. CASE Page!SubmitEnds
  BY <1>9 DEF Page!SubmitEnds
<1>10. ASSUME NEW k \in Polls, Page!pane_update_request(k) PROVE PageInv'
  BY <1>10 DEF Page!pane_update_request
<1>11. ASSUME NEW k \in Polls, Page!PollRuns(k) PROVE PageInv'
  BY <1>11 DEF Page!PollRuns
<1>12. ASSUME NEW k \in Polls, Page!apply_update_result(k) PROVE PageInv'
  <2> DEFINE v == Page!Observed(view)
  <2>1. /\ poll' = [poll EXCEPT ![k] = Page!NoCall]
        /\ shared' = [shared EXCEPT !.dirty = FALSE]
        /\ UNCHANGED <<saved, page, submit, visits, typed, failed>>
    BY <1>12 DEF Page!apply_update_result
  <2>2. PICK s \in {known} \cup IF poll[k].at = "answered" THEN poll[k].snapshot ELSE {},
             visible \in BOOLEAN :
          /\ known' = IF s.revision >= known.revision THEN s ELSE known
          /\ Page!Flushes(IF visible THEN Page!Ensured(v, known'.url) ELSE v)
          /\ load' = IF visible /\ Page!Navigates(v, known'.url) THEN known'.url ELSE load
          /\ pulled' = (pulled \/ (visible /\ Page!Navigates(v, known'.url)))
    BY <1>12 DEF Page!apply_update_result
  <2>3. poll' \in [Polls -> {Page!NoCall} \cup [at : {"asked"}, revision : Nat]
                            \cup [at : {"answered"}, snapshot : SUBSET Snapshot]]
    BY <2>1
  <2>4. known' \in Snapshot
    <3>1. s \in Snapshot
      BY <2>2
    <3> QED BY <2>2, <3>1
  \* What the page did is known now.
  <2>5. /\ v.last_snapshot_url = view.last_snapshot_url /\ v.synced_url = view.synced_url
        /\ v.in_flight = view.in_flight /\ v.pending \in Address
        /\ v \in [last_snapshot_url : Urls, synced_url : Urls, pending : Address,
                  in_flight : Address]
    BY DEF Page!Observed
  <2>6. Calm => page = IF v.pending # None THEN v.pending
                       ELSE IF v.in_flight # None THEN v.in_flight ELSE v.synced_url
    BY DEF Page!Observed
  <2> DEFINE moved == visible /\ Page!Navigates(v, known'.url)
             w == IF visible THEN Page!Ensured(v, known'.url) ELSE v
  <2>7. /\ w.in_flight = v.in_flight /\ w.pending = v.pending
        /\ w \in [last_snapshot_url : Urls, synced_url : Urls, pending : Address,
                  in_flight : Address]
        /\ ~moved => w.synced_url = v.synced_url
    BY <2>4, <2>5 DEF Page!Ensured
  <2>8. /\ load' = (IF moved THEN known'.url ELSE load) /\ pulled' = (pulled \/ moved)
        /\ load' \in Address /\ pulled' \in BOOLEAN
    BY <2>2, <2>4
  <2> HIDE DEF v, w, moved
  <2>9. CASE w.in_flight # None \/ w.pending = None
    <3>1. view' = w /\ report' = report
      BY <2>2, <2>9 DEF Page!Flushes, w, v
    <3> QED BY <2>1, <2>3, <2>4, <2>5, <2>6, <2>7, <2>8, <2>9, <3>1
  <2>10. CASE w.in_flight = None /\ w.pending # None
    <3>1. view' = [w EXCEPT !.pending = None, !.in_flight = w.pending]
          /\ report' = [at |-> "sent", url |-> w.pending]
      BY <2>2, <2>10 DEF Page!Flushes, w, v
    <3>2. /\ view' \in [last_snapshot_url : Urls, synced_url : Urls, pending : Address,
                        in_flight : Address]
          /\ view'.pending = None /\ view'.in_flight = w.pending
          /\ view'.synced_url = w.synced_url
      BY <2>5, <2>7, <3>1
    <3>3. report' \in Sent /\ report'.at = "sent" /\ report'.url = w.pending
          /\ report' # Page!NoCall
      BY <2>5, <2>7, <2>10, <3>1
    <3>4. PageTypes' /\ OneReport'
      BY <2>1, <2>3, <2>4, <2>8, <2>10, <3>2, <3>3
    <3>5. ASSUME Calm'
          PROVE  /\ load' = None /\ submit' = Page!NoCall /\ shared'.url = page'
                 /\ saved'.url = view'.synced_url /\ page' = view'.in_flight
      <4>1. Calm /\ ~moved
        BY <2>1, <2>8, <3>5
      <4>2. report = Page!NoCall
        BY <2>5, <2>7, <2>10
      <4>3. saved.url = view.synced_url
        BY <4>1, <4>2
      <4> QED BY <2>1, <2>5, <2>6, <2>7, <2>8, <2>10, <3>2, <4>1, <4>3
    <3>6. Follows'
      BY <2>10, <3>2, <3>3, <3>5
    <3> QED BY <3>4, <3>6
  <2> QED BY <2>9, <2>10
<1>13. CASE UNCHANGED Page!vars
  BY <1>13 DEF Page!vars
<1> QED
  BY <1>1, <1>2, <1>3, <1>4, <1>5, <1>6, <1>7, <1>8, <1>9, <1>10, <1>11, <1>12, <1>13
  DEF Page!Next

\* The variables of BrowserPage take its steps or keep their values.
LEMMA FollowsPage == MCSpec => Page!Spec
<1>1. MCInit => Page!Init
  BY DEF MCInit
<1>2. ASSUME MCNext PROVE Page!Next \/ UNCHANGED Page!vars
  <2> USE DEF pageVars, Page!vars, Page!history
  <2>1. CASE InstallNext
    BY <2>1 DEF InstallNext, OnInstall
  <2>2. CASE PageNext
    BY <2>2 DEF PageNext, OnPage, Page!Next
  <2>3. CASE CommandsNext
    BY <2>3 DEF CommandsNext, OnCommands
  <2>4. CASE RemoteNext
    BY <2>4 DEF RemoteNext, OnRemote
  <2>5. CASE BotsNext
    BY <2>5 DEF BotsNext, OnBots
  <2>6. CASE PasteNext
    BY <2>6 DEF PasteNext, OnPaste
  <2> QED BY <1>2, <2>1, <2>2, <2>3, <2>4, <2>5, <2>6 DEF MCNext
<1>3. UNCHANGED allVars => UNCHANGED Page!vars
  BY DEF allVars, pageVars, Page!vars, Page!history
<1> QED BY <1>1, <1>2, <1>3, PTL DEF MCSpec, Page!Spec

\* flush_browser_state_updates: once nothing is on its way, the service has
\* the page's own address.
THEOREM QuietPageIsSavedHolds == MCSpec => []QuietPageIsSaved
<1>1. PageInv => QuietPageIsSaved
  BY DEF PageInv, PageTypes, OneReport, Follows, Calm, Heading, QuietPageIsSaved,
         Page!QuietPageIsSaved, Page!Quiet, Page!NoCall
<1> QED BY <1>1, PageInit, PageStep, FollowsPage, PTL DEF Page!Spec

-----------------------------------------------------------------------------
(***************************************************************************)
(* BrowserCommands, for any calls, polls and restarts.  The command of a   *)
(* call is in one place of the queue, the responses, the deferred commands *)
(* and what ran (OnePlace); a call that has not begun or took its command  *)
(* back has none (NoCommand); until the service restarts a number belongs  *)
(* to one call, so a success reaches the call whose command ran (Numbers). *)
(***************************************************************************)
Command == [id : Nat, kind : Commands!Kinds, by : Callers]

Calls(list) == Commands!CallsOf(list)

\* A list of commands of different calls.
OneEach(list) ==
  /\ list \in Seq(Command)
  /\ \A i, j \in DOMAIN list : list[i].by = list[j].by => i = j

In(r, list) == \E i \in DOMAIN list : list[i] = r

LEMMA CallsAre ==
  ASSUME NEW s, NEW c
  PROVE  c \in Calls(s) <=> \E r : In(r, s) /\ r.by = c
BY DEF Calls, Commands!CallsOf, In

LEMMA InOneEach ==
  ASSUME NEW s, OneEach(s), NEW r, In(r, s)
  PROVE  r \in Command /\ \A t : In(t, s) /\ t.by = r.by => t = r
BY DEF OneEach, In

LEMMA OfNone == OneEach(<<>>) /\ Calls(<<>>) = {} /\ \A r : ~In(r, <<>>)
BY DEF OneEach, In, Calls, Commands!CallsOf

LEMMA OfAppend ==
  ASSUME NEW s, OneEach(s), NEW r \in Command, r.by \notin Calls(s),
         NEW t, t = Append(s, r)
  PROVE  OneEach(t) /\ Calls(t) = Calls(s) \cup {r.by}
         /\ \A x : In(x, t) <=> In(x, s) \/ x = r
<1>1. /\ t \in Seq(Command) /\ s \in Seq(Command) /\ Len(s) \in Nat
      /\ DOMAIN s = 1 .. Len(s) /\ DOMAIN t = 1 .. Len(s) + 1
      /\ \A i \in 1 .. Len(s) : t[i] = s[i]
      /\ t[Len(s) + 1] = r
  BY DEF OneEach
<1>2. \A i \in DOMAIN s : s[i].by # r.by
  BY DEF Calls, Commands!CallsOf
<1>3. OneEach(t)
  <2> SUFFICES ASSUME NEW i \in DOMAIN t, NEW j \in DOMAIN t, t[i].by = t[j].by PROVE i = j
    BY <1>1 DEF OneEach
  <2>1. CASE i \in DOMAIN s /\ j \in DOMAIN s
    BY <1>1, <2>1 DEF OneEach
  <2>2. CASE i = Len(s) + 1 \/ j = Len(s) + 1
    BY <1>1, <1>2, <2>2
  <2> QED BY <1>1, <2>1, <2>2
<1>4. \A x : In(x, t) <=> In(x, s) \/ x = r
  BY <1>1 DEF In
<1>5. Calls(t) = Calls(s) \cup {r.by}
  BY <1>4, CallsAre
<1> QED BY <1>3, <1>4, <1>5

LEMMA OfConcat ==
  ASSUME NEW s, OneEach(s), NEW u, OneEach(u), Calls(s) \cap Calls(u) = {},
         NEW t, t = s \o u
  PROVE  OneEach(t) /\ Calls(t) = Calls(s) \cup Calls(u)
         /\ \A x : In(x, t) <=> In(x, s) \/ In(x, u)
<1>1. /\ t \in Seq(Command) /\ s \in Seq(Command) /\ u \in Seq(Command)
      /\ Len(s) \in Nat /\ Len(u) \in Nat
      /\ DOMAIN s = 1 .. Len(s) /\ DOMAIN u = 1 .. Len(u) /\ DOMAIN t = 1 .. Len(s) + Len(u)
      /\ \A i \in 1 .. Len(s) : t[i] = s[i]
      /\ \A i \in 1 .. Len(u) : t[Len(s) + i] = u[i]
  BY DEF OneEach
<1>2. \A i \in DOMAIN t : i \in DOMAIN s \/ (i - Len(s) \in DOMAIN u /\ t[i] = u[i - Len(s)])
  <2> SUFFICES ASSUME NEW i \in DOMAIN t, i \notin DOMAIN s
               PROVE  i - Len(s) \in DOMAIN u /\ t[i] = u[i - Len(s)]
    OBVIOUS
  <2>1. i - Len(s) \in 1 .. Len(u) /\ Len(s) + (i - Len(s)) = i
    BY <1>1
  <2> QED BY <1>1, <2>1
<1>3. \A i \in DOMAIN s, j \in DOMAIN u : s[i].by # u[j].by
  BY DEF Calls, Commands!CallsOf
<1>4. OneEach(t)
  <2> SUFFICES ASSUME NEW i \in DOMAIN t, NEW j \in DOMAIN t, t[i].by = t[j].by PROVE i = j
    BY <1>1 DEF OneEach
  <2>1. CASE i \in DOMAIN s /\ j \in DOMAIN s
    BY <1>1, <2>1 DEF OneEach
  <2>2. CASE i \notin DOMAIN s /\ j \notin DOMAIN s
    <3>1. i - Len(s) \in DOMAIN u /\ j - Len(s) \in DOMAIN u
          /\ u[i - Len(s)].by = u[j - Len(s)].by
      BY <1>2, <2>2
    <3>2. i - Len(s) = j - Len(s)
      BY <3>1 DEF OneEach
    <3> QED BY <1>1, <3>2
  <2>3. CASE i \in DOMAIN s /\ j \notin DOMAIN s
    BY <1>1, <1>2, <1>3, <2>3
  <2>4. CASE i \notin DOMAIN s /\ j \in DOMAIN s
    BY <1>1, <1>2, <1>3, <2>4
  <2> QED BY <2>1, <2>2, <2>3, <2>4
<1>5. \A x : In(x, t) <=> In(x, s) \/ In(x, u)
  <2>1. ASSUME NEW x, In(x, u) PROVE In(x, t)
    <3>1. PICK i \in 1 .. Len(u) : u[i] = x
      BY <1>1, <2>1 DEF In
    <3>2. Len(s) + i \in DOMAIN t
      BY <1>1
    <3> QED BY <1>1, <3>1, <3>2 DEF In
  <2>2. ASSUME NEW x, In(x, s) PROVE In(x, t)
    BY <1>1, <2>2 DEF In
  <2>3. ASSUME NEW x, In(x, t) PROVE In(x, s) \/ In(x, u)
    BY <1>1, <1>2, <2>3 DEF In
  <2> QED BY <2>1, <2>2, <2>3
<1>6. Calls(t) = Calls(s) \cup Calls(u)
  BY <1>5, CallsAre
<1> QED BY <1>4, <1>5, <1>6

LEMMA OfRetain ==
  ASSUME NEW s, OneEach(s), NEW T, NEW t, t = Commands!retain(s, T)
  PROVE  OneEach(t) /\ \A x : In(x, t) <=> In(x, s) /\ x \in T
<1>1. t = retain(s, T)
  BY DEF Commands!retain, retain
<1>2. s \in Seq(Command)
  BY DEF OneEach
<1>3. PICK f \in [1 .. Len(t) -> 1 .. Len(s)] :
        /\ t \in Seq(Command)
        /\ \A i \in 1 .. Len(t) : t[i] = s[f[i]] /\ s[f[i]] \in T
        /\ \A i, j \in 1 .. Len(t) : i < j => f[i] < f[j]
        /\ \A k \in 1 .. Len(s) : s[k] \in T => \E i \in 1 .. Len(t) : f[i] = k
  BY <1>1, <1>2, RetainIs
<1>4. DOMAIN t = 1 .. Len(t) /\ Len(t) \in Nat /\ DOMAIN s = 1 .. Len(s)
  BY <1>2, <1>3
<1>5. OneEach(t)
  <2> SUFFICES ASSUME NEW i \in DOMAIN t, NEW j \in DOMAIN t, t[i].by = t[j].by PROVE i = j
    BY <1>3 DEF OneEach
  <2>1. f[i] = f[j]
    BY <1>3, <1>4 DEF OneEach
  <2> QED BY <1>3, <1>4, <2>1
<1>6. \A x : In(x, t) <=> In(x, s) /\ x \in T
  BY <1>3, <1>4 DEF In
<1> QED BY <1>5, <1>6

\* Which calls the lists left by an update of the desktop are about.
LEMMA OfExecutes ==
  ASSUME NEW list, OneEach(list), NEW kept, OneEach(kept), OneEach(ran),
         Calls(list) \cap Calls(kept) = {}, Calls(list) \cap Calls(ran) = {},
         Calls(kept) \cap Calls(ran) = {},
         NEW fails, NEW done, Commands!Executes(list, fails, kept, done)
  PROVE  /\ OneEach(deferred') /\ OneEach(ran') /\ Calls(deferred') \cap Calls(ran') = {}
         /\ Calls(deferred') \subseteq Calls(kept) \cup Calls(list)
         /\ Calls(ran) \subseteq Calls(ran') /\ Calls(ran') \subseteq Calls(ran) \cup Calls(list)
         /\ \A r : In(r, deferred') => In(r, kept) \/ In(r, list)
         /\ \A r : In(r, list) /\ r \notin fails /\ Commands!IsReady(r) =>
              r.by \in Calls(ran') \cup skipped'
<1> DEFINE Left == Commands!Range(list) \ fails
           Now == {r \in Left : Commands!IsReady(r)}
           Acted == {r \in Now : Commands!ActedOn(r)}
<1>1. /\ deferred' = kept \o Commands!retain(list, Left \ Now)
      /\ ran' = ran \o Commands!retain(list, Acted)
      /\ skipped' = skipped \cup {r.by : r \in {s \in Now : ~Commands!ActedOn(s)}}
  BY DEF Commands!Executes
<1>2. \A r : In(r, list) <=> r \in Commands!Range(list)
  BY DEF In, Commands!Range
<1>3. PICK later : later = Commands!retain(list, Left \ Now)
  OBVIOUS
<1>4. PICK now : now = Commands!retain(list, Acted)
  OBVIOUS
<1> HIDE DEF Left, Now, Acted
<1>5. OneEach(later) /\ \A r : In(r, later) <=> In(r, list) /\ r \in Left \ Now
  BY <1>3, OfRetain
<1>6. OneEach(now) /\ \A r : In(r, now) <=> In(r, list) /\ r \in Acted
  BY <1>4, OfRetain
<1>7. Calls(later) \subseteq Calls(list) /\ Calls(now) \subseteq Calls(list)
  BY <1>5, <1>6, CallsAre
<1>8. Calls(later) \cap Calls(now) = {}
  <2> SUFFICES ASSUME NEW c, c \in Calls(later), c \in Calls(now) PROVE FALSE
    OBVIOUS
  <2>1. PICK r : In(r, later) /\ r.by = c
    BY CallsAre
  <2>2. PICK t : In(t, now) /\ t.by = c
    BY CallsAre
  <2>3. r = t
    BY <1>5, <1>6, <2>1, <2>2, InOneEach
  <2> QED BY <1>5, <1>6, <2>1, <2>2, <2>3 DEF Acted
<1>9. OneEach(deferred') /\ Calls(deferred') = Calls(kept) \cup Calls(later)
      /\ \A r : In(r, deferred') <=> In(r, kept) \/ In(r, later)
  <2>1. Calls(kept) \cap Calls(later) = {} /\ deferred' = kept \o later
    BY <1>1, <1>3, <1>7
  <2> QED BY <1>5, <2>1, OfConcat
<1>10. OneEach(ran') /\ Calls(ran') = Calls(ran) \cup Calls(now)
  <2>1. Calls(ran) \cap Calls(now) = {}
    BY <1>7
  <2>2. OneEach(now)
    BY <1>6
  <2>3. PICK t : t = ran \o now
    OBVIOUS
  <2>4. OneEach(t) /\ Calls(t) = Calls(ran) \cup Calls(now)
    BY <2>1, <2>2, <2>3, OfConcat
  <2>5. ran' = t
    BY <1>1, <1>4, <2>3
  <2> QED BY <2>4, <2>5
<1>11. Calls(deferred') \cap Calls(ran') = {}
  BY <1>7, <1>8, <1>9, <1>10
<1>12. ASSUME NEW r, In(r, list), r \notin fails, Commands!IsReady(r)
       PROVE  r.by \in Calls(ran') \cup skipped'
  <2>1. r \in Now
    BY <1>2, <1>12 DEF Now, Left
  <2>2. CASE Commands!ActedOn(r)
    <3>1. In(r, now)
      BY <1>6, <1>12, <2>1, <2>2 DEF Acted
    <3> QED BY <1>10, <3>1, CallsAre
  <2>3. CASE ~Commands!ActedOn(r)
    BY <1>1, <2>1, <2>3
  <2> QED BY <2>2, <2>3
<1> QED BY <1>5, <1>7, <1>9, <1>10, <1>11, <1>12

-----------------------------------------------------------------------------
Told == {"ok", "error"}

CommandTypes ==
  /\ queue \in [next_id : Nat, pending : Seq(Command), waiters : SUBSET [id : Nat, to : Callers]]
  /\ caller \in [Callers -> {"new", "waiting", "giving up", "no answer", "lost"} \cup Told]
  /\ slot \in [Callers -> {None} \cup Told]
  /\ response \in [Polls -> Seq(Command)]
  /\ cdp \subseteq [command : Command, result : {None} \cup Told]
  /\ posted \subseteq [id : Nat, outcome : Told]
  /\ restarts \in Nat

Apart(s, u) == Calls(s) \cap Calls(u) = {}

\* A command is in one place of one list.
OnePlace ==
  /\ OneEach(queue.pending) /\ OneEach(deferred) /\ OneEach(ran)
  /\ Apart(queue.pending, deferred) /\ Apart(queue.pending, ran) /\ Apart(deferred, ran)
  /\ \A k \in Polls :
       /\ OneEach(response[k]) /\ Apart(response[k], queue.pending)
       /\ Apart(response[k], deferred) /\ Apart(response[k], ran)
       /\ \A n \in Polls \ {k} : Apart(response[k], response[n])

IsNowhere(c) ==
  /\ c \notin Calls(queue.pending) /\ c \notin Calls(deferred) /\ c \notin Calls(ran)
  /\ \A k \in Polls : c \notin Calls(response[k])

\* A call that has not begun, or took its command back, has none.
NoCommand == \A c \in Callers :
  /\ caller[c] = "new" \/ c \in withdrawn => IsNowhere(c)
  /\ c \in withdrawn => caller[c] # "new"

\* Until the service restarts a number stands for one call.
Done(c) == c \in Calls(ran) \/ c \in skipped
Known(r) == r.id < queue.next_id /\ \A w \in queue.waiters : w.id = r.id => w.to = r.by
AllKnown(list) == \A r : In(r, list) => Known(r)

OwnNumbers ==
  /\ \A w \in queue.waiters : w.id < queue.next_id
  /\ AllKnown(queue.pending) /\ AllKnown(deferred) /\ \A k \in Polls : AllKnown(response[k])
  /\ \A d \in cdp : Known(d.command) /\ Done(d.command.by)

\* A success, on its way or told, is that of a command that ran.
TrueOutcomes ==
  /\ \A r \in posted :
       /\ r.id < queue.next_id
       /\ r.outcome = "ok" => \A w \in queue.waiters : w.id = r.id => Done(w.to)
  /\ \A c \in Callers : slot[c] = "ok" \/ caller[c] = "ok" => Done(c)

Numbers == restarts = 0 => OwnNumbers /\ TrueOutcomes

CommandInv == CommandTypes /\ OnePlace /\ NoCommand /\ Numbers

LEMMA CommandInit == Commands!Init => CommandInv
<1> SUFFICES ASSUME Commands!Init PROVE CommandInv
  OBVIOUS
<1> USE NoneAssumption DEF Commands!Init, Commands!EmptyQueue
<1>1. CommandTypes
  BY DEF CommandTypes
<1>2. OnePlace
  BY OfNone DEF OnePlace, Apart
<1>3. NoCommand
  BY OfNone DEF NoCommand, IsNowhere
<1>4. Numbers
  <2>1. OwnNumbers
    BY OfNone DEF OwnNumbers, AllKnown
  <2>2. TrueOutcomes
    BY DEF TrueOutcomes
  <2> QED BY <2>1, <2>2 DEF Numbers
<1> QED BY <1>1, <1>2, <1>3, <1>4 DEF CommandInv

\* Each command of a list that leaves it for another place.
LEMMA AsksHolds ==
  ASSUME CommandInv, NEW c \in Callers, NEW kind \in Commands!Kinds,
         Commands!browser_command(c, kind)
  PROVE  CommandInv'
<1> USE DEF CommandInv
<1>11. PICK r : r = [id |-> queue.next_id, kind |-> kind, by |-> c]
  OBVIOUS
<1>12. PICK w : w = [id |-> queue.next_id, to |-> c]
  OBVIOUS
<1>1. /\ caller[c] = "new" /\ caller' = [caller EXCEPT ![c] = "waiting"]
      /\ queue' = [next_id |-> queue.next_id + 1, pending |-> Append(queue.pending, r),
                   waiters |-> queue.waiters \cup {w}]
      /\ UNCHANGED <<slot, response, opened, deferred, cdp, posted, restarts, ran, skipped,
                     withdrawn>>
  BY <1>11, <1>12 DEF Commands!browser_command, Commands!history
<1>2. /\ queue.next_id \in Nat /\ queue.pending \in Seq(Command)
      /\ \A v \in queue.waiters : v \in [id : Nat, to : Callers]
  BY DEF CommandTypes
<1>3. /\ r \in Command /\ r.by = c /\ r.id = queue.next_id
      /\ w \in [id : Nat, to : Callers] /\ w.id = queue.next_id /\ w.to = c
  BY <1>11, <1>12, <1>2 DEF Command
<1>4. IsNowhere(c)
  BY <1>1 DEF NoCommand
<1>5. PICK p : p = Append(queue.pending, r)
  OBVIOUS
<1>6. /\ queue' \in [next_id : Nat, pending : Seq(Command),
                     waiters : SUBSET [id : Nat, to : Callers]]
      /\ queue'.pending = p /\ queue'.next_id = queue.next_id + 1
      /\ queue'.waiters = queue.waiters \cup {w}
  <2>1. p \in Seq(Command)
    BY <1>2, <1>3, <1>5
  <2>2. queue.waiters \cup {w} \in SUBSET [id : Nat, to : Callers]
    BY <1>2, <1>3
  <2>3. queue' = [next_id |-> queue.next_id + 1, pending |-> p,
                  waiters |-> queue.waiters \cup {w}]
    BY <1>1, <1>5
  <2> QED BY <1>2, <2>1, <2>2, <2>3
<1>13. OneEach(p) /\ Calls(p) = Calls(queue.pending) \cup {c}
       /\ \A x : In(x, p) <=> In(x, queue.pending) \/ x = r
  <2>1. r \in Command /\ r.by \notin Calls(queue.pending) /\ OneEach(queue.pending)
    BY <1>3, <1>4 DEF OnePlace, IsNowhere
  <2>2. PICK s : s = queue.pending
    OBVIOUS
  <2>3. OneEach(s) /\ r.by \notin Calls(s) /\ p = Append(s, r)
    BY <1>5, <2>1, <2>2
  <2>4. OneEach(p) /\ Calls(p) = Calls(s) \cup {r.by}
        /\ \A x : In(x, p) <=> In(x, s) \/ x = r
    BY <2>1, <2>3, OfAppend
  <2> QED BY <1>3, <2>2, <2>4
<1>7. CommandTypes'
  BY <1>1, <1>6 DEF CommandTypes
<1>8. OnePlace'
  <2>1. /\ OneEach(p) /\ OneEach(deferred') /\ OneEach(ran')
        /\ Apart(p, deferred') /\ Apart(p, ran') /\ Apart(deferred', ran')
    BY <1>1, <1>4, <1>13 DEF OnePlace, Apart, IsNowhere
  <2>2. ASSUME NEW k \in Polls
        PROVE  /\ OneEach(response'[k]) /\ Apart(response'[k], p)
               /\ Apart(response'[k], deferred') /\ Apart(response'[k], ran')
               /\ \A n \in Polls \ {k} : Apart(response'[k], response'[n])
    BY <1>1, <1>4, <1>13 DEF OnePlace, Apart, IsNowhere
  <2> QED BY <1>6, <2>1, <2>2 DEF OnePlace
<1>9. NoCommand'
  <2>1. c \notin withdrawn
    BY <1>1 DEF NoCommand
  <2> SUFFICES ASSUME NEW e \in Callers
               PROVE  /\ caller'[e] = "new" \/ e \in withdrawn => IsNowhere(e)'
                      /\ e \in withdrawn => caller'[e] # "new"
    BY <1>1 DEF NoCommand
  <2> QED BY <1>1, <1>13, <1>6, <2>1 DEF NoCommand, IsNowhere, CommandTypes
<1>10. Numbers'
  <2> SUFFICES ASSUME restarts = 0, OwnNumbers, TrueOutcomes PROVE (OwnNumbers /\ TrueOutcomes)'
    BY <1>1 DEF Numbers
  <2>1. ASSUME NEW x, Known(x), x.id \in Nat PROVE Known(x)'
    BY <1>2, <1>3, <1>6, <2>1 DEF Known
  <2>2. Known(r)'
    BY <1>2, <1>3, <1>6 DEF Known, OwnNumbers
  <2>3. \A e : Done(e)' <=> Done(e)
    BY <1>1 DEF Done
  <2>4. ASSUME NEW s, OneEach(s), AllKnown(s) PROVE \A x : In(x, s) => Known(x)'
    BY <2>1, <2>4, InOneEach DEF AllKnown, Command
  <2>5. OwnNumbers'
    <3>1. \A v \in queue'.waiters : v.id < queue'.next_id
      BY <1>2, <1>3, <1>6 DEF OwnNumbers
    <3>2. AllKnown(queue.pending)'
      BY <1>6, <1>13, <2>2, <2>4 DEF OwnNumbers, OnePlace, AllKnown
    <3>3. AllKnown(deferred)' /\ \A k \in Polls : AllKnown(response[k])'
      BY <1>1, <2>4 DEF OwnNumbers, OnePlace, AllKnown
    <3>4. \A d \in cdp' : Known(d.command)' /\ Done(d.command.by)'
      BY <1>1, <2>1, <2>3 DEF OwnNumbers, CommandTypes, Command
    <3> QED BY <3>1, <3>2, <3>3, <3>4 DEF OwnNumbers
  <2>6. TrueOutcomes'
    <3>1. ASSUME NEW x \in posted'
          PROVE  /\ x.id < queue'.next_id
                 /\ x.outcome = "ok" => \A v \in queue'.waiters : v.id = x.id => Done(v.to)'
      <4>1. x \in posted /\ x.id \in Nat
        BY <1>1 DEF CommandTypes
      <4>2. x.id < queue.next_id
            /\ (x.outcome = "ok" => \A v \in queue.waiters : v.id = x.id => Done(v.to))
        BY <4>1 DEF TrueOutcomes
      <4>3. w.id # x.id
        BY <1>2, <1>3, <4>1, <4>2
      <4> QED BY <1>2, <1>6, <2>3, <4>1, <4>2, <4>3
    <3>2. \A e \in Callers : slot'[e] = "ok" \/ caller'[e] = "ok" => Done(e)'
      BY <1>1, <2>3 DEF TrueOutcomes, CommandTypes
    <3> QED BY <3>1, <3>2 DEF TrueOutcomes
  <2> QED BY <2>5, <2>6
<1> QED BY <1>7, <1>8, <1>9, <1>10

\* The commands that have not come to the page yet.
Listed(r) == In(r, queue.pending) \/ In(r, deferred) \/ \E k \in Polls : In(r, response[k])

\* Numbers stay true when nothing gets a new number: commands only move on,
\* waiters only go, and an outcome is that of a command.
LEMMA NumbersKept ==
  ASSUME CommandInv, restarts' = restarts,
         queue'.next_id = queue.next_id, queue'.waiters \subseteq queue.waiters,
         \A r : Listed(r)' => Listed(r),
         \A c : Done(c) => Done(c)',
         \A d \in cdp' : \/ \E e \in cdp : e.command = d.command
                         \/ Listed(d.command) /\ Done(d.command.by)',
         \A x \in posted' :
           \/ x \in posted
           \/ \E e \in cdp : x.id = e.command.id
           \/ \E r : Listed(r) /\ x.id = r.id /\ (x.outcome = "ok" => Done(r.by)'),
         \A c \in Callers : slot'[c] = "ok" \/ caller'[c] = "ok" =>
           \/ slot[c] = "ok" \/ caller[c] = "ok"
           \/ \E x \in posted, w \in queue.waiters :
                x.outcome = "ok" /\ w.id = x.id /\ w.to = c
  PROVE  Numbers'
<1> SUFFICES ASSUME restarts = 0 PROVE OwnNumbers' /\ TrueOutcomes'
  BY DEF Numbers
<1>1. OwnNumbers /\ TrueOutcomes
  BY DEF CommandInv, Numbers
<1>2. \A r : Known(r) => Known(r)'
  BY DEF Known
<1>3. \A r : Listed(r) => Known(r)
  BY <1>1 DEF Listed, OwnNumbers, AllKnown
<1>4. \A e \in cdp : Known(e.command) /\ Done(e.command.by)
  BY <1>1 DEF OwnNumbers
<1>5. OwnNumbers'
  <2>1. \A w \in queue'.waiters : w.id < queue'.next_id
    BY <1>1 DEF OwnNumbers
  <2>2. \A r : Listed(r)' => Known(r)'
    BY <1>2, <1>3
  <2>3. AllKnown(queue.pending)' /\ AllKnown(deferred)' /\ \A k \in Polls : AllKnown(response[k])'
    BY <2>2 DEF Listed, AllKnown
  <2>4. \A d \in cdp' : Known(d.command)' /\ Done(d.command.by)'
    BY <1>2, <1>3, <1>4
  <2> QED BY <2>1, <2>3, <2>4 DEF OwnNumbers
<1>6. TrueOutcomes'
  <2>1. ASSUME NEW x \in posted'
        PROVE  /\ x.id < queue'.next_id
               /\ x.outcome = "ok" => \A w \in queue'.waiters : w.id = x.id => Done(w.to)'
    <3>1. CASE x \in posted
      BY <1>1, <3>1 DEF TrueOutcomes
    <3>2. CASE \E e \in cdp : x.id = e.command.id
      BY <1>4, <3>2 DEF Known
    <3>3. ASSUME NEW r, Listed(r), x.id = r.id, x.outcome = "ok" => Done(r.by)'
          PROVE  /\ x.id < queue'.next_id
                 /\ x.outcome = "ok" => \A w \in queue'.waiters : w.id = x.id => Done(w.to)'
      BY <1>3, <3>3 DEF Known
    <3> QED BY <2>1, <3>1, <3>2, <3>3
  <2>2. \A c \in Callers : slot'[c] = "ok" \/ caller'[c] = "ok" => Done(c)'
    BY <1>1 DEF TrueOutcomes
  <2> QED BY <2>1, <2>2 DEF TrueOutcomes
<1> QED BY <1>5, <1>6

\* Calls do not begin, and none takes its command back.
LEMMA MovesKept ==
  ASSUME CommandInv, withdrawn' = withdrawn,
         \A c \in Callers : caller'[c] = "new" <=> caller[c] = "new",
         \A c \in Callers : IsNowhere(c) => IsNowhere(c)'
  PROVE  NoCommand'
BY DEF CommandInv, NoCommand

LEMMA CallerHolds ==
  ASSUME CommandInv, NEW c \in Callers, Commands!Receives(c) \/ Commands!TimesOut(c)
  PROVE  CommandInv'
<1> USE DEF CommandInv
<1>1. UNCHANGED <<queue, slot, response, opened, deferred, cdp, posted, restarts, ran, skipped,
                  withdrawn>>
  BY DEF Commands!Receives, Commands!TimesOut, Commands!history
<1>2. /\ caller[c] = "waiting"
      /\ \/ slot[c] # None /\ caller' = [caller EXCEPT ![c] = slot[c]]
         \/ caller' = [caller EXCEPT ![c] = "giving up"]
  BY DEF Commands!Receives, Commands!TimesOut
<1>3. CommandTypes'
  BY <1>1, <1>2 DEF CommandTypes
<1>4. OnePlace'
  BY <1>1 DEF OnePlace, Apart
<1>5. \A e : (IsNowhere(e)' <=> IsNowhere(e)) /\ (Done(e)' <=> Done(e))
             /\ (Listed(e)' <=> Listed(e))
  BY <1>1 DEF IsNowhere, Done, Listed
<1>6. \A e \in Callers : caller'[e] = "new" <=> caller[e] = "new"
  BY <1>2 DEF CommandTypes, Told
<1>7. NoCommand'
  BY <1>1, <1>5, <1>6, MovesKept
<1>8. \A e \in Callers : slot'[e] = "ok" \/ caller'[e] = "ok" => slot[e] = "ok" \/ caller[e] = "ok"
  BY <1>1, <1>2 DEF CommandTypes
<1>9. Numbers'
  BY <1>1, <1>5, <1>8, NumbersKept
<1> QED BY <1>3, <1>4, <1>7, <1>9

LEMMA WithdrawsHolds ==
  ASSUME CommandInv, NEW c \in Callers, Commands!Withdraws(c)
  PROVE  CommandInv'
<1> USE DEF CommandInv
<1>1. /\ UNCHANGED <<slot, response, opened, deferred, cdp, posted, restarts, ran, skipped>>
      /\ caller[c] = "giving up" /\ caller' = [caller EXCEPT ![c] = "no answer"]
      /\ withdrawn' = withdrawn \cup ({c} \cap Calls(queue.pending))
      /\ queue' = [queue EXCEPT !.waiters = {w \in @ : w.to # c},
                     !.pending = Commands!retain(@, {r \in Commands!Range(@) : r.by # c})]
  BY DEF Commands!Withdraws, Calls
<1>2. PICK T : T = {r \in Commands!Range(queue.pending) : r.by # c}
  OBVIOUS
<1>3. PICK p : p = Commands!retain(queue.pending, T)
  OBVIOUS
<1>4. queue'.pending = p /\ queue'.next_id = queue.next_id
      /\ queue'.waiters = {w \in queue.waiters : w.to # c}
      /\ queue' \in [next_id : {queue.next_id}, pending : {p},
                     waiters : SUBSET queue.waiters]
  BY <1>1, <1>2, <1>3 DEF CommandTypes
<1>5. OneEach(p) /\ \A x : In(x, p) <=> In(x, queue.pending) /\ x \in T
  <2>1. PICK s : s = queue.pending
    OBVIOUS
  <2>2. OneEach(s) /\ p = Commands!retain(s, T)
    BY <1>3, <2>1 DEF OnePlace
  <2>3. OneEach(p) /\ \A x : In(x, p) <=> In(x, s) /\ x \in T
    BY <2>2, OfRetain
  <2> QED BY <2>1, <2>3
<1>6. Calls(p) \subseteq Calls(queue.pending) /\ c \notin Calls(p)
  BY <1>2, <1>5, CallsAre
<1>7. CommandTypes'
  <2>1. p \in Seq(Command)
    BY <1>5 DEF OneEach
  <2> QED BY <1>1, <1>4, <2>1 DEF CommandTypes
<1>8. OnePlace'
  <2>1. /\ OneEach(p) /\ OneEach(deferred') /\ OneEach(ran')
        /\ Apart(p, deferred') /\ Apart(p, ran') /\ Apart(deferred', ran')
    BY <1>1, <1>5, <1>6 DEF OnePlace, Apart
  <2>2. ASSUME NEW k \in Polls
        PROVE  /\ OneEach(response'[k]) /\ Apart(response'[k], p)
               /\ Apart(response'[k], deferred') /\ Apart(response'[k], ran')
               /\ \A n \in Polls \ {k} : Apart(response'[k], response'[n])
    BY <1>1, <1>6 DEF OnePlace, Apart
  <2> QED BY <1>4, <2>1, <2>2 DEF OnePlace
<1>9. NoCommand'
  <2>1. ASSUME NEW e, IsNowhere(e) PROVE IsNowhere(e)'
    BY <1>1, <1>4, <1>6, <2>1 DEF IsNowhere
  <2>2. c \in Calls(queue.pending) => IsNowhere(c)'
    BY <1>1, <1>4, <1>6 DEF IsNowhere, OnePlace, Apart
  <2>3. \A e \in Callers : caller'[e] = "new" <=> caller[e] = "new"
    BY <1>1 DEF CommandTypes
  <2> QED BY <1>1, <2>1, <2>2, <2>3 DEF NoCommand
<1>10. Numbers'
  <2>1. \A e : (Done(e)' <=> Done(e)) /\ (Listed(e)' => Listed(e))
    BY <1>1, <1>4, <1>5 DEF Done, Listed
  <2>2. \A e \in Callers :
          slot'[e] = "ok" \/ caller'[e] = "ok" => slot[e] = "ok" \/ caller[e] = "ok"
    BY <1>1 DEF CommandTypes
  <2> QED BY <1>1, <1>4, <2>1, <2>2, NumbersKept
<1> QED BY <1>7, <1>8, <1>9, <1>10

LEMMA TakesHolds ==
  ASSUME CommandInv, NEW k \in Polls, Commands!take_browser_commands(k)
  PROVE  CommandInv'
<1> USE DEF CommandInv
<1>1. /\ UNCHANGED <<caller, slot, opened, deferred, cdp, posted, restarts, ran, skipped,
                     withdrawn>>
      /\ response[k] = <<>> /\ response' = [response EXCEPT ![k] = queue.pending]
      /\ queue' = [queue EXCEPT !.pending = <<>>]
  BY DEF Commands!take_browser_commands, Commands!history
<1>2. queue'.pending = <<>> /\ queue'.next_id = queue.next_id /\ queue'.waiters = queue.waiters
      /\ response'[k] = queue.pending /\ \A n \in Polls \ {k} : response'[n] = response[n]
  BY <1>1 DEF CommandTypes
<1>3. CommandTypes'
  BY <1>1 DEF CommandTypes
<1>4. OnePlace'
  <2>1. /\ OneEach(<<>>) /\ OneEach(deferred') /\ OneEach(ran')
        /\ Apart(<<>>, deferred') /\ Apart(<<>>, ran') /\ Apart(deferred', ran')
    BY <1>1, OfNone DEF OnePlace, Apart
  <2>2. ASSUME NEW n \in Polls
        PROVE  /\ OneEach(response'[n]) /\ Apart(response'[n], <<>>)
               /\ Apart(response'[n], deferred') /\ Apart(response'[n], ran')
               /\ \A m \in Polls \ {n} : Apart(response'[n], response'[m])
    <3>1. CASE n = k
      BY <1>1, <1>2, <3>1, OfNone DEF OnePlace, Apart
    <3>2. CASE n # k
      BY <1>1, <1>2, <3>2, OfNone DEF OnePlace, Apart
    <3> QED BY <3>1, <3>2
  <2> QED BY <1>2, <2>1, <2>2 DEF OnePlace
<1>5. ASSUME NEW e, IsNowhere(e) PROVE IsNowhere(e)'
  BY <1>1, <1>2, <1>5, OfNone DEF IsNowhere
<1>6. NoCommand'
  BY <1>1, <1>5, MovesKept
<1>7. ASSUME NEW r PROVE Listed(r)' => Listed(r)
  BY <1>1, <1>2, OfNone DEF Listed
<1>8. \A e : Done(e)' <=> Done(e)
  BY <1>1 DEF Done
<1>9. Numbers'
  BY <1>1, <1>2, <1>7, <1>8, NumbersKept
<1> QED BY <1>3, <1>4, <1>6, <1>9

LEMMA LostHolds ==
  ASSUME CommandInv, NEW k \in Polls, Commands!ResponseLost(k)
  PROVE  CommandInv'
<1> USE DEF CommandInv
<1>1. /\ UNCHANGED <<queue, caller, slot, opened, deferred, cdp, posted, restarts, ran, skipped,
                     withdrawn>>
      /\ response' = [response EXCEPT ![k] = <<>>]
  BY DEF Commands!ResponseLost, Commands!history
<1>2. response'[k] = <<>> /\ \A n \in Polls \ {k} : response'[n] = response[n]
  BY <1>1 DEF CommandTypes
<1>3. CommandTypes'
  <2>1. response' \in [Polls -> Seq(Command)]
    BY <1>1, OfNone DEF CommandTypes, OneEach
  <2> QED BY <1>1, <2>1 DEF CommandTypes
<1>4. OnePlace'
  <2>1. ASSUME NEW n \in Polls
        PROVE  /\ OneEach(response'[n]) /\ Apart(response'[n], queue.pending)
               /\ Apart(response'[n], deferred) /\ Apart(response'[n], ran)
               /\ \A m \in Polls \ {n} : Apart(response'[n], response'[m])
    <3>1. CASE n = k
      BY <1>2, <3>1, OfNone DEF OnePlace, Apart
    <3>2. CASE n # k
      BY <1>2, <3>2, OfNone DEF OnePlace, Apart
    <3> QED BY <3>1, <3>2
  <2> QED BY <1>1, <2>1 DEF OnePlace, Apart
<1>5. ASSUME NEW e, IsNowhere(e) PROVE IsNowhere(e)'
  BY <1>1, <1>2, <1>5, OfNone DEF IsNowhere
<1>6. NoCommand'
  BY <1>1, <1>5, MovesKept
<1>7. ASSUME NEW r PROVE Listed(r)' => Listed(r)
  BY <1>1, <1>2, OfNone DEF Listed
<1>8. \A e : Done(e)' <=> Done(e)
  BY <1>1 DEF Done
<1>9. Numbers'
  BY <1>1, <1>2, <1>7, <1>8, NumbersKept
<1> QED BY <1>3, <1>4, <1>6, <1>9

LEMMA ResolvesHolds ==
  ASSUME CommandInv, NEW r \in posted,
         Commands!resolve_browser_command(r) \/ Commands!ResultLost(r)
  PROVE  CommandInv'
<1> USE DEF CommandInv
<1> DEFINE found == {w \in queue.waiters : w.id = r.id}
<1>1. /\ UNCHANGED <<caller, response, opened, deferred, cdp, restarts, ran, skipped, withdrawn>>
      /\ posted' = posted \ {r}
      /\ \/ UNCHANGED <<queue, slot>>
         \/ /\ queue' = [queue EXCEPT !.waiters = @ \ found]
            /\ slot' = [c \in Callers |-> IF \E w \in found : w.to = c THEN r.outcome
                                                                      ELSE slot[c]]
  BY DEF Commands!resolve_browser_command, Commands!ResultLost, Commands!history
<1>2. queue'.pending = queue.pending /\ queue'.next_id = queue.next_id
      /\ queue'.waiters \subseteq queue.waiters
  BY <1>1 DEF CommandTypes
<1>3. CommandTypes'
  <2>1. r.outcome \in Told
    BY DEF CommandTypes
  <2>2. slot' \in [Callers -> {None} \cup Told]
    BY <1>1, <2>1 DEF CommandTypes
  <2>3. queue' \in [next_id : Nat, pending : Seq(Command),
                   waiters : SUBSET [id : Nat, to : Callers]]
    <3>1. PICK W : W = queue.waiters \ found
      OBVIOUS
    <3>2. W \in SUBSET [id : Nat, to : Callers]
      BY <3>1 DEF CommandTypes
    <3>3. queue' = queue \/ queue' = [queue EXCEPT !.waiters = W]
      BY <1>1, <3>1
    <3> HIDE DEF found
    <3> QED BY <3>2, <3>3 DEF CommandTypes
  <2> QED BY <1>1, <2>2, <2>3 DEF CommandTypes
<1>4. OnePlace'
  BY <1>1, <1>2 DEF OnePlace, Apart
<1>5. \A e : (IsNowhere(e)' <=> IsNowhere(e)) /\ (Done(e)' <=> Done(e))
             /\ (Listed(e)' <=> Listed(e))
  BY <1>1, <1>2 DEF IsNowhere, Done, Listed
<1>6. NoCommand'
  BY <1>1, <1>5, MovesKept
<1>7. ASSUME NEW c \in Callers, slot'[c] = "ok" \/ caller'[c] = "ok"
      PROVE  \/ slot[c] = "ok" \/ caller[c] = "ok"
             \/ \E x \in posted, w \in queue.waiters : x.outcome = "ok" /\ w.id = x.id /\ w.to = c
  BY <1>1, <1>7
<1>8. Numbers'
  BY <1>1, <1>2, <1>5, <1>7, NumbersKept
<1> QED BY <1>3, <1>4, <1>6, <1>8

\* The page comes, answers or goes; the service goes.
LEMMA PageHolds ==
  ASSUME CommandInv,
         \/ \E d \in cdp : Commands!PageAnswers(d)
         \/ Commands!PageOpens \/ Commands!PageCloses
  PROVE  CommandInv'
<1> USE DEF CommandInv
<1>1. UNCHANGED <<queue, caller, slot, response, deferred, posted, restarts, ran, skipped,
                  withdrawn>>
  BY DEF Commands!PageAnswers, Commands!PageOpens, Commands!PageCloses, Commands!history
<1>2. /\ cdp' \subseteq [command : Command, result : {None} \cup Told]
      /\ \A d \in cdp' : \E e \in cdp : e.command = d.command
  <2>1. ASSUME NEW d \in cdp, Commands!PageAnswers(d)
        PROVE  /\ cdp' \subseteq [command : Command, result : {None} \cup Told]
               /\ \A x \in cdp' : \E e \in cdp : e.command = x.command
    <3>1. PICK outcome \in Told : cdp' = (cdp \ {d}) \cup {[d EXCEPT !.result = outcome]}
      BY <2>1 DEF Commands!PageAnswers, Told
    <3>2. d \in [command : Command, result : {None} \cup Told]
      BY DEF CommandTypes
    <3>3. PICK x : x = [d EXCEPT !.result = outcome]
      OBVIOUS
    <3>4. x \in [command : Command, result : {None} \cup Told] /\ x.command = d.command
      BY <3>2, <3>3
    <3> QED BY <3>1, <3>3, <3>4 DEF CommandTypes
  <2>2. CASE Commands!PageOpens \/ Commands!PageCloses
    BY <2>2 DEF Commands!PageOpens, Commands!PageCloses, Commands!history, CommandTypes
  <2> QED BY <2>1, <2>2
<1>3. CommandTypes'
  BY <1>1, <1>2 DEF CommandTypes
<1>4. OnePlace'
  BY <1>1 DEF OnePlace, Apart
<1>5. \A e : (IsNowhere(e)' <=> IsNowhere(e)) /\ (Done(e)' <=> Done(e))
             /\ (Listed(e)' <=> Listed(e))
  BY <1>1 DEF IsNowhere, Done, Listed
<1>6. NoCommand'
  BY <1>1, <1>5, MovesKept
<1>7. Numbers'
  BY <1>1, <1>2, <1>5, NumbersKept
<1> QED BY <1>3, <1>4, <1>6, <1>7

LEMMA RestartHolds ==
  ASSUME CommandInv, Commands!ServiceRestarts
  PROVE  CommandInv'
<1> USE DEF CommandInv
<1>1. /\ UNCHANGED <<slot, response, opened, deferred, cdp, posted, ran, skipped, withdrawn>>
      /\ restarts' = restarts + 1
      /\ queue' = [next_id |-> 1, pending |-> <<>>, waiters |-> {}]
      /\ caller' = [c \in Callers |-> IF caller[c] \in {"waiting", "giving up"} THEN "lost"
                                                                         ELSE caller[c]]
  BY DEF Commands!ServiceRestarts, Commands!history, Commands!EmptyQueue
<1>2. CommandTypes'
  <2>1. <<>> \in Seq(Command)
    BY OfNone DEF OneEach
  <2>2. queue' \in [next_id : Nat, pending : Seq(Command),
                   waiters : SUBSET [id : Nat, to : Callers]]
    BY <1>1, <2>1
  <2>3. caller' \in [Callers -> {"new", "waiting", "giving up", "no answer", "lost"} \cup Told]
    BY <1>1 DEF CommandTypes
  <2>4. restarts \in Nat /\ restarts' = restarts + 1
    BY <1>1 DEF CommandTypes
  <2>5. restarts' \in Nat
    BY <2>4
  <2> QED BY <1>1, <2>2, <2>3, <2>5 DEF CommandTypes
<1>3. OnePlace'
  BY <1>1, OfNone DEF OnePlace, Apart
<1>4. ASSUME NEW e, IsNowhere(e) PROVE IsNowhere(e)'
  BY <1>1, <1>4, OfNone DEF IsNowhere
<1>5. \A c \in Callers : caller'[c] = "new" <=> caller[c] = "new"
  BY <1>1
<1>6. NoCommand'
  BY <1>1, <1>4, <1>5, MovesKept
<1>7. Numbers'
  <2>1. restarts \in Nat /\ restarts' = restarts + 1
    BY <1>1 DEF CommandTypes
  <2>2. restarts' # 0
    BY <2>1
  <2> QED BY <2>2 DEF Numbers
<1> QED BY <1>2, <1>3, <1>6, <1>7

\* The DevTools calls and the outcomes that an update of the desktop leaves.
LEMMA OfOutcomes ==
  ASSUME CommandInv, NEW list, OneEach(list), NEW kept,
         NEW fails, \A r \in fails : In(r, list),
         NEW done \in SUBSET cdp, \A d \in done : d.result # None,
         Commands!Executes(list, fails, kept, done),
         \A r : In(r, list) /\ r \notin fails /\ Commands!IsReady(r) => Done(r.by)'
  PROVE  /\ cdp' \subseteq [command : Command, result : {None} \cup Told]
         /\ posted' \subseteq [id : Nat, outcome : Told]
         /\ \A d \in cdp' : \/ \E e \in cdp : e.command = d.command
                            \/ In(d.command, list) /\ Done(d.command.by)'
         /\ \A x \in posted' :
              \/ x \in posted
              \/ \E e \in cdp : x.id = e.command.id
              \/ \E r : In(r, list) /\ x.id = r.id /\ (x.outcome = "ok" => Done(r.by)')
         /\ skipped \subseteq skipped'
<1> USE DEF CommandInv
<1> DEFINE Left == Commands!Range(list) \ fails
           Now == {r \in Left : Commands!IsReady(r)}
           Asks == {r \in Now : r.kind = "devtools"}
<1>1. /\ cdp' = (cdp \ done) \cup {[command |-> r, result |-> None] : r \in Asks}
      /\ posted' = posted \cup {[id |-> r.id, outcome |-> "ok"] : r \in Now \ Asks}
                          \cup {[id |-> r.id, outcome |-> "error"] : r \in fails}
                          \cup {[id |-> d.command.id, outcome |-> d.result] : d \in done}
      /\ skipped \subseteq skipped'
  BY DEF Commands!Executes, Commands!Result
<1>2. \A r : In(r, list) <=> r \in Commands!Range(list)
  BY DEF In, Commands!Range
<1>3. \A r \in Now : In(r, list) /\ r \in Command /\ Done(r.by)'
  BY <1>2, InOneEach
<1>4. \A r \in fails : In(r, list) /\ r \in Command
  BY InOneEach
<1>5. \A d \in done : d \in cdp /\ d.command \in Command /\ d.result \in Told
  BY DEF CommandTypes
<1>6. ASSUME NEW d \in cdp'
      PROVE  /\ d \in [command : Command, result : {None} \cup Told]
             /\ \/ \E e \in cdp : e.command = d.command
                \/ In(d.command, list) /\ Done(d.command.by)'
  <2>1. CASE d \in cdp
    BY <2>1 DEF CommandTypes
  <2>2. ASSUME NEW r \in Asks, d = [command |-> r, result |-> None]
        PROVE  d \in [command : Command, result : {None} \cup Told]
               /\ In(d.command, list) /\ Done(d.command.by)'
    <3>1. r \in Now
      OBVIOUS
    <3> HIDE DEF Now, Asks
    <3> QED BY <1>3, <2>2, <3>1
  <2> QED BY <1>1, <1>6, <2>1, <2>2
<1>7. ASSUME NEW x \in posted'
      PROVE  /\ x \in [id : Nat, outcome : Told]
             /\ \/ x \in posted
                \/ \E e \in cdp : x.id = e.command.id
                \/ \E r : In(r, list) /\ x.id = r.id /\ (x.outcome = "ok" => Done(r.by)')
  <2>1. CASE x \in posted
    BY <2>1 DEF CommandTypes
  <2>2. ASSUME NEW r \in Now, x = [id |-> r.id, outcome |-> "ok"]
        PROVE  x \in [id : Nat, outcome : Told] /\ In(r, list) /\ x.id = r.id /\ Done(r.by)'
    <3> HIDE DEF Now
    <3> QED BY <1>3, <2>2 DEF Command, Told
  <2>3. ASSUME NEW r \in fails, x = [id |-> r.id, outcome |-> "error"]
        PROVE  x \in [id : Nat, outcome : Told] /\ In(r, list) /\ x.id = r.id /\ x.outcome # "ok"
    BY <1>4, <2>3 DEF Command, Told
  <2>4. ASSUME NEW d \in done, x = [id |-> d.command.id, outcome |-> d.result]
        PROVE  x \in [id : Nat, outcome : Told] /\ d \in cdp /\ x.id = d.command.id
    BY <1>5, <2>4 DEF Command
  <2>5. \/ x \in posted
        \/ \E r \in Now : x = [id |-> r.id, outcome |-> "ok"]
        \/ \E r \in fails : x = [id |-> r.id, outcome |-> "error"]
        \/ \E d \in done : x = [id |-> d.command.id, outcome |-> d.result]
    BY <1>1, <1>7
  <2> HIDE DEF Now, Asks
  <2> QED BY <2>1, <2>2, <2>3, <2>4, <2>5
<1> QED BY <1>1, <1>6, <1>7

LEMMA RunsHolds ==
  ASSUME CommandInv, NEW k \in Polls, Commands!run_browser_commands(k)
  PROVE  CommandInv'
<1> USE DEF CommandInv
<1>1. PICK list : list = response[k]
  OBVIOUS
<1>2. PICK fails \in SUBSET {r \in Commands!Range(list) :
                               Commands!IsReady(r) /\ r.kind = "devtools"} :
        Commands!Executes(list, fails, deferred, {})
  BY <1>1 DEF Commands!run_browser_commands
<1>3. /\ UNCHANGED <<queue, caller, slot, opened, restarts, withdrawn>>
      /\ response' = [response EXCEPT ![k] = <<>>]
  BY DEF Commands!run_browser_commands
<1>4. response'[k] = <<>> /\ \A n \in Polls \ {k} : response'[n] = response[n]
  BY <1>3 DEF CommandTypes
<1>5. /\ OneEach(list) /\ OneEach(deferred) /\ OneEach(ran)
      /\ Calls(list) \cap Calls(deferred) = {} /\ Calls(list) \cap Calls(ran) = {}
      /\ Calls(deferred) \cap Calls(ran) = {} /\ Calls(list) \cap Calls(queue.pending) = {}
      /\ \A n \in Polls \ {k} : Calls(list) \cap Calls(response[n]) = {}
  BY <1>1 DEF OnePlace, Apart
<1>6. /\ OneEach(deferred') /\ OneEach(ran') /\ Calls(deferred') \cap Calls(ran') = {}
      /\ Calls(deferred') \subseteq Calls(deferred) \cup Calls(list)
      /\ Calls(ran) \subseteq Calls(ran') /\ Calls(ran') \subseteq Calls(ran) \cup Calls(list)
      /\ \A r : In(r, deferred') => In(r, deferred) \/ In(r, list)
      /\ \A r : In(r, list) /\ r \notin fails /\ Commands!IsReady(r) =>
           r.by \in Calls(ran') \cup skipped'
  <2>1. PICK kept : kept = deferred
    OBVIOUS
  <2>2. OneEach(kept) /\ Calls(list) \cap Calls(kept) = {} /\ Calls(kept) \cap Calls(ran) = {}
        /\ Commands!Executes(list, fails, kept, {})
    BY <1>2, <1>5, <2>1
  <2>3. /\ OneEach(deferred') /\ OneEach(ran') /\ Calls(deferred') \cap Calls(ran') = {}
        /\ Calls(deferred') \subseteq Calls(kept) \cup Calls(list)
        /\ Calls(ran) \subseteq Calls(ran') /\ Calls(ran') \subseteq Calls(ran) \cup Calls(list)
        /\ \A r : In(r, deferred') => In(r, kept) \/ In(r, list)
        /\ \A r : In(r, list) /\ r \notin fails /\ Commands!IsReady(r) =>
             r.by \in Calls(ran') \cup skipped'
    BY <1>5, <2>2, OfExecutes
  <2> QED BY <2>1, <2>3
<1>7. /\ cdp' \subseteq [command : Command, result : {None} \cup Told]
      /\ posted' \subseteq [id : Nat, outcome : Told]
      /\ \A d \in cdp' : \/ \E e \in cdp : e.command = d.command
                         \/ In(d.command, list) /\ Done(d.command.by)'
      /\ \A x \in posted' :
           \/ x \in posted
           \/ \E e \in cdp : x.id = e.command.id
           \/ \E r : In(r, list) /\ x.id = r.id /\ (x.outcome = "ok" => Done(r.by)')
      /\ skipped \subseteq skipped'
  <2>1. \A r \in fails : In(r, list)
    BY <1>2 DEF In, Commands!Range
  <2>2. \A r : In(r, list) /\ r \notin fails /\ Commands!IsReady(r) => Done(r.by)'
    BY <1>6 DEF Done
  <2>3. PICK kept, done : kept = deferred /\ done = {}
    OBVIOUS
  <2>4. done \in SUBSET cdp /\ (\A d \in done : d.result # None)
        /\ Commands!Executes(list, fails, kept, done)
    BY <1>2, <2>3
  <2> HIDE DEF CommandInv
  <2> QED BY <1>5, <2>1, <2>2, <2>4, OfOutcomes
<1>8. CommandTypes'
  <2>1. response' \in [Polls -> Seq(Command)]
    BY <1>3, OfNone DEF CommandTypes, OneEach
  <2> QED BY <1>3, <1>7, <2>1 DEF CommandTypes
<1>9. OnePlace'
  <2>1. /\ OneEach(queue.pending) /\ OneEach(deferred') /\ OneEach(ran')
        /\ Apart(queue.pending, deferred') /\ Apart(queue.pending, ran') /\ Apart(deferred', ran')
    BY <1>5, <1>6 DEF OnePlace, Apart
  <2>2. ASSUME NEW n \in Polls
        PROVE  /\ OneEach(response'[n]) /\ Apart(response'[n], queue.pending)
               /\ Apart(response'[n], deferred') /\ Apart(response'[n], ran')
               /\ \A m \in Polls \ {n} : Apart(response'[n], response'[m])
    <3>1. CASE n = k
      BY <1>4, <3>1, OfNone DEF Apart
    <3>2. CASE n # k
      <4>1. /\ OneEach(response'[n]) /\ Apart(response'[n], queue.pending)
            /\ Apart(response'[n], deferred') /\ Apart(response'[n], ran')
        BY <1>4, <1>5, <1>6, <3>2 DEF OnePlace, Apart
      <4>2. \A m \in Polls \ {n} : Apart(response'[n], response'[m])
        BY <1>4, <3>2, OfNone DEF OnePlace, Apart
      <4> QED BY <4>1, <4>2
    <3> QED BY <3>1, <3>2
  <2> QED BY <1>3, <2>1, <2>2 DEF OnePlace
<1>10. NoCommand'
  <2>1. ASSUME NEW e, IsNowhere(e) PROVE IsNowhere(e)'
    BY <1>1, <1>3, <1>4, <1>6, <2>1, OfNone DEF IsNowhere
  <2> QED BY <1>3, <2>1, MovesKept
<1>11. Numbers'
  <2>1. \A r : In(r, list) => Listed(r)
    BY <1>1 DEF Listed
  <2>2. ASSUME NEW r PROVE Listed(r)' => Listed(r)
    BY <1>3, <1>4, <1>6, <2>1, OfNone DEF Listed
  <2>3. \A c : Done(c) => Done(c)'
    BY <1>6, <1>7 DEF Done
  <2>4. /\ \A d \in cdp' : \/ \E e \in cdp : e.command = d.command
                           \/ Listed(d.command) /\ Done(d.command.by)'
        /\ \A x \in posted' :
             \/ x \in posted
             \/ \E e \in cdp : x.id = e.command.id
             \/ \E r : Listed(r) /\ x.id = r.id /\ (x.outcome = "ok" => Done(r.by)')
    BY <1>7, <2>1
  <2> HIDE DEF CommandInv
  <2> QED BY <1>3, <2>2, <2>3, <2>4, NumbersKept
<1> QED BY <1>8, <1>9, <1>10, <1>11

LEMMA PollsHolds ==
  ASSUME CommandInv, Commands!poll_browser_commands
  PROVE  CommandInv'
<1> USE DEF CommandInv
<1>1. PICK list, kept, done : list = deferred /\ kept = <<>> /\ done = {d \in cdp : d.result # None}
  OBVIOUS
<1>2. PICK fails \in SUBSET {r \in Commands!Range(list) :
                               Commands!IsReady(r) => r.kind = "devtools"} :
        Commands!Executes(list, fails, kept, done)
  BY <1>1 DEF Commands!poll_browser_commands
<1>3. UNCHANGED <<queue, caller, slot, response, opened, restarts, withdrawn>>
  BY DEF Commands!poll_browser_commands
<1>4. /\ OneEach(list) /\ OneEach(kept) /\ OneEach(ran) /\ Calls(kept) = {}
      /\ Calls(list) \cap Calls(kept) = {} /\ Calls(list) \cap Calls(ran) = {}
      /\ Calls(kept) \cap Calls(ran) = {}
  BY <1>1, OfNone DEF OnePlace, Apart
<1>5. /\ OneEach(deferred') /\ OneEach(ran') /\ Calls(deferred') \cap Calls(ran') = {}
      /\ Calls(deferred') \subseteq Calls(kept) \cup Calls(list)
      /\ Calls(ran) \subseteq Calls(ran') /\ Calls(ran') \subseteq Calls(ran) \cup Calls(list)
      /\ \A r : In(r, deferred') => In(r, kept) \/ In(r, list)
      /\ \A r : In(r, list) /\ r \notin fails /\ Commands!IsReady(r) =>
           r.by \in Calls(ran') \cup skipped'
  BY <1>2, <1>4, OfExecutes
<1>6. /\ cdp' \subseteq [command : Command, result : {None} \cup Told]
      /\ posted' \subseteq [id : Nat, outcome : Told]
      /\ \A d \in cdp' : \/ \E e \in cdp : e.command = d.command
                         \/ In(d.command, list) /\ Done(d.command.by)'
      /\ \A x \in posted' :
           \/ x \in posted
           \/ \E e \in cdp : x.id = e.command.id
           \/ \E r : In(r, list) /\ x.id = r.id /\ (x.outcome = "ok" => Done(r.by)')
      /\ skipped \subseteq skipped'
  <2>1. \A r \in fails : In(r, list)
    BY <1>2 DEF In, Commands!Range
  <2>2. \A r : In(r, list) /\ r \notin fails /\ Commands!IsReady(r) => Done(r.by)'
    BY <1>5 DEF Done
  <2>3. done \in SUBSET cdp /\ \A d \in done : d.result # None
    BY <1>1
  <2> HIDE DEF CommandInv
  <2> QED BY <1>2, <1>4, <2>1, <2>2, <2>3, OfOutcomes
<1>7. CommandTypes'
  BY <1>3, <1>6 DEF CommandTypes
<1>8. /\ Calls(deferred') \subseteq Calls(deferred)
      /\ Calls(ran') \subseteq Calls(ran) \cup Calls(deferred)
  BY <1>1, <1>4, <1>5
<1>9. OnePlace'
  <2>1. /\ OneEach(queue.pending) /\ OneEach(deferred') /\ OneEach(ran')
        /\ Apart(queue.pending, deferred') /\ Apart(queue.pending, ran') /\ Apart(deferred', ran')
    BY <1>5, <1>8 DEF OnePlace, Apart
  <2>2. ASSUME NEW n \in Polls
        PROVE  /\ OneEach(response'[n]) /\ Apart(response'[n], queue.pending)
               /\ Apart(response'[n], deferred') /\ Apart(response'[n], ran')
               /\ \A m \in Polls \ {n} : Apart(response'[n], response'[m])
    BY <1>3, <1>8 DEF OnePlace, Apart
  <2> QED BY <1>3, <2>1, <2>2 DEF OnePlace
<1>10. NoCommand'
  <2>1. ASSUME NEW e, IsNowhere(e) PROVE IsNowhere(e)'
    BY <1>3, <1>8, <2>1 DEF IsNowhere
  <2> QED BY <1>3, <2>1, MovesKept
<1>11. Numbers'
  <2>1. \A r : In(r, list) => Listed(r)
    BY <1>1 DEF Listed
  <2>2. ASSUME NEW r PROVE Listed(r)' => Listed(r)
    BY <1>1, <1>3, <1>5, OfNone DEF Listed
  <2>3. \A c : Done(c) => Done(c)'
    BY <1>5, <1>6 DEF Done
  <2>4. /\ \A d \in cdp' : \/ \E e \in cdp : e.command = d.command
                           \/ Listed(d.command) /\ Done(d.command.by)'
        /\ \A x \in posted' :
             \/ x \in posted
             \/ \E e \in cdp : x.id = e.command.id
             \/ \E r : Listed(r) /\ x.id = r.id /\ (x.outcome = "ok" => Done(r.by)')
    BY <1>6, <2>1
  <2> HIDE DEF CommandInv
  <2> QED BY <1>3, <2>2, <2>3, <2>4, NumbersKept
<1> QED BY <1>7, <1>9, <1>10, <1>11

LEMMA CommandsStay == CommandInv /\ UNCHANGED Commands!vars => CommandInv'
<1> SUFFICES ASSUME CommandInv, UNCHANGED Commands!vars PROVE CommandInv'
  OBVIOUS
<1> USE DEF CommandInv
<1>1. UNCHANGED <<queue, caller, slot, response, deferred, cdp, posted, restarts, ran, skipped,
                  withdrawn>>
  BY DEF Commands!vars, Commands!history
<1>2. \A e : (IsNowhere(e)' <=> IsNowhere(e)) /\ (Done(e)' <=> Done(e))
             /\ (Listed(e)' <=> Listed(e))
  BY <1>1 DEF IsNowhere, Done, Listed
<1>3. CommandTypes' /\ OnePlace'
  BY <1>1 DEF CommandTypes, OnePlace, Apart
<1>4. NoCommand'
  BY <1>1, <1>2, MovesKept
<1>5. Numbers'
  BY <1>1, <1>2, NumbersKept
<1> QED BY <1>3, <1>4, <1>5

LEMMA CommandStep == CommandInv /\ [Commands!Next]_(Commands!vars) => CommandInv'
<1> SUFFICES ASSUME CommandInv, [Commands!Next]_(Commands!vars) PROVE CommandInv'
  OBVIOUS
<1>1. ASSUME NEW c \in Callers, NEW kind \in Commands!Kinds, Commands!browser_command(c, kind)
      PROVE  CommandInv'
  BY <1>1, AsksHolds
<1>2. ASSUME NEW c \in Callers,
             Commands!Receives(c) \/ Commands!TimesOut(c) \/ Commands!Withdraws(c)
      PROVE  CommandInv'
  BY <1>2, CallerHolds, WithdrawsHolds
<1>3. ASSUME NEW k \in Polls,
             \/ Commands!take_browser_commands(k) \/ Commands!ResponseLost(k)
             \/ Commands!run_browser_commands(k)
      PROVE  CommandInv'
  BY <1>3, TakesHolds, LostHolds, RunsHolds
<1>4. ASSUME NEW r \in posted, Commands!resolve_browser_command(r) \/ Commands!ResultLost(r)
      PROVE  CommandInv'
  BY <1>4, ResolvesHolds
<1>5. CASE \/ \E d \in cdp : Commands!PageAnswers(d)
           \/ Commands!PageOpens \/ Commands!PageCloses
  BY <1>5, PageHolds
<1>6. CASE Commands!poll_browser_commands
  BY <1>6, PollsHolds
<1>7. CASE Commands!ServiceRestarts
  BY <1>7, RestartHolds
<1>8. CASE UNCHANGED Commands!vars
  BY <1>8, CommandsStay
<1> QED
  BY <1>1, <1>2, <1>3, <1>4, <1>5, <1>6, <1>7, <1>8 DEF Commands!Next

\* The variables of BrowserCommands take its steps or keep their values.
LEMMA FollowsCommands == MCSpec => Commands!Spec
<1>1. MCInit => Commands!Init
  BY DEF MCInit
<1>2. ASSUME MCNext PROVE Commands!Next \/ UNCHANGED Commands!vars
  <2> USE DEF commandVars, Commands!vars, Commands!history
  <2>1. CASE InstallNext
    BY <2>1 DEF InstallNext, OnInstall
  <2>2. CASE PageNext
    BY <2>2 DEF PageNext, OnPage
  <2>3. CASE CommandsNext
    BY <2>3 DEF CommandsNext, OnCommands, Commands!Next
  <2>4. CASE RemoteNext
    BY <2>4 DEF RemoteNext, OnRemote
  <2>5. CASE BotsNext
    BY <2>5 DEF BotsNext, OnBots
  <2>6. CASE PasteNext
    BY <2>6 DEF PasteNext, OnPaste
  <2> QED BY <1>2, <2>1, <2>2, <2>3, <2>4, <2>5, <2>6 DEF MCNext
<1>3. UNCHANGED allVars => UNCHANGED Commands!vars
  BY DEF allVars, commandVars, Commands!vars, Commands!history
<1> QED BY <1>1, <1>2, <1>3, PTL DEF MCSpec, Commands!Spec

\* Every call has at most one position in the list of what ran.
LEMMA RunsOnce ==
  ASSUME NEW c, OneEach(ran)
  PROVE  /\ Commands!TimesRun(c) <= 1
         /\ c \in Calls(ran) => Commands!TimesRun(c) = 1
         /\ c \notin Calls(ran) => Commands!TimesRun(c) = 0
<1> DEFINE Runs == {i \in DOMAIN ran : ran[i].by = c}
<1>1. Commands!TimesRun(c) = Cardinality(Runs)
  BY DEF Commands!TimesRun, Commands!Cardinality, Cardinality
<1>2. CASE c \in Calls(ran)
  <2>1. PICK i \in DOMAIN ran : ran[i].by = c
    BY <1>2 DEF Calls, Commands!CallsOf
  <2>2. Runs = {i}
    BY <2>1 DEF OneEach
  <2>3. Cardinality(Runs) = 1
    <3> HIDE DEF Runs
    <3> QED BY <2>2, FS_Singleton
  <2> QED BY <1>1, <1>2, <2>3
<1>3. CASE c \notin Calls(ran)
  <2>1. Runs = {}
    BY <1>3 DEF Calls, Commands!CallsOf
  <2>2. Cardinality(Runs) = 0
    <3> HIDE DEF Runs
    <3> QED BY <2>1, FS_EmptySet
  <2> QED BY <1>1, <1>3, <2>2
<1> QED BY <1>2, <1>3

\* browser_command_with_timeout: a command runs at most once, and what its
\* caller was told of it is true.
THEOREM AnswersAreTrueHolds == MCSpec => []AnswersAreTrue
<1>1. CommandInv => AnswersAreTrue
  <2> SUFFICES ASSUME CommandInv, NEW c \in Callers
               PROVE  /\ Commands!TimesRun(c) <= 1
                      /\ c \in withdrawn => Commands!TimesRun(c) = 0
                      /\ caller[c] = "ok" =>
                           Commands!TimesRun(c) = 1 \/ c \in skipped \/ restarts > 0
    BY DEF AnswersAreTrue, Commands!AnswersAreTrue
  <2>1. OneEach(ran) /\ restarts \in Nat
    BY DEF CommandInv, OnePlace, CommandTypes
  <2>2. c \in withdrawn => c \notin Calls(ran)
    BY DEF CommandInv, NoCommand, IsNowhere
  <2>3. caller[c] = "ok" /\ restarts = 0 => c \in Calls(ran) \/ c \in skipped
    BY DEF CommandInv, Numbers, TrueOutcomes, Done
  <2>4. restarts = 0 \/ restarts > 0
    BY <2>1
  <2> QED BY <2>1, <2>2, <2>3, <2>4, RunsOnce
<1> QED BY <1>1, CommandInit, CommandStep, FollowsCommands, PTL DEF Commands!Spec

-----------------------------------------------------------------------------
(***************************************************************************)
(* FilePaste, for any files and places.  What each step of a paste knows:  *)
(* which copies there are (Copies), and, as long as every removal worked,  *)
(* which there are not any more (NoneLeft).                                *)
(***************************************************************************)
Before == {"offer", "paste", "unoffer", "write"}
Sending == {"stage", "begin upload", "upload", "unstage", "unstage failed", "unclip",
            "unclip uploaded"}
Arrived == {"complete", "insert", "inserted"}

PasteTypes ==
  /\ source # {} /\ remote \in BOOLEAN
  /\ expected \in Places /\ place \in Places \cup {Nowhere}
  /\ at \in Before \cup Sending \cup Arrived \cup {"abort", "accepted", "failed"}
  /\ late \in {"none", "paste", "insert"}
  /\ offered \in BOOLEAN /\ clip \in BOOLEAN /\ unheard \in BOOLEAN /\ unclean \in BOOLEAN
  /\ todo \subseteq source /\ staged \subseteq source /\ uploaded \subseteq source
  /\ reached \subseteq {"event", "paths"} \X Places

\* What the program got, and what the desktop heard of it.
Received ==
  /\ \A p \in Places : <<"paths", p>> \in reached => p = expected
  /\ ~unheard => /\ at = "inserted" <=> <<"paths", expected>> \in reached
                 /\ at = "accepted" <=> \E p \in Places : <<"event", p>> \in reached

Copies ==
  /\ at \in Sending => remote
  /\ ~remote => staged = {} /\ uploaded = {}
  /\ at \in Before => ~clip /\ staged = {}
  /\ at \in Before \cup {"stage", "begin upload", "accepted"} => uploaded = {}
  /\ at = "accepted" => ~clip /\ staged = {}
  /\ at = "upload" => uploaded = source \ todo
  /\ at \in Arrived \cup {"unstage", "unclip uploaded"} /\ remote => uploaded = source
  /\ at \in Arrived /\ ~remote /\ source = {Clip} => clip
  /\ source # {Clip} => at # "write"

NoneLeft == ~unclean =>
  /\ offered => at \in {"paste", "unoffer"}
  /\ staged # {} => at \in Sending \ {"unclip", "unclip uploaded"}
  /\ at \in {"unstage failed", "unclip", "failed"} => uploaded = {}
  /\ clip => IF remote THEN at \in Sending ELSE at \in Arrived \cup {"abort"}

PasteInv == PasteTypes /\ Received /\ Copies /\ NoneLeft

LEMMA PairOf ==
  ASSUME NEW S, NEW T, NEW x \in S \X T
  PROVE  x = <<x[1], x[2]>> /\ x[1] \in S /\ x[2] \in T
OBVIOUS

LEMMA PasteInit == Paste!Init => PasteInv
<1> SUFFICES ASSUME Paste!Init PROVE PasteInv
  OBVIOUS
<1>1. /\ remote \in BOOLEAN /\ place \in Places /\ expected = place
      /\ todo = source /\ late = "none" /\ offered = FALSE /\ clip = FALSE
      /\ staged = {} /\ uploaded = {} /\ reached = {} /\ unheard = FALSE /\ unclean = FALSE
  BY DEF Paste!Init
<1>2. source # {}
  <2>1. source \in {{Clip}} \cup ((SUBSET Files) \ {{}})
    BY DEF Paste!Init
  <2>2. CASE source \in {{Clip}}
    <3>1. Clip \in source
      BY <2>2
    <3> QED BY <3>1
  <2>3. CASE source \in (SUBSET Files) \ {{}}
    BY <2>3
  <2> QED BY <2>1, <2>2, <2>3
<1>3. /\ at \in {"offer", "write", "stage", "complete"}
      /\ at = "write" => source = {Clip}
      /\ at = "stage" => remote
      /\ at = "complete" => ~remote /\ source # {Clip}
  BY DEF Paste!Init, Paste!TypePaths, Paste!Transfer
<1> USE DEF Before, Sending, Arrived
<1>4. PasteTypes
  BY <1>1, <1>2, <1>3 DEF PasteTypes
<1>5. Received /\ Copies /\ NoneLeft
  BY <1>1, <1>3 DEF Received, Copies, NoneLeft
<1> QED BY <1>4, <1>5 DEF PasteInv

LEMMA PasteStep == PasteInv /\ [Paste!Next]_(Paste!vars) => PasteInv'
<1> SUFFICES ASSUME PasteInv, [Paste!Next]_(Paste!vars) PROVE PasteInv'
  OBVIOUS
<1> USE NowhereAssumption
    DEF PasteInv, PasteTypes, Received, Copies, NoneLeft, Before, Sending, Arrived,
        Paste!Goes, Paste!TypePaths, Paste!Transfer, Paste!others, Paste!constantly,
        Paste!history, Paste!copies
<1>1. CASE Paste!WritesOffer
  BY <1>1 DEF Paste!WritesOffer
<1>2. CASE Paste!WriteOfferFails
  BY <1>2 DEF Paste!WriteOfferFails
<1>3. CASE Paste!paste_image
  <2>1. PasteTypes'
    <3>1. <<"event", place>> \in {"event", "paths"} \X Places
      BY <1>3 DEF Paste!paste_image
    <3>2. reached' \subseteq {"event", "paths"} \X Places
      BY <1>3, <3>1 DEF Paste!paste_image
    <3> QED BY <1>3, <3>2 DEF Paste!paste_image
  <2>2. Received'
    BY <1>3 DEF Paste!paste_image
  <2>3. Copies'
    BY <1>3 DEF Paste!paste_image
  <2>4. NoneLeft'
    BY <1>3 DEF Paste!paste_image
  <2> QED BY <2>1, <2>2, <2>3, <2>4
<1>4. CASE Paste!PasteImageFails
  BY <1>4 DEF Paste!PasteImageFails
<1>5. CASE Paste!Unoffers
  BY <1>5 DEF Paste!Unoffers
<1>6. CASE Paste!TimesOut
  BY ZenonT(60), <1>6 DEF Paste!TimesOut
<1>7. CASE Paste!PasteImageLate
  <2>1. PasteTypes'
    <3>1. <<"event", place>> \in {"event", "paths"} \X Places
      BY <1>7 DEF Paste!PasteImageLate
    <3>2. reached' \subseteq {"event", "paths"} \X Places
      BY <1>7, <3>1 DEF Paste!PasteImageLate
    <3> QED BY <1>7, <3>2 DEF Paste!PasteImageLate
  <2>2. Received'
    BY <1>7 DEF Paste!PasteImageLate
  <2>3. Copies'
    BY <1>7 DEF Paste!PasteImageLate
  <2>4. NoneLeft'
    BY <1>7 DEF Paste!PasteImageLate
  <2> QED BY <2>1, <2>2, <2>3, <2>4
<1>8. CASE Paste!write_paste_png
  BY <1>8 DEF Paste!write_paste_png
<1>9. CASE Paste!WriteClipFails
  BY <1>9 DEF Paste!WriteClipFails
<1>10. CASE Paste!ValidateFails
  BY <1>10 DEF Paste!ValidateFails
<1>11. ASSUME NEW f \in source, Paste!stage_remote_source(f) PROVE PasteInv'
  BY <1>11 DEF Paste!stage_remote_source
<1>12. ASSUME NEW f \in source, Paste!StageFails(f) PROVE PasteInv'
  <2>1. PasteTypes'
    BY <1>12 DEF Paste!StageFails
  <2>2. Received'
    BY <1>12 DEF Paste!StageFails
  <2>3. Copies'
    BY <1>12 DEF Paste!StageFails
  <2>4. NoneLeft'
    BY <1>12 DEF Paste!StageFails
  <2> QED BY <2>1, <2>2, <2>3, <2>4
<1>13. ASSUME NEW f \in source, Paste!Uploads(f) PROVE PasteInv'
  BY <1>13 DEF Paste!Uploads
<1>14. ASSUME NEW f \in source, Paste!UploadFails(f) PROVE PasteInv'
  <2>1. PasteTypes'
    <3>1. PICK rest \in SUBSET (uploaded \cup {f}) :
            uploaded' = rest /\ unclean' = (unclean \/ rest # {})
      BY <1>14 DEF Paste!UploadFails, Paste!RemovesUploads
    <3>2. uploaded' \subseteq source /\ unclean' \in BOOLEAN
      BY <3>1
    <3> QED BY <1>14, <3>2 DEF Paste!UploadFails
  <2>2. Received'
    BY <1>14 DEF Paste!UploadFails, Paste!RemovesUploads
  <2>3. Copies'
    BY <1>14 DEF Paste!UploadFails, Paste!RemovesUploads
  <2>4. NoneLeft'
    BY <1>14 DEF Paste!UploadFails, Paste!RemovesUploads
  <2> QED BY <2>1, <2>2, <2>3, <2>4
<1>15. CASE Paste!BeginsUpload
  BY <1>15 DEF Paste!BeginsUpload
<1>16. CASE Paste!remove_staged_sources
  BY <1>16 DEF Paste!remove_staged_sources
<1>17. CASE Paste!UnstageFails
  BY <1>17 DEF Paste!UnstageFails
<1>18. CASE Paste!RemovesClip
  BY <1>18 DEF Paste!RemovesClip
<1>19. CASE Paste!RemoveClipFails
  BY <1>19 DEF Paste!RemoveClipFails
<1>20. CASE Paste!Revalidates
  BY <1>20 DEF Paste!Revalidates
<1>21. CASE Paste!RevalidationFails
  BY <1>21 DEF Paste!RevalidationFails
<1>22. CASE Paste!authorized_write_input
  <2>5. place = expected /\ reached' = reached \cup {<<"paths", expected>>}
    BY <1>22 DEF Paste!authorized_write_input, Paste!InsertsAnywhere
  <2>1. PasteTypes'
    <3>1. <<"paths", expected>> \in {"event", "paths"} \X Places
      OBVIOUS
    <3>2. reached' \subseteq {"event", "paths"} \X Places
      BY <2>5, <3>1
    <3> QED BY <1>22, <3>2 DEF Paste!authorized_write_input, Paste!InsertsAnywhere
  <2>2. Received'
    <3>1. ASSUME NEW p \in Places
          PROVE  /\ <<"paths", p>> \in reached' => <<"paths", p>> \in reached \/ p = expected
                 /\ <<"event", p>> \in reached' => <<"event", p>> \in reached
      BY <2>5
    <3>5. \A p \in Places : <<"paths", p>> \in reached => p = expected
      OBVIOUS
    <3>2. ASSUME NEW p \in Places, <<"paths", p>> \in reached' PROVE p = expected
      BY <3>1, <3>2, <3>5
    <3>3. ~unheard' => ~unheard /\ at' = "inserted" /\ at = "insert"
      BY <1>22 DEF Paste!authorized_write_input, Paste!InsertsAnywhere
    <3>4. expected' = expected
      BY <1>22 DEF Paste!authorized_write_input, Paste!InsertsAnywhere
    <3>6. <<"paths", expected>> \in reached'
      BY <2>5
    <3>7. ~unheard' => ~\E p \in Places : <<"event", p>> \in reached'
      BY <3>1, <3>3
    <3> QED BY <3>2, <3>3, <3>4, <3>6, <3>7
  <2>3. Copies'
    BY <1>22 DEF Paste!authorized_write_input, Paste!InsertsAnywhere
  <2>4. NoneLeft'
    BY <1>22 DEF Paste!authorized_write_input, Paste!InsertsAnywhere
  <2> QED BY <2>1, <2>2, <2>3, <2>4
<1>23. CASE Paste!InsertFails
  BY <1>23 DEF Paste!InsertFails
<1>24. CASE Paste!cleanup_aborted_transfer
  BY <1>24 DEF Paste!cleanup_aborted_transfer, Paste!RemovesUploads
<1>25. CASE Paste!PaneMoves
  <2>1. PasteTypes'
    BY <1>25 DEF Paste!PaneMoves
  <2>2. Received'
    BY <1>25 DEF Paste!PaneMoves
  <2>3. Copies'
    BY <1>25 DEF Paste!PaneMoves
  <2>4. NoneLeft'
    BY <1>25 DEF Paste!PaneMoves
  <2> QED BY <2>1, <2>2, <2>3, <2>4
<1>26. CASE UNCHANGED Paste!vars
  <2>1. PasteTypes'
    BY ZenonT(60), <1>26 DEF Paste!vars
  <2>2. Received'
    BY <1>26 DEF Paste!vars
  <2>3. Copies'
    BY <1>26 DEF Paste!vars
  <2>4. NoneLeft'
    BY <1>26 DEF Paste!vars
  <2> QED BY <2>1, <2>2, <2>3, <2>4
<1> QED
  BY <1>1, <1>2, <1>3, <1>4, <1>5, <1>6, <1>7, <1>8, <1>9, <1>10, <1>11, <1>12, <1>13, <1>14,
     <1>15, <1>16, <1>17, <1>18, <1>19, <1>20, <1>21, <1>22, <1>23, <1>24, <1>25, <1>26
  DEF Paste!Next

\* The variables of FilePaste take its steps or keep their values.
LEMMA FollowsPaste == MCSpec => Paste!Spec
<1>1. MCInit => Paste!Init
  BY DEF MCInit
<1>2. ASSUME MCNext PROVE Paste!Next \/ UNCHANGED Paste!vars
  <2> USE DEF pasteVars, Paste!vars
  <2>1. CASE InstallNext
    BY <2>1 DEF InstallNext, OnInstall
  <2>2. CASE PageNext
    BY <2>2 DEF PageNext, OnPage
  <2>3. CASE CommandsNext
    BY <2>3 DEF CommandsNext, OnCommands
  <2>4. CASE RemoteNext
    BY <2>4 DEF RemoteNext, OnRemote
  <2>5. CASE BotsNext
    BY <2>5 DEF BotsNext, OnBots
  <2>6. CASE PasteNext
    BY <2>6 DEF PasteNext, OnPaste, Paste!Next
  <2> QED BY <1>2, <2>1, <2>2, <2>3, <2>4, <2>5, <2>6 DEF MCNext
<1>3. UNCHANGED allVars => UNCHANGED Paste!vars
  BY DEF allVars, pasteVars, Paste!vars
<1> QED BY <1>1, <1>2, <1>3, PTL DEF MCSpec, Paste!Spec

\* start_file_paste: a paste arrives whole or not at all, and cleans up.
THEOREM PastesArriveWholeHolds == MCSpec => []PastesArriveWhole
<1>1. PasteInv => PastesArriveWhole
  <2> SUFFICES ASSUME PasteInv PROVE PastesArriveWhole
    OBVIOUS
  <2> USE DEF PasteInv, PasteTypes, Received, Copies, NoneLeft, Before, Sending, Arrived
  <2>1. Paste!Got("paths") <=> <<"paths", expected>> \in reached
    BY DEF Paste!Got
  <2>2. Paste!Got("event") <=> \E p \in Places : <<"event", p>> \in reached
    BY DEF Paste!Got
  <2>3. Paste!Got("paths") => reached \cap ({"paths"} \X Places) = {<<"paths", expected>>}
    <3>1. ASSUME NEW x \in reached \cap ({"paths"} \X Places) PROVE x = <<"paths", expected>>
      <4>1. x \in {"paths"} \X Places /\ x \in reached
        BY <3>1
      <4>2. x = <<x[1], x[2]>> /\ x[1] \in {"paths"} /\ x[2] \in Places
        <5> HIDE DEF PasteInv
        <5> QED BY <4>1, PairOf
      <4>3. x = <<"paths", x[2]>>
        BY <4>2
      <4> QED BY <4>1, <4>2, <4>3
    <3>2. expected \in Places
      OBVIOUS
    <3> QED BY <2>1, <3>1, <3>2
  <2> QED BY <2>1, <2>2, <2>3 DEF PastesArriveWhole, Paste!PastesArriveWhole, Paste!Ended
<1> QED BY <1>1, PasteInit, PasteStep, FollowsPaste, PTL DEF Paste!Spec

-----------------------------------------------------------------------------
(***************************************************************************)
(* BotThreads, for any panes, threads and shells.  Every statement about a *)
(* pane is about one that no restart shared with another job.              *)
(***************************************************************************)
LaunchNumber == -1 .. MaxShells

IsSpec(sp) == sp = [launch |-> sp.launch, order |-> sp.order]
              /\ sp.launch \in [Panes -> LaunchNumber]

IsJob(j) ==
  /\ j = [op |-> j.op, step |-> j.step, pane |-> j.pane, old |-> j.old, new |-> j.new,
          todo |-> j.todo, spec |-> j.spec]
  /\ j.pane \in Panes \cup {Nowhere} /\ j.todo \subseteq Panes /\ IsSpec(j.spec)

BotTypes ==
  /\ terminals \subseteq Panes /\ mark \subseteq Panes /\ IsSpec(spec)
  /\ shell \in [Panes -> 0 .. MaxShells]
  /\ running \subseteq Bots!Shells /\ agent \subseteq running /\ reports \subseteq Bots!Shells
  /\ home \in [Bots!Shells -> Panes \cup {Nowhere}]
  /\ nextShell \in Nat \ {0}

JobTypes == job = [t \in Threads |-> job[t]] /\ \A t \in Threads : IsJob(job[t])

\* The shell that the job of t has started and not given away.
HasNew(t) == job[t].step \in {"commit", "install", "record"}

\* Shells are handed out in order, and each is one pane's.
ShellsHaveHomes ==
  /\ \A s \in Bots!Shells : s < nextShell <=> home[s] \in Panes
  /\ \A s \in running \cup reports : s < nextShell
  /\ \A p \in Panes : shell[p] # 0 => shell[p] < nextShell /\ home[shell[p]] = p
  /\ agent \cap reports = {}

\* A new shell has no agent yet.
NewShells == \A t \in Threads : HasNew(t) =>
  /\ job[t].new \in Bots!Shells /\ job[t].new < nextShell
  /\ job[t].pane \in Panes /\ home[job[t].new] = job[t].pane
  /\ job[t].new \notin agent \cup reports

NewShellsDiffer == \A t \in Threads, u \in Threads :
  t # u /\ HasNew(t) /\ HasNew(u) => job[u].new # job[t].new

\* A pane that anything knows of has had a shell.
Mentioned(p) == \/ p \in terminals \cup mark
                \/ \E t \in Threads : job[t].pane = p \/ p \in job[t].todo
PanesHadShells == \A p \in Panes : Mentioned(p) => \E s \in Bots!Shells : home[s] = p

\* Nothing knows of a pane whose first shell has just started.
NewPanes == \A t \in Threads : job[t].step = "commit" =>
  job[t].pane \notin terminals \cup mark \cup job[t].todo

NewPanesDiffer == \A t \in Threads, u \in Threads :
  t # u /\ job[t].step = "commit" => job[u].pane # job[t].pane /\ job[t].pane \notin job[u].todo

\* Who starts a shell for a pane is alone there.
StartsAlone == \A t \in Threads, u \in Threads :
  t # u /\ Bots!Starting(t) /\ job[u].pane = job[t].pane /\ (Bots!Starting(u) \/ Bots!Closing(u)) =>
    job[t].pane \in contested

\* What each step of a job knows of the pane's shell.
JobKnows(t) ==
  LET p == job[t].pane
  IN /\ Bots!Starting(t) \/ Bots!Closing(t) => p \in Panes
     /\ p \in terminals \ contested =>
          /\ job[t].step \in {"kill", "closeKill"} => shell[p] = job[t].old
          /\ job[t].step \in {"spawn", "install", "remove"} => shell[p] \notin running
          /\ job[t].step = "record" => shell[p] = job[t].new
          /\ job[t].step \in {"mark", "kill", "spawn", "install"} =>
               spec.launch[p] \notin Bots!Shells
JobsKnow == \A t \in Threads : JobKnows(t)

\* set_bot_agent restarts one pane, whose launch it has reset.
AgentJobs == \A t \in Threads : job[t].op = "agent" =>
  /\ ~Bots!Closing(t) /\ job[t].step # "close" => \A p, q \in job[t].todo : p = q
  /\ job[t].step = "reread" => job[t].todo = {}
  /\ job[t].step = "respec" => \A p \in job[t].todo : job[t].spec.launch[p] \notin Bots!Shells

TabsHaveShells == \A p \in Panes : p \in terminals <=> shell[p] # 0

InPlace(s) == shell[home[s]] = s \/ home[s] \in contested \/ s \in unkilled
ShellsInPlace == \A s \in running : InPlace(s) \/ \E t \in Threads : Bots!HeldBy(t, s)

MarksMeanRestarts == \A p \in terminals \ contested :
  p \in mark <=> \E t \in Threads :
                   job[t].pane = p /\ job[t].step \in {"kill", "spawn", "install"}

\* An agent whose launch is not recorded is about to be ended.
Attends(t, p) == \/ job[t].pane = p /\ job[t].step \in {"mark", "kill", "closeKill"}
                 \/ job[t].op = "agent" /\ job[t].step = "forget" /\ p \in job[t].todo

LaunchesAreShown == \A p \in terminals \ contested :
  /\ spec.launch[p] \in Bots!Shells => spec.launch[p] = shell[p]
  /\ shell[p] \in agent \ unkilled =>
       spec.launch[p] = shell[p] \/ \E t \in Threads : Attends(t, p)

BotInv ==
  /\ BotTypes /\ JobTypes /\ ShellsHaveHomes /\ NewShells /\ NewShellsDiffer
  /\ PanesHadShells /\ NewPanes /\ NewPanesDiffer /\ StartsAlone /\ JobsKnow /\ AgentJobs
  /\ TabsHaveShells /\ ShellsInPlace /\ MarksMeanRestarts /\ LaunchesAreShown

\* What the helpers on a BotSpec do to the recorded launches.
LEMMA SpecLemma ==
  ASSUME NEW sp, IsSpec(sp), NEW p \in Panes
  PROVE  /\ IsSpec(Bots!Activated(sp, p)) /\ Bots!Activated(sp, p).launch = sp.launch
         /\ IsSpec(Bots!WithEntry(sp, p))
         /\ \A q \in Panes : \/ Bots!WithEntry(sp, p).launch[q] = sp.launch[q]
                             \/ /\ sp.launch[q] \notin Bots!Shells
                                /\ Bots!WithEntry(sp, p).launch[q] \notin Bots!Shells
<1> USE MaxShellsAssumption DEF IsSpec, LaunchNumber
<1>1. IsSpec(Bots!Activated(sp, p)) /\ Bots!Activated(sp, p).launch = sp.launch
  <2>1. PICK o : o = Append(Bots!Without(p, sp.order), p)
    OBVIOUS
  <2>2. Bots!Activated(sp, p) = [sp EXCEPT !.order = o]
    BY <2>1, Zenon DEF Bots!Activated
  <2> QED BY <2>2
<1>2. PICK o : o = <<p>> \o sp.order
  OBVIOUS
<1>3. PICK l : l = [sp.launch EXCEPT ![p] = 0]
  OBVIOUS
<1>4. l \in [Panes -> LaunchNumber] /\ \A q \in Panes : l[q] = IF q = p THEN 0 ELSE sp.launch[q]
  BY <1>3
<1>5. Bots!WithEntry(sp, p) = IF sp.launch[p] # -1 THEN sp ELSE [launch |-> l, order |-> o]
  BY <1>2, <1>3 DEF Bots!WithEntry, Bots!NoEntry, Bots!NoShell
<1>6. CASE sp.launch[p] # -1
  BY <1>1, <1>5, <1>6
<1>7. CASE sp.launch[p] = -1
  <2>1. Bots!WithEntry(sp, p).launch = l /\ IsSpec(Bots!WithEntry(sp, p))
    BY <1>4, <1>5, <1>7
  <2>2. \A q \in Panes : l[q] = sp.launch[q] \/ (sp.launch[q] \notin Bots!Shells /\ l[q] \notin Bots!Shells)
    BY <1>4, <1>7 DEF Bots!Shells
  <2> QED BY <1>1, <2>1, <2>2
<1> QED BY <1>6, <1>7

LEMMA RecordedLemma ==
  ASSUME NEW sp, IsSpec(sp), NEW p \in Panes, NEW n \in 0 .. MaxShells
  PROVE  /\ IsSpec(Bots!Recorded(sp, p, n))
         /\ \A q \in Panes \ {p} : Bots!Recorded(sp, p, n).launch[q] = sp.launch[q]
         /\ Bots!Recorded(sp, p, n).launch[p] = n
<1> USE MaxShellsAssumption DEF IsSpec, LaunchNumber
<1>1. PICK w : w = Bots!WithEntry(sp, p)
  OBVIOUS
<1>2. IsSpec(w)
  BY <1>1, SpecLemma
<1>3. \A q \in Panes \ {p} : w.launch[q] = sp.launch[q]
  BY <1>1 DEF Bots!WithEntry
<1>4. Bots!Recorded(sp, p, n) = [w EXCEPT !.launch[p] = n]
  BY <1>1 DEF Bots!Recorded
<1> QED BY <1>2, <1>3, <1>4

LEMMA ForgottenLemma ==
  ASSUME NEW sp, IsSpec(sp), NEW p \in Panes
  PROVE  /\ IsSpec(Bots!Forgotten(sp, p))
         /\ \A q \in Panes \ {p} : Bots!Forgotten(sp, p).launch[q] = sp.launch[q]
         /\ Bots!Forgotten(sp, p).launch[p] \notin Bots!Shells
<1> USE MaxShellsAssumption DEF IsSpec, LaunchNumber
<1> QED BY DEF Bots!Forgotten, Bots!NoEntry, Bots!NoShell, Bots!Shells

LEMMA PrunedLemma ==
  ASSUME NEW sp, IsSpec(sp), NEW T
  PROVE  /\ IsSpec(Bots!Pruned(sp, T))
         /\ \A q \in Panes : Bots!Pruned(sp, T).launch[q] = IF q \in T THEN sp.launch[q] ELSE -1
<1> USE MaxShellsAssumption DEF IsSpec, LaunchNumber
<1>1. PICK o : o = SelectSeq(sp.order, LAMBDA q : q \in T)
  OBVIOUS
<1>2. PICK l : l = [p \in Panes |-> IF p \in T THEN sp.launch[p] ELSE -1]
  OBVIOUS
<1>3. Bots!Pruned(sp, T) = [launch |-> l, order |-> o]
  BY <1>1, <1>2 DEF Bots!Pruned, Bots!NoEntry
<1> QED BY <1>2, <1>3

LEMMA Spec0Lemma == IsSpec(Bots!Spec0) /\ \A p \in Panes : Bots!Spec0.launch[p] \notin Bots!Shells
<1>1. PICK o : o = << >>
  OBVIOUS
<1> QED BY <1>1, MaxShellsAssumption DEF IsSpec, LaunchNumber, Bots!Spec0, Bots!NoEntry, Bots!Shells

\* close_pane has ended: what is left of the job.
Closed(r, T) ==
  /\ IsJob(r) /\ r.pane = Nowhere /\ r.todo \subseteq T
  /\ r.step \in {"close", "reread", "idle"} /\ (r.step # "close" => r.todo = {})

LEMMA AfterClosingLemma ==
  ASSUME NEW j, IsJob(j), NEW T \in SUBSET Panes
  PROVE  Closed(Bots!AfterClosing(j, T), T) /\ Closed(Bots!Idle, T)
<1>1. Closed(Bots!Idle, T)
  BY Spec0Lemma DEF Closed, IsJob, Bots!Idle, Bots!NoShell
<1>2. CASE T # {}
  <2>1. PICK r : r = [j EXCEPT !.step = "close", !.todo = T, !.pane = Nowhere, !.old = 0]
    OBVIOUS
  <2>2. Bots!AfterClosing(j, T) = r
    BY <1>2, <2>1 DEF Bots!AfterClosing, Bots!NoShell
  <2>3. Closed(r, T)
    BY <1>2, <2>1 DEF Closed, IsJob
  <2> QED BY <1>1, <2>2, <2>3
<1>3. CASE T = {}
  <2>1. PICK r : r = [Bots!Idle EXCEPT !.op = "agent", !.step = "reread"]
    OBVIOUS
  <2>2. Bots!AfterClosing(j, T) \in {r, Bots!Idle}
    BY <1>3, <2>1 DEF Bots!AfterClosing
  <2>3. Closed(r, T)
    BY <2>1, Spec0Lemma DEF Closed, IsJob, Bots!Idle, Bots!NoShell
  <2> QED BY <1>1, <2>2, <2>3
<1> QED BY <1>2, <1>3

\* Every action keeps the invariant.  Each lemma says first what the step does to the job of
\* its thread and to the other variables, and then takes the conjuncts in their order.
LEMMA OpenSpawnsStep ==
  ASSUME BotInv, NEW t \in Threads, NEW p \in Panes, Bots!OpenSpawns(t, p)
  PROVE  BotInv'
<1> USE MaxShellsAssumption, NowhereAssumption DEF BotInv
<1>1. /\ job' = [u \in Threads |-> job'[u]]
      /\ job'[t] = [Bots!Idle EXCEPT !.op = "open", !.step = "commit", !.pane = p, !.new = nextShell]
  BY DEF Bots!OpenSpawns, Bots!Goes, JobTypes
<1>2. \A u \in Threads \ {t} : job'[u] = job[u]
  BY DEF Bots!OpenSpawns, Bots!Goes, JobTypes
<1>3. /\ job'[t].op = "open" /\ job'[t].step = "commit" /\ job'[t].pane = p
      /\ job'[t].old = 0 /\ job'[t].new = nextShell /\ job'[t].todo = {}
      /\ job'[t].spec = Bots!Spec0
  BY <1>1 DEF JobTypes, IsJob, Bots!Idle, Bots!NoShell, Bots!NoEntry
<1>4. IsJob(job'[t])
  BY <1>1, <1>3, Spec0Lemma DEF BotTypes, JobTypes, IsJob, Bots!Idle, Bots!NoShell,
     Bots!NoEntry
<1>5. /\ nextShell \in Bots!Shells /\ nextShell' = nextShell + 1
      /\ running' = running \cup {nextShell} /\ home' = [home EXCEPT ![nextShell] = p]
  BY DEF Bots!OpenSpawns, Bots!Spawns
<1>6. job[t].step = "idle" /\ \A s \in Bots!Shells : home[s] # p
  BY DEF Bots!OpenSpawns, Bots!Is, Bots!Begins
<1>7. UNCHANGED <<terminals, shell, mark, spec, agent, reports, contested, unkilled>>
  BY DEF Bots!OpenSpawns, Bots!Spawns
<1> USE <1>2, <1>3, <1>4, <1>5, <1>6, <1>7
<1>8. BotTypes'
  <2>1. home' \in [Bots!Shells -> Panes \cup {Nowhere}]
    BY DEF BotTypes
  <2>2. nextShell' \in Nat \ {0}
    BY DEF BotTypes
  <2> QED BY <2>1, <2>2 DEF BotTypes
<1>9. JobTypes'
  BY <1>1 DEF JobTypes
<1>10. ShellsHaveHomes'
  BY DEF BotTypes, ShellsHaveHomes, Bots!Shells
<1>11. NewShells'
  BY DEF NewShells, HasNew, BotTypes, ShellsHaveHomes, Bots!Shells
<1>12. NewShellsDiffer'
  BY DEF NewShellsDiffer, HasNew, NewShells, BotTypes, Bots!Shells
<1>13. PanesHadShells'
  BY DEF PanesHadShells, Mentioned, BotTypes, ShellsHaveHomes, Bots!Shells
<1>14. NewPanes'
  BY DEF NewPanes, NewPanesDiffer, PanesHadShells, Mentioned
<1>15. NewPanesDiffer'
  BY DEF NewPanesDiffer, NewPanes, NewShells, HasNew, PanesHadShells, Mentioned
<1>16. StartsAlone'
  BY DEF StartsAlone, Bots!Starting, Bots!Closing
<1>17. JobsKnow'
  BY DEF BotTypes, JobsKnow, JobKnows, StartsAlone, ShellsHaveHomes, Bots!Starting,
     Bots!Closing, Bots!Shells
<1>18. AgentJobs'
  BY DEF AgentJobs, Bots!Closing
<1>19. TabsHaveShells'
  BY DEF TabsHaveShells, BotTypes
<1>20. ShellsInPlace'
  <2>1. ASSUME NEW s \in running, NEW u \in Threads \ {t}, Bots!HeldBy(u, s)
        PROVE  Bots!HeldBy(u, s)'
    BY <2>1 DEF Bots!HeldBy
  <2>2. ASSUME NEW s \in running', s \in running, InPlace(s) PROVE InPlace(s)'
    BY <2>2 DEF BotTypes, ShellsInPlace, InPlace, JobsKnow, JobKnows, ShellsHaveHomes,
       Bots!HeldBy, Bots!Closing, Bots!Starting, Bots!Shells
  <2>3. ASSUME NEW s \in running', s \in running, Bots!HeldBy(t, s)
        PROVE  InPlace(s)' \/ Bots!HeldBy(t, s)'
    BY <2>3 DEF BotTypes, ShellsInPlace, InPlace, JobsKnow, JobKnows, ShellsHaveHomes,
       Bots!HeldBy, Bots!Closing, Bots!Starting, Bots!Shells
  <2>4. ASSUME NEW s \in running', s \notin running PROVE Bots!HeldBy(t, s)'
    BY <2>4 DEF Bots!HeldBy
  <2> QED BY <2>1, <2>2, <2>3, <2>4 DEF ShellsInPlace
<1>21. MarksMeanRestarts'
  BY DEF BotTypes, MarksMeanRestarts, StartsAlone, JobsKnow, JobKnows, Bots!Starting,
     Bots!Closing
<1>22. LaunchesAreShown'
  BY DEF BotTypes, LaunchesAreShown, Attends, JobsKnow, JobKnows, AgentJobs, StartsAlone,
     ShellsHaveHomes, Bots!Starting, Bots!Closing, Bots!Shells
<1> QED BY <1>8, <1>9, <1>10, <1>11, <1>12, <1>13, <1>14, <1>15, <1>16, <1>17, <1>18, <1>19,
    <1>20, <1>21, <1>22

LEMMA OpenCommitsStep ==
  ASSUME BotInv, NEW t \in Threads, Bots!OpenCommits(t)
  PROVE  BotInv'
<1> USE MaxShellsAssumption, NowhereAssumption DEF BotInv
<1>1. /\ job' = [u \in Threads |-> job'[u]]
      /\ job'[t] = [job[t] EXCEPT !.step = "record"]
  BY DEF Bots!OpenCommits, Bots!Goes, JobTypes
<1>2. \A u \in Threads \ {t} : job'[u] = job[u]
  BY DEF Bots!OpenCommits, Bots!Goes, JobTypes
<1>3. /\ job'[t].op = job[t].op /\ job'[t].step = "record" /\ job'[t].pane = job[t].pane
      /\ job'[t].old = job[t].old /\ job'[t].new = job[t].new /\ job'[t].todo = job[t].todo
      /\ job'[t].spec = job[t].spec
  BY <1>1 DEF JobTypes, IsJob, Bots!Idle, Bots!NoShell, Bots!NoEntry
<1>4. IsJob(job'[t])
  BY <1>1, <1>3, Spec0Lemma DEF BotTypes, JobTypes, IsJob, Bots!Idle, Bots!NoShell,
     Bots!NoEntry
<1>5. job[t].step = "commit" /\ job[t].pane \in Panes /\ job[t].new \in Bots!Shells
  BY DEF Bots!OpenCommits, NewShells, HasNew, Bots!Is
<1>6. terminals' = terminals \cup {job[t].pane} /\ shell' = [shell EXCEPT ![job[t].pane] = job[t].new]
  BY DEF Bots!OpenCommits, Bots!Is, Bots!Begins
<1>7. PICK w : w = Bots!Recorded(spec, job[t].pane, 0)
  OBVIOUS
<1>8. /\ IsSpec(w) /\ w.launch[job[t].pane] = 0
      /\ \A q \in Panes \ {job[t].pane} : w.launch[q] = spec.launch[q]
  <2>1. IsSpec(spec) /\ 0 \in 0 .. MaxShells
    BY DEF BotTypes
  <2> QED BY <1>5, <1>7, <2>1, RecordedLemma
<1>9. spec' = Bots!Activated(w, job[t].pane)
  BY <1>7 DEF Bots!OpenCommits, Bots!NoShell
<1>10. IsSpec(spec') /\ spec'.launch = w.launch
  BY <1>5, <1>8, <1>9, SpecLemma
<1>11. /\ IsSpec(spec')
       /\ \A q \in Panes \ {job[t].pane} : spec'.launch[q] = spec.launch[q]
       /\ spec'.launch[job[t].pane] = 0
  BY <1>8, <1>10
<1>12. UNCHANGED <<mark, running, home, agent, reports, nextShell, contested, unkilled>>
  BY DEF Bots!OpenCommits, Bots!shells
<1> USE <1>2, <1>3, <1>4, <1>5, <1>6, <1>11, <1>12
<1>13. BotTypes'
  BY DEF BotTypes, Bots!Shells, NewShells, HasNew
<1>14. JobTypes'
  BY <1>1 DEF JobTypes
<1>15. ShellsHaveHomes'
  BY DEF BotTypes, ShellsHaveHomes, Bots!Shells, NewShells, HasNew
<1>16. NewShells'
  BY DEF NewShells, HasNew
<1>17. NewShellsDiffer'
  BY DEF NewShellsDiffer, HasNew
<1>18. PanesHadShells'
  BY DEF PanesHadShells, Mentioned, NewShells, HasNew, BotTypes
<1>19. NewPanes'
  BY DEF NewPanes, NewPanesDiffer
<1>20. NewPanesDiffer'
  BY DEF NewPanesDiffer, NewPanes, NewShells, HasNew
<1>21. StartsAlone'
  BY DEF StartsAlone, Bots!Starting, Bots!Closing, NewPanesDiffer
<1>22. JobsKnow'
  <2>1. ASSUME NEW u \in Threads \ {t}, Bots!Starting(u)' \/ Bots!Closing(u)'
        PROVE  job'[u].pane \in Panes /\ job'[u].pane # job[t].pane
    BY <2>1 DEF JobsKnow, JobKnows, NewPanesDiffer, Bots!Starting, Bots!Closing
  <2>2. ASSUME NEW u \in Threads \ {t}, NEW q \in Panes, q = job'[u].pane, q # job[t].pane,
               q \in terminals' \ contested'
        PROVE  /\ q \in terminals \ contested /\ spec'.launch[q] = spec.launch[q]
               /\ shell'[q] = shell[q]
    BY <2>2 DEF BotTypes
  <2>3. ASSUME NEW u \in Threads \ {t} PROVE JobKnows(u)'
    BY <2>1, <2>2 DEF JobsKnow, JobKnows, Bots!Starting, Bots!Closing
  <2>4. JobKnows(t)'
    BY DEF JobKnows, BotTypes, Bots!Starting, Bots!Closing
  <2> QED BY <2>3, <2>4 DEF JobsKnow, JobKnows

<1>23. AgentJobs'
  BY DEF AgentJobs, Bots!Closing
<1>24. TabsHaveShells'
  BY DEF TabsHaveShells, BotTypes, NewShells, HasNew, Bots!Shells
<1>25. ShellsInPlace'
  <2>1. ASSUME NEW s \in running, NEW u \in Threads \ {t}, Bots!HeldBy(u, s)
        PROVE  Bots!HeldBy(u, s)'
    BY <2>1 DEF Bots!HeldBy
  <2>2. ASSUME NEW s \in running', s \in running, InPlace(s) PROVE InPlace(s)'
    BY <2>2 DEF BotTypes, ShellsInPlace, InPlace, JobsKnow, JobKnows, ShellsHaveHomes,
       Bots!HeldBy, Bots!Closing, Bots!Starting, Bots!Shells, NewPanes, TabsHaveShells,
       NewShells, HasNew
  <2>3. ASSUME NEW s \in running', s \in running, Bots!HeldBy(t, s)
        PROVE  InPlace(s)' \/ Bots!HeldBy(t, s)'
    BY <2>3 DEF BotTypes, ShellsInPlace, InPlace, JobsKnow, JobKnows, ShellsHaveHomes,
       Bots!HeldBy, Bots!Closing, Bots!Starting, Bots!Shells, NewPanes, TabsHaveShells,
       NewShells, HasNew
  <2>4. ASSUME NEW s \in running', s \notin running PROVE Bots!HeldBy(t, s)'
    BY <2>4 DEF Bots!HeldBy
  <2> QED BY <2>1, <2>2, <2>3, <2>4 DEF ShellsInPlace
<1>26. MarksMeanRestarts'
  BY DEF BotTypes, MarksMeanRestarts, StartsAlone, JobsKnow, JobKnows, Bots!Starting,
     Bots!Closing, NewPanes, NewPanesDiffer
<1>27. LaunchesAreShown'
  <2>1. ASSUME NEW q \in terminals' \ contested', spec'.launch[q] \in Bots!Shells
        PROVE  spec'.launch[q] = shell'[q]
    BY SMTT(30), <2>1 DEF BotTypes, LaunchesAreShown, Attends, JobsKnow, JobKnows, AgentJobs,
       StartsAlone, ShellsHaveHomes, Bots!Starting, Bots!Closing, Bots!Shells, NewPanes,
       NewPanesDiffer, NewShells, HasNew
  <2>2. ASSUME NEW q \in terminals' \ contested', shell'[q] \in agent' \ unkilled',
               spec'.launch[q] # shell'[q], NEW u \in Threads, Attends(u, q)
        PROVE  \E v \in Threads : Attends(v, q)'
    <3>1. CASE u # t
      BY <2>2, <3>1 DEF Attends
    <3>2. CASE u = t
      BY <2>2, <3>2 DEF BotTypes, LaunchesAreShown, Attends, JobsKnow, JobKnows, AgentJobs,
         StartsAlone, ShellsHaveHomes, Bots!Starting, Bots!Closing, Bots!Shells, NewPanes,
         NewPanesDiffer, NewShells, HasNew
    <3> QED BY <3>1, <3>2
  <2>3. ASSUME NEW q \in terminals' \ contested', shell'[q] \in agent' \ unkilled',
               spec'.launch[q] # shell'[q], ~\E u \in Threads : Attends(u, q)
        PROVE  Attends(t, q)'
    BY <2>3 DEF BotTypes, LaunchesAreShown, Attends, JobsKnow, JobKnows, AgentJobs,
       StartsAlone, ShellsHaveHomes, Bots!Starting, Bots!Closing, Bots!Shells, NewPanes,
       NewPanesDiffer, NewShells, HasNew
  <2> QED BY <2>1, <2>2, <2>3 DEF LaunchesAreShown
<1> QED BY <1>13, <1>14, <1>15, <1>16, <1>17, <1>18, <1>19, <1>20, <1>21, <1>22, <1>23, <1>24,
    <1>25, <1>26, <1>27

LEMMA OpenRefusedStep ==
  ASSUME BotInv, NEW t \in Threads, Bots!OpenRefused(t)
  PROVE  BotInv'
<1> USE MaxShellsAssumption, NowhereAssumption DEF BotInv
<1>1. /\ job' = [u \in Threads |-> job'[u]]
      /\ job'[t] = [job[t] EXCEPT !.step = "discard"]
  BY DEF Bots!OpenRefused, Bots!Goes, JobTypes
<1>2. \A u \in Threads \ {t} : job'[u] = job[u]
  BY DEF Bots!OpenRefused, Bots!Goes, JobTypes
<1>3. /\ job'[t].op = job[t].op /\ job'[t].step = "discard" /\ job'[t].pane = job[t].pane
      /\ job'[t].old = job[t].old /\ job'[t].new = job[t].new /\ job'[t].todo = job[t].todo
      /\ job'[t].spec = job[t].spec
  BY <1>1 DEF JobTypes, IsJob, Bots!Idle, Bots!NoShell, Bots!NoEntry
<1>4. IsJob(job'[t])
  BY <1>1, <1>3, Spec0Lemma DEF BotTypes, JobTypes, IsJob, Bots!Idle, Bots!NoShell,
     Bots!NoEntry
<1>5. job[t].step = "commit"
  BY DEF Bots!OpenRefused, Bots!Is, Bots!Begins
<1>6. UNCHANGED <<terminals, shell, mark, spec, running, home, agent, reports, nextShell,
                  contested, unkilled>>
  BY DEF Bots!OpenRefused, Bots!shells
<1> USE <1>2, <1>3, <1>4, <1>5, <1>6
<1>7. BotTypes'
  BY DEF BotTypes, Bots!Shells
<1>8. JobTypes'
  BY <1>1 DEF JobTypes
<1>9. ShellsHaveHomes'
  BY DEF BotTypes, ShellsHaveHomes, Bots!Shells
<1>10. NewShells'
  BY DEF NewShells, HasNew
<1>11. NewShellsDiffer'
  BY DEF NewShellsDiffer, HasNew
<1>12. PanesHadShells'
  BY DEF PanesHadShells, Mentioned
<1>13. NewPanes'
  BY DEF NewPanes, NewPanesDiffer
<1>14. NewPanesDiffer'
  BY DEF NewPanesDiffer, NewPanes, NewShells, HasNew
<1>15. StartsAlone'
  BY DEF StartsAlone, Bots!Starting, Bots!Closing
<1>16. JobsKnow'
  BY DEF BotTypes, JobsKnow, JobKnows, StartsAlone, ShellsHaveHomes, Bots!Starting,
     Bots!Closing, Bots!Shells
<1>17. AgentJobs'
  BY DEF AgentJobs, Bots!Closing
<1>18. TabsHaveShells'
  BY DEF TabsHaveShells, BotTypes
<1>19. ShellsInPlace'
  <2>1. ASSUME NEW s \in running, NEW u \in Threads \ {t}, Bots!HeldBy(u, s)
        PROVE  Bots!HeldBy(u, s)'
    BY <2>1 DEF Bots!HeldBy
  <2>2. ASSUME NEW s \in running', s \in running, InPlace(s) PROVE InPlace(s)'
    BY <2>2 DEF BotTypes, ShellsInPlace, InPlace, JobsKnow, JobKnows, ShellsHaveHomes,
       Bots!HeldBy, Bots!Closing, Bots!Starting, Bots!Shells
  <2>3. ASSUME NEW s \in running', s \in running, Bots!HeldBy(t, s)
        PROVE  InPlace(s)' \/ Bots!HeldBy(t, s)'
    BY <2>3 DEF BotTypes, ShellsInPlace, InPlace, JobsKnow, JobKnows, ShellsHaveHomes,
       Bots!HeldBy, Bots!Closing, Bots!Starting, Bots!Shells
  <2>4. ASSUME NEW s \in running', s \notin running PROVE Bots!HeldBy(t, s)'
    BY <2>4 DEF Bots!HeldBy
  <2> QED BY <2>1, <2>2, <2>3, <2>4 DEF ShellsInPlace
<1>20. MarksMeanRestarts'
  BY DEF BotTypes, MarksMeanRestarts, StartsAlone, JobsKnow, JobKnows, Bots!Starting,
     Bots!Closing
<1>21. LaunchesAreShown'
  BY DEF BotTypes, LaunchesAreShown, Attends, JobsKnow, JobKnows, AgentJobs, StartsAlone,
     ShellsHaveHomes, Bots!Starting, Bots!Closing, Bots!Shells
<1> QED BY <1>7, <1>8, <1>9, <1>10, <1>11, <1>12, <1>13, <1>14, <1>15, <1>16, <1>17, <1>18,
    <1>19, <1>20, <1>21

LEMMA DiscardsStep ==
  ASSUME BotInv, NEW t \in Threads, Bots!Discards(t)
  PROVE  BotInv'
<1> USE MaxShellsAssumption, NowhereAssumption DEF BotInv
<1>1. /\ job' = [u \in Threads |-> job'[u]]
      /\ job'[t] = Bots!Idle
  BY DEF Bots!Discards, Bots!Goes, JobTypes, Bots!Ends
<1>2. \A u \in Threads \ {t} : job'[u] = job[u]
  BY DEF Bots!Discards, Bots!Goes, JobTypes, Bots!Ends
<1>3. /\ job'[t].op = "none" /\ job'[t].step = "idle" /\ job'[t].pane = Nowhere
      /\ job'[t].old = 0 /\ job'[t].new = 0 /\ job'[t].todo = {}
      /\ job'[t].spec = Bots!Spec0
  BY <1>1 DEF JobTypes, IsJob, Bots!Idle, Bots!NoShell, Bots!NoEntry
<1>4. IsJob(job'[t])
  BY <1>1, <1>3, Spec0Lemma DEF BotTypes, JobTypes, IsJob, Bots!Idle, Bots!NoShell,
     Bots!NoEntry
<1>5. job[t].step = "discard"
  BY DEF Bots!Discards, Bots!Is, Bots!Begins
<1>6. \/ /\ running' = running \ {job[t].new} /\ agent' = agent \ {job[t].new}
         /\ unkilled' = unkilled
      \/ /\ running' = running /\ agent' = agent
         /\ unkilled' = unkilled \cup ({job[t].new} \cap running)
  BY DEF Bots!Discards, Bots!Kills, Bots!KillFails, Bots!shells
<1>7. UNCHANGED <<terminals, shell, mark, spec, home, reports, nextShell, contested>>
  BY DEF Bots!Discards, Bots!Kills, Bots!KillFails, Bots!shells
<1> USE <1>2, <1>3, <1>4, <1>5, <1>6, <1>7
<1>8. BotTypes'
  BY DEF BotTypes, Bots!Shells
<1>9. JobTypes'
  BY <1>1 DEF JobTypes
<1>10. ShellsHaveHomes'
  BY DEF BotTypes, ShellsHaveHomes, Bots!Shells
<1>11. NewShells'
  BY DEF NewShells, HasNew
<1>12. NewShellsDiffer'
  BY DEF NewShellsDiffer, HasNew
<1>13. PanesHadShells'
  BY DEF PanesHadShells, Mentioned
<1>14. NewPanes'
  BY DEF NewPanes, NewPanesDiffer
<1>15. NewPanesDiffer'
  BY DEF NewPanesDiffer, NewPanes, NewShells, HasNew
<1>16. StartsAlone'
  BY DEF StartsAlone, Bots!Starting, Bots!Closing
<1>17. JobsKnow'
  BY DEF BotTypes, JobsKnow, JobKnows, StartsAlone, ShellsHaveHomes, Bots!Starting,
     Bots!Closing, Bots!Shells
<1>18. AgentJobs'
  BY DEF AgentJobs, Bots!Closing
<1>19. TabsHaveShells'
  BY DEF TabsHaveShells, BotTypes
<1>20. ShellsInPlace'
  <2>1. ASSUME NEW s \in running, NEW u \in Threads \ {t}, Bots!HeldBy(u, s)
        PROVE  Bots!HeldBy(u, s)'
    BY <2>1 DEF Bots!HeldBy
  <2>2. ASSUME NEW s \in running', s \in running, InPlace(s) PROVE InPlace(s)'
    BY <2>2 DEF BotTypes, ShellsInPlace, InPlace, JobsKnow, JobKnows, ShellsHaveHomes,
       Bots!HeldBy, Bots!Closing, Bots!Starting, Bots!Shells
  <2>3. ASSUME NEW s \in running', s \in running, Bots!HeldBy(t, s)
        PROVE  InPlace(s)' \/ Bots!HeldBy(t, s)'
    BY <2>3 DEF BotTypes, ShellsInPlace, InPlace, JobsKnow, JobKnows, ShellsHaveHomes,
       Bots!HeldBy, Bots!Closing, Bots!Starting, Bots!Shells
  <2>4. ASSUME NEW s \in running', s \notin running PROVE Bots!HeldBy(t, s)'
    BY <2>4 DEF Bots!HeldBy
  <2> QED BY <2>1, <2>2, <2>3, <2>4 DEF ShellsInPlace
<1>21. MarksMeanRestarts'
  BY DEF BotTypes, MarksMeanRestarts, StartsAlone, JobsKnow, JobKnows, Bots!Starting,
     Bots!Closing
<1>22. LaunchesAreShown'
  BY DEF BotTypes, LaunchesAreShown, Attends, JobsKnow, JobKnows, AgentJobs, StartsAlone,
     ShellsHaveHomes, Bots!Starting, Bots!Closing, Bots!Shells
<1> QED BY <1>8, <1>9, <1>10, <1>11, <1>12, <1>13, <1>14, <1>15, <1>16, <1>17, <1>18, <1>19,
    <1>20, <1>21, <1>22

LEMMA ActivateBotPaneStep ==
  ASSUME BotInv, NEW t \in Threads, NEW p \in Panes, Bots!ActivateBotPane(t, p)
  PROVE  BotInv'
<1> USE MaxShellsAssumption, NowhereAssumption DEF BotInv
<1>1. job' = [u \in Threads |-> job'[u]]
  BY DEF JobTypes, Bots!ActivateBotPane
<1>2. \A u \in Threads : job'[u] = job[u] /\ IsJob(job'[u])
  BY DEF JobTypes, Bots!ActivateBotPane
<1>3. PICK w : w = Bots!WithEntry(spec, p)
  OBVIOUS
<1>4. IsSpec(w) /\ IsSpec(spec') /\ spec'.launch = w.launch
  BY <1>3, SpecLemma DEF Bots!ActivateBotPane, BotTypes
<1>5. \A q \in Panes : w.launch[q] = spec.launch[q] \/ (spec.launch[q] \notin Bots!Shells /\ w.launch[q] \notin Bots!Shells)
  BY <1>3, SpecLemma DEF BotTypes
<1>6. /\ IsSpec(spec')
      /\ \A q \in Panes : \/ spec'.launch[q] = spec.launch[q]
                          \/ spec.launch[q] \notin Bots!Shells /\ spec'.launch[q] \notin Bots!Shells
  BY <1>4, <1>5
<1>7. UNCHANGED <<terminals, shell, mark, running, home, agent, reports, nextShell, contested,
                  unkilled>>
  BY DEF Bots!ActivateBotPane, Bots!shells
<1> USE <1>2, <1>6, <1>7
<1>8. BotTypes'
  BY DEF BotTypes, Bots!Shells
<1>9. JobTypes'
  BY <1>1 DEF JobTypes
<1>10. ShellsHaveHomes'
  BY DEF BotTypes, ShellsHaveHomes, Bots!Shells
<1>11. NewShells'
  BY DEF NewShells, HasNew
<1>12. NewShellsDiffer'
  BY DEF NewShellsDiffer, HasNew
<1>13. PanesHadShells'
  BY DEF PanesHadShells, Mentioned
<1>14. NewPanes'
  BY DEF NewPanes, NewPanesDiffer
<1>15. NewPanesDiffer'
  BY DEF NewPanesDiffer, NewPanes, NewShells, HasNew
<1>16. StartsAlone'
  BY DEF StartsAlone, Bots!Starting, Bots!Closing
<1>17. JobsKnow'
  BY DEF BotTypes, JobsKnow, JobKnows, StartsAlone, ShellsHaveHomes, Bots!Starting,
     Bots!Closing, Bots!Shells
<1>18. AgentJobs'
  BY DEF AgentJobs, Bots!Closing
<1>19. TabsHaveShells'
  BY DEF TabsHaveShells, BotTypes
<1>20. ShellsInPlace'
  BY SMTT(30) DEF BotTypes, ShellsInPlace, InPlace, JobsKnow, JobKnows, ShellsHaveHomes, Bots!HeldBy,
     Bots!Closing, Bots!Starting, Bots!Shells
<1>21. MarksMeanRestarts'
  BY DEF BotTypes, MarksMeanRestarts, StartsAlone, JobsKnow, JobKnows, Bots!Starting,
     Bots!Closing
<1>22. LaunchesAreShown'
  BY DEF BotTypes, LaunchesAreShown, Attends, JobsKnow, JobKnows, AgentJobs, StartsAlone,
     ShellsHaveHomes, Bots!Starting, Bots!Closing, Bots!Shells
<1> QED BY <1>8, <1>9, <1>10, <1>11, <1>12, <1>13, <1>14, <1>15, <1>16, <1>17, <1>18, <1>19,
    <1>20, <1>21, <1>22

LEMMA CloseBeginsStep ==
  ASSUME BotInv, NEW t \in Threads, NEW S \in SUBSET Panes, Bots!CloseBegins(t, S)
  PROVE  BotInv'
<1> USE MaxShellsAssumption, NowhereAssumption DEF BotInv
<1>1. /\ job' = [u \in Threads |-> job'[u]]
      /\ job'[t] = [Bots!Idle EXCEPT !.op = "close", !.step = "close", !.todo = S]
  BY DEF Bots!CloseBegins, Bots!Goes, JobTypes
<1>2. \A u \in Threads \ {t} : job'[u] = job[u]
  BY DEF Bots!CloseBegins, Bots!Goes, JobTypes
<1>3. /\ job'[t].op = "close" /\ job'[t].step = "close" /\ job'[t].pane = Nowhere
      /\ job'[t].old = 0 /\ job'[t].new = 0 /\ job'[t].todo = S
      /\ job'[t].spec = Bots!Spec0
  BY <1>1 DEF JobTypes, IsJob, Bots!Idle, Bots!NoShell, Bots!NoEntry
<1>4. IsJob(job'[t])
  BY <1>1, <1>3, Spec0Lemma DEF BotTypes, JobTypes, IsJob, Bots!Idle, Bots!NoShell,
     Bots!NoEntry
<1>5. job[t].step = "idle" /\ S \subseteq terminals
  BY DEF Bots!CloseBegins, Bots!Is, Bots!Begins
<1>6. UNCHANGED <<terminals, shell, mark, spec, running, home, agent, reports, nextShell,
                  contested, unkilled>>
  BY DEF Bots!CloseBegins, Bots!shells
<1> USE <1>2, <1>3, <1>4, <1>5, <1>6
<1>7. BotTypes'
  BY DEF BotTypes, Bots!Shells
<1>8. JobTypes'
  BY <1>1 DEF JobTypes
<1>9. ShellsHaveHomes'
  BY DEF BotTypes, ShellsHaveHomes, Bots!Shells
<1>10. NewShells'
  BY DEF NewShells, HasNew
<1>11. NewShellsDiffer'
  BY DEF NewShellsDiffer, HasNew
<1>12. PanesHadShells'
  BY DEF PanesHadShells, Mentioned
<1>13. NewPanes'
  BY DEF NewPanes, NewPanesDiffer
<1>14. NewPanesDiffer'
  BY DEF NewPanesDiffer, NewPanes, NewShells, HasNew
<1>15. StartsAlone'
  BY DEF StartsAlone, Bots!Starting, Bots!Closing
<1>16. JobsKnow'
  BY DEF BotTypes, JobsKnow, JobKnows, StartsAlone, ShellsHaveHomes, Bots!Starting,
     Bots!Closing, Bots!Shells
<1>17. AgentJobs'
  BY DEF AgentJobs, Bots!Closing
<1>18. TabsHaveShells'
  BY DEF TabsHaveShells, BotTypes
<1>19. ShellsInPlace'
  <2>1. ASSUME NEW s \in running, NEW u \in Threads \ {t}, Bots!HeldBy(u, s)
        PROVE  Bots!HeldBy(u, s)'
    BY <2>1 DEF Bots!HeldBy
  <2>2. ASSUME NEW s \in running', s \in running, InPlace(s) PROVE InPlace(s)'
    BY <2>2 DEF BotTypes, ShellsInPlace, InPlace, JobsKnow, JobKnows, ShellsHaveHomes,
       Bots!HeldBy, Bots!Closing, Bots!Starting, Bots!Shells
  <2>3. ASSUME NEW s \in running', s \in running, Bots!HeldBy(t, s)
        PROVE  InPlace(s)' \/ Bots!HeldBy(t, s)'
    BY <2>3 DEF BotTypes, ShellsInPlace, InPlace, JobsKnow, JobKnows, ShellsHaveHomes,
       Bots!HeldBy, Bots!Closing, Bots!Starting, Bots!Shells
  <2>4. ASSUME NEW s \in running', s \notin running PROVE Bots!HeldBy(t, s)'
    BY <2>4 DEF Bots!HeldBy
  <2> QED BY <2>1, <2>2, <2>3, <2>4 DEF ShellsInPlace
<1>20. MarksMeanRestarts'
  BY DEF BotTypes, MarksMeanRestarts, StartsAlone, JobsKnow, JobKnows, Bots!Starting,
     Bots!Closing
<1>21. LaunchesAreShown'
  BY DEF BotTypes, LaunchesAreShown, Attends, JobsKnow, JobKnows, AgentJobs, StartsAlone,
     ShellsHaveHomes, Bots!Starting, Bots!Closing, Bots!Shells
<1> QED BY <1>7, <1>8, <1>9, <1>10, <1>11, <1>12, <1>13, <1>14, <1>15, <1>16, <1>17, <1>18,
    <1>19, <1>20, <1>21

LEMMA CloseForgetsStep ==
  ASSUME BotInv, NEW t \in Threads, NEW p \in Panes, Bots!CloseForgets(t, p)
  PROVE  BotInv'
<1> USE MaxShellsAssumption, NowhereAssumption DEF BotInv
<1>1. /\ job' = [u \in Threads |-> job'[u]]
      /\ job'[t] = [job[t] EXCEPT !.step = "closeKill", !.pane = p, !.old = shell[p]]
  BY DEF Bots!CloseForgets, Bots!Goes, JobTypes
<1>2. \A u \in Threads \ {t} : job'[u] = job[u]
  BY DEF Bots!CloseForgets, Bots!Goes, JobTypes
<1>3. /\ job'[t].op = job[t].op /\ job'[t].step = "closeKill" /\ job'[t].pane = p
      /\ job'[t].old = shell[p] /\ job'[t].new = job[t].new /\ job'[t].todo = job[t].todo
      /\ job'[t].spec = job[t].spec
  BY <1>1 DEF JobTypes, IsJob, Bots!Idle, Bots!NoShell, Bots!NoEntry
<1>4. IsJob(job'[t])
  BY <1>1, <1>3, Spec0Lemma DEF BotTypes, JobTypes, IsJob, Bots!Idle, Bots!NoShell,
     Bots!NoEntry
<1>5. job[t].step = "close" /\ p \in job[t].todo /\ p \in terminals
  BY DEF Bots!CloseForgets, Bots!Is, Bots!Begins
<1>6. contested' = IF \E u \in Threads \ {t} : job[u].pane = p /\ (Bots!Starting(u))
                   THEN contested \cup {p} ELSE contested
  BY DEF Bots!CloseForgets, Bots!Shares
<1>7. /\ IsSpec(spec')
      /\ \A q \in Panes \ {p} : spec'.launch[q] = spec.launch[q]
      /\ spec'.launch[p] \notin Bots!Shells
  BY ForgottenLemma DEF Bots!CloseForgets, BotTypes
<1>8. UNCHANGED <<terminals, shell, mark, running, home, agent, reports, nextShell, unkilled>>
  BY DEF Bots!CloseForgets, Bots!shells
<1> USE <1>2, <1>3, <1>4, <1>5, <1>6, <1>7, <1>8
<1>9. BotTypes'
  BY DEF BotTypes, Bots!Shells
<1>10. JobTypes'
  BY <1>1 DEF JobTypes
<1>11. ShellsHaveHomes'
  BY DEF BotTypes, ShellsHaveHomes, Bots!Shells
<1>12. NewShells'
  BY DEF NewShells, HasNew
<1>13. NewShellsDiffer'
  BY DEF NewShellsDiffer, HasNew
<1>14. PanesHadShells'
  BY DEF PanesHadShells, Mentioned
<1>15. NewPanes'
  BY DEF NewPanes, NewPanesDiffer
<1>16. NewPanesDiffer'
  BY DEF NewPanesDiffer, NewPanes, NewShells, HasNew
<1>17. StartsAlone'
  BY DEF StartsAlone, Bots!Starting, Bots!Closing
<1>18. JobsKnow'
  BY DEF BotTypes, JobsKnow, JobKnows, StartsAlone, ShellsHaveHomes, Bots!Starting,
     Bots!Closing, Bots!Shells
<1>19. AgentJobs'
  BY DEF AgentJobs, Bots!Closing
<1>20. TabsHaveShells'
  BY DEF TabsHaveShells, BotTypes
<1>21. ShellsInPlace'
  <2>1. ASSUME NEW s \in running, NEW u \in Threads \ {t}, Bots!HeldBy(u, s)
        PROVE  Bots!HeldBy(u, s)'
    BY <2>1 DEF Bots!HeldBy
  <2>2. ASSUME NEW s \in running', s \in running, InPlace(s) PROVE InPlace(s)'
    BY <2>2 DEF BotTypes, ShellsInPlace, InPlace, JobsKnow, JobKnows, ShellsHaveHomes,
       Bots!HeldBy, Bots!Closing, Bots!Starting, Bots!Shells
  <2>3. ASSUME NEW s \in running', s \in running, Bots!HeldBy(t, s)
        PROVE  InPlace(s)' \/ Bots!HeldBy(t, s)'
    BY <2>3 DEF BotTypes, ShellsInPlace, InPlace, JobsKnow, JobKnows, ShellsHaveHomes,
       Bots!HeldBy, Bots!Closing, Bots!Starting, Bots!Shells
  <2>4. ASSUME NEW s \in running', s \notin running PROVE Bots!HeldBy(t, s)'
    BY <2>4 DEF Bots!HeldBy
  <2> QED BY <2>1, <2>2, <2>3, <2>4 DEF ShellsInPlace
<1>22. MarksMeanRestarts'
  BY DEF BotTypes, MarksMeanRestarts, StartsAlone, JobsKnow, JobKnows, Bots!Starting,
     Bots!Closing
<1>23. LaunchesAreShown'
  <2>1. ASSUME NEW q \in terminals' \ contested', spec'.launch[q] \in Bots!Shells
        PROVE  spec'.launch[q] = shell'[q]
    BY <2>1 DEF BotTypes, LaunchesAreShown, Attends, JobsKnow, JobKnows, AgentJobs,
       StartsAlone, ShellsHaveHomes, Bots!Starting, Bots!Closing, Bots!Shells
  <2>2. ASSUME NEW q \in terminals' \ contested', shell'[q] \in agent' \ unkilled',
               spec'.launch[q] # shell'[q], NEW u \in Threads, Attends(u, q)
        PROVE  \E v \in Threads : Attends(v, q)'
    <3>1. CASE u # t
      BY <2>2, <3>1 DEF Attends
    <3>2. CASE u = t
      BY <2>2, <3>2 DEF BotTypes, LaunchesAreShown, Attends, JobsKnow, JobKnows, AgentJobs,
         StartsAlone, ShellsHaveHomes, Bots!Starting, Bots!Closing, Bots!Shells
    <3> QED BY <3>1, <3>2
  <2>3. ASSUME NEW q \in terminals' \ contested', shell'[q] \in agent' \ unkilled',
               spec'.launch[q] # shell'[q], ~\E u \in Threads : Attends(u, q)
        PROVE  Attends(t, q)'
    BY <2>3 DEF BotTypes, LaunchesAreShown, Attends, JobsKnow, JobKnows, AgentJobs,
       StartsAlone, ShellsHaveHomes, Bots!Starting, Bots!Closing, Bots!Shells
  <2> QED BY <2>1, <2>2, <2>3 DEF LaunchesAreShown
<1> QED BY <1>9, <1>10, <1>11, <1>12, <1>13, <1>14, <1>15, <1>16, <1>17, <1>18, <1>19, <1>20,
    <1>21, <1>22, <1>23

LEMMA CloseFindsNoneStep ==
  ASSUME BotInv, NEW t \in Threads, NEW p \in Panes, Bots!CloseFindsNone(t, p)
  PROVE  BotInv'
<1> USE MaxShellsAssumption, NowhereAssumption DEF BotInv
<1>1. job' = [u \in Threads |-> job'[u]]
  BY DEF Bots!CloseFindsNone, Bots!Goes, JobTypes, Bots!Is
<1>2. \A u \in Threads \ {t} : job'[u] = job[u]
  BY DEF Bots!CloseFindsNone, Bots!Goes, JobTypes, Bots!Is
<1>3. job'[t] \in {Bots!AfterClosing(job[t], job[t].todo \ {p}), Bots!Idle}
  BY DEF Bots!CloseFindsNone, Bots!Goes, JobTypes, Bots!Is
<1>4. /\ job'[t].pane = Nowhere /\ job'[t].todo \subseteq job[t].todo /\ IsJob(job'[t])
      /\ job'[t].step \in {"close", "reread", "idle"}
      /\ (job'[t].step # "close" => job'[t].todo = {})
  BY <1>3, AfterClosingLemma DEF JobTypes, IsJob, Closed
<1>5. job[t].step = "close"
  BY DEF Bots!CloseFindsNone, Bots!Is, Bots!Begins
<1>6. UNCHANGED <<terminals, shell, mark, spec, running, home, agent, reports, nextShell,
                  contested, unkilled>>
  BY DEF Bots!CloseFindsNone, Bots!shells
<1> USE <1>2, <1>3, <1>4, <1>5, <1>6
<1>7. BotTypes'
  BY DEF BotTypes, Bots!Shells
<1>8. JobTypes'
  BY <1>1 DEF JobTypes
<1>9. ShellsHaveHomes'
  BY DEF BotTypes, ShellsHaveHomes, Bots!Shells
<1>10. NewShells'
  BY DEF NewShells, HasNew
<1>11. NewShellsDiffer'
  BY DEF NewShellsDiffer, HasNew
<1>12. PanesHadShells'
  BY DEF PanesHadShells, Mentioned
<1>13. NewPanes'
  BY DEF NewPanes, NewPanesDiffer
<1>14. NewPanesDiffer'
  BY DEF NewPanesDiffer, NewPanes, NewShells, HasNew
<1>15. StartsAlone'
  BY DEF StartsAlone, Bots!Starting, Bots!Closing
<1>16. JobsKnow'
  BY DEF BotTypes, JobsKnow, JobKnows, StartsAlone, ShellsHaveHomes, Bots!Starting,
     Bots!Closing, Bots!Shells
<1>17. AgentJobs'
  BY DEF AgentJobs, Bots!Closing
<1>18. TabsHaveShells'
  BY DEF TabsHaveShells, BotTypes
<1>19. ShellsInPlace'
  <2>1. ASSUME NEW s \in running, NEW u \in Threads \ {t}, Bots!HeldBy(u, s)
        PROVE  Bots!HeldBy(u, s)'
    BY <2>1 DEF Bots!HeldBy
  <2>2. ASSUME NEW s \in running', s \in running, InPlace(s) PROVE InPlace(s)'
    BY <2>2 DEF BotTypes, ShellsInPlace, InPlace, JobsKnow, JobKnows, ShellsHaveHomes,
       Bots!HeldBy, Bots!Closing, Bots!Starting, Bots!Shells
  <2>3. ASSUME NEW s \in running', s \in running, Bots!HeldBy(t, s)
        PROVE  InPlace(s)' \/ Bots!HeldBy(t, s)'
    BY <2>3 DEF BotTypes, ShellsInPlace, InPlace, JobsKnow, JobKnows, ShellsHaveHomes,
       Bots!HeldBy, Bots!Closing, Bots!Starting, Bots!Shells
  <2>4. ASSUME NEW s \in running', s \notin running PROVE Bots!HeldBy(t, s)'
    BY <2>4 DEF Bots!HeldBy
  <2> QED BY <2>1, <2>2, <2>3, <2>4 DEF ShellsInPlace
<1>20. MarksMeanRestarts'
  BY DEF BotTypes, MarksMeanRestarts, StartsAlone, JobsKnow, JobKnows, Bots!Starting,
     Bots!Closing
<1>21. LaunchesAreShown'
  BY DEF BotTypes, LaunchesAreShown, Attends, JobsKnow, JobKnows, AgentJobs, StartsAlone,
     ShellsHaveHomes, Bots!Starting, Bots!Closing, Bots!Shells
<1> QED BY <1>7, <1>8, <1>9, <1>10, <1>11, <1>12, <1>13, <1>14, <1>15, <1>16, <1>17, <1>18,
    <1>19, <1>20, <1>21

LEMMA CloseKillsStep ==
  ASSUME BotInv, NEW t \in Threads, Bots!CloseKills(t)
  PROVE  BotInv'
<1> USE MaxShellsAssumption, NowhereAssumption DEF BotInv
<1>1. /\ job' = [u \in Threads |-> job'[u]]
      /\ job'[t] = [job[t] EXCEPT !.step = "remove"]
  BY DEF Bots!CloseKills, Bots!Goes, JobTypes
<1>2. \A u \in Threads \ {t} : job'[u] = job[u]
  BY DEF Bots!CloseKills, Bots!Goes, JobTypes
<1>3. /\ job'[t].op = job[t].op /\ job'[t].step = "remove" /\ job'[t].pane = job[t].pane
      /\ job'[t].old = job[t].old /\ job'[t].new = job[t].new /\ job'[t].todo = job[t].todo
      /\ job'[t].spec = job[t].spec
  BY <1>1 DEF JobTypes, IsJob, Bots!Idle, Bots!NoShell, Bots!NoEntry
<1>4. IsJob(job'[t])
  BY <1>1, <1>3, Spec0Lemma DEF BotTypes, JobTypes, IsJob, Bots!Idle, Bots!NoShell,
     Bots!NoEntry
<1>5. job[t].step = "closeKill"
  BY DEF Bots!CloseKills, Bots!Is, Bots!Begins
<1>6. running' = running \ {job[t].old} /\ agent' = agent \ {job[t].old}
  BY DEF Bots!CloseKills, Bots!Kills
<1>7. UNCHANGED <<terminals, shell, mark, spec, home, reports, nextShell, contested,
                  unkilled>>
  BY DEF Bots!CloseKills, Bots!Kills
<1> USE <1>2, <1>3, <1>4, <1>5, <1>6, <1>7
<1>8. BotTypes'
  BY DEF BotTypes, Bots!Shells
<1>9. JobTypes'
  BY <1>1 DEF JobTypes
<1>10. ShellsHaveHomes'
  BY DEF BotTypes, ShellsHaveHomes, Bots!Shells
<1>11. NewShells'
  BY DEF NewShells, HasNew
<1>12. NewShellsDiffer'
  BY DEF NewShellsDiffer, HasNew
<1>13. PanesHadShells'
  BY DEF PanesHadShells, Mentioned
<1>14. NewPanes'
  BY DEF NewPanes, NewPanesDiffer
<1>15. NewPanesDiffer'
  BY DEF NewPanesDiffer, NewPanes, NewShells, HasNew
<1>16. StartsAlone'
  BY DEF StartsAlone, Bots!Starting, Bots!Closing
<1>17. JobsKnow'
  BY DEF BotTypes, JobsKnow, JobKnows, StartsAlone, ShellsHaveHomes, Bots!Starting,
     Bots!Closing, Bots!Shells
<1>18. AgentJobs'
  BY DEF AgentJobs, Bots!Closing
<1>19. TabsHaveShells'
  BY DEF TabsHaveShells, BotTypes
<1>20. ShellsInPlace'
  <2>1. ASSUME NEW s \in running, NEW u \in Threads \ {t}, Bots!HeldBy(u, s)
        PROVE  Bots!HeldBy(u, s)'
    BY <2>1 DEF Bots!HeldBy
  <2>2. ASSUME NEW s \in running', s \in running, InPlace(s) PROVE InPlace(s)'
    BY <2>2 DEF BotTypes, ShellsInPlace, InPlace, JobsKnow, JobKnows, ShellsHaveHomes,
       Bots!HeldBy, Bots!Closing, Bots!Starting, Bots!Shells
  <2>3. ASSUME NEW s \in running', s \in running, Bots!HeldBy(t, s)
        PROVE  InPlace(s)' \/ Bots!HeldBy(t, s)'
    BY <2>3 DEF BotTypes, ShellsInPlace, InPlace, JobsKnow, JobKnows, ShellsHaveHomes,
       Bots!HeldBy, Bots!Closing, Bots!Starting, Bots!Shells
  <2>4. ASSUME NEW s \in running', s \notin running PROVE Bots!HeldBy(t, s)'
    BY <2>4 DEF Bots!HeldBy
  <2> QED BY <2>1, <2>2, <2>3, <2>4 DEF ShellsInPlace
<1>21. MarksMeanRestarts'
  BY DEF BotTypes, MarksMeanRestarts, StartsAlone, JobsKnow, JobKnows, Bots!Starting,
     Bots!Closing
<1>22. LaunchesAreShown'
  BY DEF BotTypes, LaunchesAreShown, Attends, JobsKnow, JobKnows, AgentJobs, StartsAlone,
     ShellsHaveHomes, Bots!Starting, Bots!Closing, Bots!Shells
<1> QED BY <1>8, <1>9, <1>10, <1>11, <1>12, <1>13, <1>14, <1>15, <1>16, <1>17, <1>18, <1>19,
    <1>20, <1>21, <1>22

LEMMA CloseKillFailsStep ==
  ASSUME BotInv, NEW t \in Threads, Bots!CloseKillFails(t)
  PROVE  BotInv'
<1> USE MaxShellsAssumption, NowhereAssumption DEF BotInv
<1>1. job' = [u \in Threads |-> job'[u]]
  BY DEF Bots!CloseKillFails, Bots!Goes, JobTypes, Bots!ClosingFails
<1>2. \A u \in Threads \ {t} : job'[u] = job[u]
  BY DEF Bots!CloseKillFails, Bots!Goes, JobTypes, Bots!ClosingFails
<1>3. job'[t] \in {Bots!AfterClosing(job[t], job[t].todo \ {job[t].pane}), Bots!Idle}
  BY DEF Bots!CloseKillFails, Bots!Goes, JobTypes, Bots!ClosingFails
<1>4. /\ job'[t].pane = Nowhere /\ job'[t].todo \subseteq job[t].todo /\ IsJob(job'[t])
      /\ job'[t].step \in {"close", "reread", "idle"}
      /\ (job'[t].step # "close" => job'[t].todo = {})
  BY <1>3, AfterClosingLemma DEF JobTypes, IsJob, Closed
<1>5. job[t].step = "closeKill"
  BY DEF Bots!CloseKillFails, Bots!Is, Bots!Begins
<1>6. unkilled' = unkilled \cup ({job[t].old} \cap running)
  BY DEF Bots!CloseKillFails, Bots!KillFails
<1>7. UNCHANGED <<terminals, shell, mark, spec, running, home, agent, reports, nextShell,
                  contested>>
  BY DEF Bots!CloseKillFails, Bots!KillFails, Bots!shells
<1> USE <1>2, <1>3, <1>4, <1>5, <1>6, <1>7
<1>8. BotTypes'
  BY DEF BotTypes, Bots!Shells
<1>9. JobTypes'
  BY <1>1 DEF JobTypes
<1>10. ShellsHaveHomes'
  BY DEF BotTypes, ShellsHaveHomes, Bots!Shells
<1>11. NewShells'
  BY DEF NewShells, HasNew
<1>12. NewShellsDiffer'
  BY DEF NewShellsDiffer, HasNew
<1>13. PanesHadShells'
  BY DEF PanesHadShells, Mentioned
<1>14. NewPanes'
  BY DEF NewPanes, NewPanesDiffer
<1>15. NewPanesDiffer'
  BY DEF NewPanesDiffer, NewPanes, NewShells, HasNew
<1>16. StartsAlone'
  BY DEF StartsAlone, Bots!Starting, Bots!Closing
<1>17. JobsKnow'
  BY DEF BotTypes, JobsKnow, JobKnows, StartsAlone, ShellsHaveHomes, Bots!Starting,
     Bots!Closing, Bots!Shells
<1>18. AgentJobs'
  BY DEF AgentJobs, Bots!Closing
<1>19. TabsHaveShells'
  BY DEF TabsHaveShells, BotTypes
<1>20. ShellsInPlace'
  <2>1. ASSUME NEW s \in running, NEW u \in Threads \ {t}, Bots!HeldBy(u, s)
        PROVE  Bots!HeldBy(u, s)'
    BY <2>1 DEF Bots!HeldBy
  <2>2. ASSUME NEW s \in running', s \in running, InPlace(s) PROVE InPlace(s)'
    BY <2>2 DEF BotTypes, ShellsInPlace, InPlace, JobsKnow, JobKnows, ShellsHaveHomes,
       Bots!HeldBy, Bots!Closing, Bots!Starting, Bots!Shells
  <2>3. ASSUME NEW s \in running', s \in running, Bots!HeldBy(t, s)
        PROVE  InPlace(s)' \/ Bots!HeldBy(t, s)'
    BY <2>3 DEF BotTypes, ShellsInPlace, InPlace, JobsKnow, JobKnows, ShellsHaveHomes,
       Bots!HeldBy, Bots!Closing, Bots!Starting, Bots!Shells
  <2>4. ASSUME NEW s \in running', s \notin running PROVE Bots!HeldBy(t, s)'
    BY <2>4 DEF Bots!HeldBy
  <2> QED BY <2>1, <2>2, <2>3, <2>4 DEF ShellsInPlace
<1>21. MarksMeanRestarts'
  BY DEF BotTypes, MarksMeanRestarts, StartsAlone, JobsKnow, JobKnows, Bots!Starting,
     Bots!Closing
<1>22. LaunchesAreShown'
  BY DEF BotTypes, LaunchesAreShown, Attends, JobsKnow, JobKnows, AgentJobs, StartsAlone,
     ShellsHaveHomes, Bots!Starting, Bots!Closing, Bots!Shells
<1> QED BY <1>8, <1>9, <1>10, <1>11, <1>12, <1>13, <1>14, <1>15, <1>16, <1>17, <1>18, <1>19,
    <1>20, <1>21, <1>22

LEMMA CloseRemovesStep ==
  ASSUME BotInv, NEW t \in Threads, Bots!CloseRemoves(t)
  PROVE  BotInv'
<1> USE MaxShellsAssumption, NowhereAssumption DEF BotInv
<1>1. job' = [u \in Threads |-> job'[u]]
  BY DEF Bots!CloseRemoves, Bots!Goes, JobTypes, Bots!Is
<1>2. \A u \in Threads \ {t} : job'[u] = job[u]
  BY DEF Bots!CloseRemoves, Bots!Goes, JobTypes, Bots!Is
<1>3. job'[t] \in {Bots!AfterClosing(job[t], job[t].todo \ {job[t].pane}), Bots!Idle}
  BY DEF Bots!CloseRemoves, Bots!Goes, JobTypes, Bots!Is
<1>4. /\ job'[t].pane = Nowhere /\ job'[t].todo \subseteq job[t].todo /\ IsJob(job'[t])
      /\ job'[t].step \in {"close", "reread", "idle"}
      /\ (job'[t].step # "close" => job'[t].todo = {})
  BY <1>3, AfterClosingLemma DEF JobTypes, IsJob, Closed
<1>5. job[t].step = "remove" /\ job[t].pane \in terminals
  BY DEF Bots!CloseRemoves, Bots!Is, Bots!Begins
<1>6. /\ terminals' = terminals \ {job[t].pane} /\ mark' = mark \ {job[t].pane}
      /\ shell' = [shell EXCEPT ![job[t].pane] = 0]
  BY DEF Bots!CloseRemoves, Bots!NoShell
<1>7. IsSpec(spec') /\ \A q \in terminals' : spec'.launch[q] = spec.launch[q]
  BY PrunedLemma DEF Bots!CloseRemoves, BotTypes
<1>8. UNCHANGED <<running, home, agent, reports, nextShell, contested, unkilled>>
  BY DEF Bots!CloseRemoves, Bots!shells
<1> USE <1>2, <1>3, <1>4, <1>5, <1>6, <1>7, <1>8
<1>9. BotTypes'
  BY DEF BotTypes, Bots!Shells
<1>10. JobTypes'
  BY <1>1 DEF JobTypes
<1>11. ShellsHaveHomes'
  BY DEF BotTypes, ShellsHaveHomes, Bots!Shells
<1>12. NewShells'
  BY DEF NewShells, HasNew
<1>13. NewShellsDiffer'
  BY DEF NewShellsDiffer, HasNew
<1>14. PanesHadShells'
  BY DEF PanesHadShells, Mentioned
<1>15. NewPanes'
  BY DEF NewPanes, NewPanesDiffer
<1>16. NewPanesDiffer'
  BY DEF NewPanesDiffer, NewPanes, NewShells, HasNew
<1>17. StartsAlone'
  BY DEF StartsAlone, Bots!Starting, Bots!Closing
<1>18. JobsKnow'
  BY DEF BotTypes, JobsKnow, JobKnows, StartsAlone, ShellsHaveHomes, Bots!Starting,
     Bots!Closing, Bots!Shells
<1>19. AgentJobs'
  BY DEF AgentJobs, Bots!Closing
<1>20. TabsHaveShells'
  BY DEF TabsHaveShells, BotTypes
<1>21. ShellsInPlace'
  <2>1. ASSUME NEW s \in running, NEW u \in Threads \ {t}, Bots!HeldBy(u, s)
        PROVE  Bots!HeldBy(u, s)'
    BY <2>1 DEF Bots!HeldBy
  <2>2. ASSUME NEW s \in running', s \in running, InPlace(s) PROVE InPlace(s)'
    BY <2>2 DEF BotTypes, ShellsInPlace, InPlace, JobsKnow, JobKnows, ShellsHaveHomes,
       Bots!HeldBy, Bots!Closing, Bots!Starting, Bots!Shells
  <2>3. ASSUME NEW s \in running', s \in running, Bots!HeldBy(t, s)
        PROVE  InPlace(s)' \/ Bots!HeldBy(t, s)'
    BY <2>3 DEF BotTypes, ShellsInPlace, InPlace, JobsKnow, JobKnows, ShellsHaveHomes,
       Bots!HeldBy, Bots!Closing, Bots!Starting, Bots!Shells
  <2>4. ASSUME NEW s \in running', s \notin running PROVE Bots!HeldBy(t, s)'
    BY <2>4 DEF Bots!HeldBy
  <2> QED BY <2>1, <2>2, <2>3, <2>4 DEF ShellsInPlace
<1>22. MarksMeanRestarts'
  BY DEF BotTypes, MarksMeanRestarts, StartsAlone, JobsKnow, JobKnows, Bots!Starting,
     Bots!Closing
<1>23. LaunchesAreShown'
  <2>1. ASSUME NEW q \in terminals' \ contested', spec'.launch[q] \in Bots!Shells
        PROVE  spec'.launch[q] = shell'[q]
    BY <2>1 DEF BotTypes, LaunchesAreShown, Attends, JobsKnow, JobKnows, AgentJobs,
       StartsAlone, ShellsHaveHomes, Bots!Starting, Bots!Closing, Bots!Shells
  <2>2. ASSUME NEW q \in terminals' \ contested', shell'[q] \in agent' \ unkilled',
               spec'.launch[q] # shell'[q], NEW u \in Threads, Attends(u, q)
        PROVE  \E v \in Threads : Attends(v, q)'
    <3>1. CASE u # t
      BY <2>2, <3>1 DEF Attends
    <3>2. CASE u = t
      BY <2>2, <3>2 DEF BotTypes, LaunchesAreShown, Attends, JobsKnow, JobKnows, AgentJobs,
         StartsAlone, ShellsHaveHomes, Bots!Starting, Bots!Closing, Bots!Shells
    <3> QED BY <3>1, <3>2
  <2>3. ASSUME NEW q \in terminals' \ contested', shell'[q] \in agent' \ unkilled',
               spec'.launch[q] # shell'[q], ~\E u \in Threads : Attends(u, q)
        PROVE  Attends(t, q)'
    BY <2>3 DEF BotTypes, LaunchesAreShown, Attends, JobsKnow, JobKnows, AgentJobs,
       StartsAlone, ShellsHaveHomes, Bots!Starting, Bots!Closing, Bots!Shells
  <2> QED BY <2>1, <2>2, <2>3 DEF LaunchesAreShown
<1> QED BY <1>9, <1>10, <1>11, <1>12, <1>13, <1>14, <1>15, <1>16, <1>17, <1>18, <1>19, <1>20,
    <1>21, <1>22, <1>23

LEMMA CloseIsLateStep ==
  ASSUME BotInv, NEW t \in Threads, Bots!CloseIsLate(t)
  PROVE  BotInv'
<1> USE MaxShellsAssumption, NowhereAssumption DEF BotInv
<1>1. job' = [u \in Threads |-> job'[u]]
  BY DEF Bots!CloseIsLate, Bots!Goes, JobTypes, Bots!ClosingFails
<1>2. \A u \in Threads \ {t} : job'[u] = job[u]
  BY DEF Bots!CloseIsLate, Bots!Goes, JobTypes, Bots!ClosingFails
<1>3. job'[t] \in {Bots!AfterClosing(job[t], job[t].todo \ {job[t].pane}), Bots!Idle}
  BY DEF Bots!CloseIsLate, Bots!Goes, JobTypes, Bots!ClosingFails
<1>4. /\ job'[t].pane = Nowhere /\ job'[t].todo \subseteq job[t].todo /\ IsJob(job'[t])
      /\ job'[t].step \in {"close", "reread", "idle"}
      /\ (job'[t].step # "close" => job'[t].todo = {})
  BY <1>3, AfterClosingLemma DEF JobTypes, IsJob, Closed
<1>5. job[t].step = "remove" /\ job[t].pane \notin terminals
  BY DEF Bots!CloseIsLate, Bots!Is, Bots!Begins
<1>6. UNCHANGED <<terminals, shell, mark, spec, running, home, agent, reports, nextShell,
                  contested, unkilled>>
  BY DEF Bots!CloseIsLate, Bots!shells
<1> USE <1>2, <1>3, <1>4, <1>5, <1>6
<1>7. BotTypes'
  BY DEF BotTypes, Bots!Shells
<1>8. JobTypes'
  BY <1>1 DEF JobTypes
<1>9. ShellsHaveHomes'
  BY DEF BotTypes, ShellsHaveHomes, Bots!Shells
<1>10. NewShells'
  BY DEF NewShells, HasNew
<1>11. NewShellsDiffer'
  BY DEF NewShellsDiffer, HasNew
<1>12. PanesHadShells'
  BY DEF PanesHadShells, Mentioned
<1>13. NewPanes'
  BY DEF NewPanes, NewPanesDiffer
<1>14. NewPanesDiffer'
  BY DEF NewPanesDiffer, NewPanes, NewShells, HasNew
<1>15. StartsAlone'
  BY DEF StartsAlone, Bots!Starting, Bots!Closing
<1>16. JobsKnow'
  BY DEF BotTypes, JobsKnow, JobKnows, StartsAlone, ShellsHaveHomes, Bots!Starting,
     Bots!Closing, Bots!Shells
<1>17. AgentJobs'
  BY DEF AgentJobs, Bots!Closing
<1>18. TabsHaveShells'
  BY DEF TabsHaveShells, BotTypes
<1>19. ShellsInPlace'
  <2>1. ASSUME NEW s \in running, NEW u \in Threads \ {t}, Bots!HeldBy(u, s)
        PROVE  Bots!HeldBy(u, s)'
    BY <2>1 DEF Bots!HeldBy
  <2>2. ASSUME NEW s \in running', s \in running, InPlace(s) PROVE InPlace(s)'
    BY <2>2 DEF BotTypes, ShellsInPlace, InPlace, JobsKnow, JobKnows, ShellsHaveHomes,
       Bots!HeldBy, Bots!Closing, Bots!Starting, Bots!Shells
  <2>3. ASSUME NEW s \in running', s \in running, Bots!HeldBy(t, s)
        PROVE  InPlace(s)' \/ Bots!HeldBy(t, s)'
    BY <2>3 DEF BotTypes, ShellsInPlace, InPlace, JobsKnow, JobKnows, ShellsHaveHomes,
       Bots!HeldBy, Bots!Closing, Bots!Starting, Bots!Shells
  <2>4. ASSUME NEW s \in running', s \notin running PROVE Bots!HeldBy(t, s)'
    BY <2>4 DEF Bots!HeldBy
  <2> QED BY <2>1, <2>2, <2>3, <2>4 DEF ShellsInPlace
<1>20. MarksMeanRestarts'
  BY DEF BotTypes, MarksMeanRestarts, StartsAlone, JobsKnow, JobKnows, Bots!Starting,
     Bots!Closing
<1>21. LaunchesAreShown'
  BY DEF BotTypes, LaunchesAreShown, Attends, JobsKnow, JobKnows, AgentJobs, StartsAlone,
     ShellsHaveHomes, Bots!Starting, Bots!Closing, Bots!Shells
<1> QED BY <1>7, <1>8, <1>9, <1>10, <1>11, <1>12, <1>13, <1>14, <1>15, <1>16, <1>17, <1>18,
    <1>19, <1>20, <1>21

LEMMA RestartBeginsStep ==
  ASSUME BotInv, NEW t \in Threads, NEW p \in Panes, Bots!RestartBegins(t, p)
  PROVE  BotInv'
<1> USE MaxShellsAssumption, NowhereAssumption DEF BotInv
<1>1. /\ job' = [u \in Threads |-> job'[u]]
      /\ job'[t] = [Bots!Idle EXCEPT !.op = "restart", !.step = "forget", !.todo = {p}]
  BY DEF Bots!RestartBegins, Bots!Goes, JobTypes
<1>2. \A u \in Threads \ {t} : job'[u] = job[u]
  BY DEF Bots!RestartBegins, Bots!Goes, JobTypes
<1>3. /\ job'[t].op = "restart" /\ job'[t].step = "forget" /\ job'[t].pane = Nowhere
      /\ job'[t].old = 0 /\ job'[t].new = 0 /\ job'[t].todo = {p}
      /\ job'[t].spec = Bots!Spec0
  BY <1>1 DEF JobTypes, IsJob, Bots!Idle, Bots!NoShell, Bots!NoEntry
<1>4. IsJob(job'[t])
  BY <1>1, <1>3, Spec0Lemma DEF BotTypes, JobTypes, IsJob, Bots!Idle, Bots!NoShell,
     Bots!NoEntry
<1>5. job[t].step = "idle" /\ p \in terminals
  BY DEF Bots!RestartBegins, Bots!Is, Bots!Begins, Bots!Active
<1>6. UNCHANGED <<terminals, shell, mark, spec, running, home, agent, reports, nextShell,
                  contested, unkilled>>
  BY DEF Bots!RestartBegins, Bots!shells
<1> USE <1>2, <1>3, <1>4, <1>5, <1>6
<1>7. BotTypes'
  BY DEF BotTypes, Bots!Shells
<1>8. JobTypes'
  BY <1>1 DEF JobTypes
<1>9. ShellsHaveHomes'
  BY DEF BotTypes, ShellsHaveHomes, Bots!Shells
<1>10. NewShells'
  BY DEF NewShells, HasNew
<1>11. NewShellsDiffer'
  BY DEF NewShellsDiffer, HasNew
<1>12. PanesHadShells'
  BY DEF PanesHadShells, Mentioned
<1>13. NewPanes'
  BY DEF NewPanes, NewPanesDiffer
<1>14. NewPanesDiffer'
  BY DEF NewPanesDiffer, NewPanes, NewShells, HasNew
<1>15. StartsAlone'
  BY DEF StartsAlone, Bots!Starting, Bots!Closing
<1>16. JobsKnow'
  BY DEF BotTypes, JobsKnow, JobKnows, StartsAlone, ShellsHaveHomes, Bots!Starting,
     Bots!Closing, Bots!Shells
<1>17. AgentJobs'
  BY DEF AgentJobs, Bots!Closing
<1>18. TabsHaveShells'
  BY DEF TabsHaveShells, BotTypes
<1>19. ShellsInPlace'
  <2>1. ASSUME NEW s \in running, NEW u \in Threads \ {t}, Bots!HeldBy(u, s)
        PROVE  Bots!HeldBy(u, s)'
    BY <2>1 DEF Bots!HeldBy
  <2>2. ASSUME NEW s \in running', s \in running, InPlace(s) PROVE InPlace(s)'
    BY <2>2 DEF BotTypes, ShellsInPlace, InPlace, JobsKnow, JobKnows, ShellsHaveHomes,
       Bots!HeldBy, Bots!Closing, Bots!Starting, Bots!Shells
  <2>3. ASSUME NEW s \in running', s \in running, Bots!HeldBy(t, s)
        PROVE  InPlace(s)' \/ Bots!HeldBy(t, s)'
    BY <2>3 DEF BotTypes, ShellsInPlace, InPlace, JobsKnow, JobKnows, ShellsHaveHomes,
       Bots!HeldBy, Bots!Closing, Bots!Starting, Bots!Shells
  <2>4. ASSUME NEW s \in running', s \notin running PROVE Bots!HeldBy(t, s)'
    BY <2>4 DEF Bots!HeldBy
  <2> QED BY <2>1, <2>2, <2>3, <2>4 DEF ShellsInPlace
<1>20. MarksMeanRestarts'
  BY DEF BotTypes, MarksMeanRestarts, StartsAlone, JobsKnow, JobKnows, Bots!Starting,
     Bots!Closing
<1>21. LaunchesAreShown'
  BY DEF BotTypes, LaunchesAreShown, Attends, JobsKnow, JobKnows, AgentJobs, StartsAlone,
     ShellsHaveHomes, Bots!Starting, Bots!Closing, Bots!Shells
<1> QED BY <1>7, <1>8, <1>9, <1>10, <1>11, <1>12, <1>13, <1>14, <1>15, <1>16, <1>17, <1>18,
    <1>19, <1>20, <1>21

LEMMA RelaunchForgetsStep ==
  ASSUME BotInv, NEW t \in Threads, NEW p \in Panes, Bots!RelaunchForgets(t, p)
  PROVE  BotInv'
<1> USE MaxShellsAssumption, NowhereAssumption DEF BotInv
<1>1. /\ job' = [u \in Threads |-> job'[u]]
      /\ job'[t] = [job[t] EXCEPT !.step = "mark", !.pane = p, !.todo = @ \ {p}]
  BY DEF Bots!RelaunchForgets, Bots!Goes, JobTypes
<1>2. \A u \in Threads \ {t} : job'[u] = job[u]
  BY DEF Bots!RelaunchForgets, Bots!Goes, JobTypes
<1>3. /\ job'[t].op = job[t].op /\ job'[t].step = "mark" /\ job'[t].pane = p
      /\ job'[t].old = job[t].old /\ job'[t].new = job[t].new /\ job'[t].todo = job[t].todo \ {p}
      /\ job'[t].spec = job[t].spec
  BY <1>1 DEF JobTypes, IsJob, Bots!Idle, Bots!NoShell, Bots!NoEntry
<1>4. IsJob(job'[t])
  BY <1>1, <1>3, Spec0Lemma DEF BotTypes, JobTypes, IsJob, Bots!Idle, Bots!NoShell,
     Bots!NoEntry
<1>5. job[t].step = "forget" /\ p \in job[t].todo
  BY DEF Bots!RelaunchForgets, Bots!Is, Bots!Begins
<1>6. contested' = IF \E u \in Threads \ {t} : job[u].pane = p /\ (Bots!Starting(u) \/ Bots!Closing(u))
                   THEN contested \cup {p} ELSE contested
  BY DEF Bots!RelaunchForgets, Bots!Shares
<1>7. /\ IsSpec(spec')
      /\ \A q \in Panes \ {p} : spec'.launch[q] = spec.launch[q]
      /\ p \in terminals => spec'.launch[p] \notin Bots!Shells
  BY ForgottenLemma DEF Bots!RelaunchForgets, BotTypes
<1>8. UNCHANGED <<terminals, shell, mark, running, home, agent, reports, nextShell, unkilled>>
  BY DEF Bots!RelaunchForgets, Bots!shells
<1> USE <1>2, <1>3, <1>4, <1>5, <1>6, <1>7, <1>8
<1>9. BotTypes'
  BY DEF BotTypes, Bots!Shells
<1>10. JobTypes'
  BY <1>1 DEF JobTypes
<1>11. ShellsHaveHomes'
  BY DEF BotTypes, ShellsHaveHomes, Bots!Shells
<1>12. NewShells'
  BY DEF NewShells, HasNew
<1>13. NewShellsDiffer'
  BY DEF NewShellsDiffer, HasNew
<1>14. PanesHadShells'
  BY DEF PanesHadShells, Mentioned
<1>15. NewPanes'
  BY DEF NewPanes, NewPanesDiffer
<1>16. NewPanesDiffer'
  BY DEF NewPanesDiffer, NewPanes, NewShells, HasNew
<1>17. StartsAlone'
  BY DEF StartsAlone, Bots!Starting, Bots!Closing
<1>18. JobsKnow'
  BY DEF BotTypes, JobsKnow, JobKnows, StartsAlone, ShellsHaveHomes, Bots!Starting,
     Bots!Closing, Bots!Shells
<1>19. AgentJobs'
  BY DEF AgentJobs, Bots!Closing
<1>20. TabsHaveShells'
  BY DEF TabsHaveShells, BotTypes
<1>21. ShellsInPlace'
  <2>1. ASSUME NEW s \in running, NEW u \in Threads \ {t}, Bots!HeldBy(u, s)
        PROVE  Bots!HeldBy(u, s)'
    BY <2>1 DEF Bots!HeldBy
  <2>2. ASSUME NEW s \in running', s \in running, InPlace(s) PROVE InPlace(s)'
    BY <2>2 DEF BotTypes, ShellsInPlace, InPlace, JobsKnow, JobKnows, ShellsHaveHomes,
       Bots!HeldBy, Bots!Closing, Bots!Starting, Bots!Shells
  <2>3. ASSUME NEW s \in running', s \in running, Bots!HeldBy(t, s)
        PROVE  InPlace(s)' \/ Bots!HeldBy(t, s)'
    BY <2>3 DEF BotTypes, ShellsInPlace, InPlace, JobsKnow, JobKnows, ShellsHaveHomes,
       Bots!HeldBy, Bots!Closing, Bots!Starting, Bots!Shells
  <2>4. ASSUME NEW s \in running', s \notin running PROVE Bots!HeldBy(t, s)'
    BY <2>4 DEF Bots!HeldBy
  <2> QED BY <2>1, <2>2, <2>3, <2>4 DEF ShellsInPlace
<1>22. MarksMeanRestarts'
  BY DEF BotTypes, MarksMeanRestarts, StartsAlone, JobsKnow, JobKnows, Bots!Starting,
     Bots!Closing
<1>23. LaunchesAreShown'
  BY DEF BotTypes, LaunchesAreShown, Attends, JobsKnow, JobKnows, AgentJobs, StartsAlone,
     ShellsHaveHomes, Bots!Starting, Bots!Closing, Bots!Shells
<1> QED BY <1>9, <1>10, <1>11, <1>12, <1>13, <1>14, <1>15, <1>16, <1>17, <1>18, <1>19, <1>20,
    <1>21, <1>22, <1>23

LEMMA RelaunchKillsStep ==
  ASSUME BotInv, NEW t \in Threads, Bots!RelaunchKills(t)
  PROVE  BotInv'
<1> USE MaxShellsAssumption, NowhereAssumption DEF BotInv
<1>1. /\ job' = [u \in Threads |-> job'[u]]
      /\ job'[t] = [job[t] EXCEPT !.step = "spawn"]
  BY DEF Bots!RelaunchKills, Bots!Goes, JobTypes
<1>2. \A u \in Threads \ {t} : job'[u] = job[u]
  BY DEF Bots!RelaunchKills, Bots!Goes, JobTypes
<1>3. /\ job'[t].op = job[t].op /\ job'[t].step = "spawn" /\ job'[t].pane = job[t].pane
      /\ job'[t].old = job[t].old /\ job'[t].new = job[t].new /\ job'[t].todo = job[t].todo
      /\ job'[t].spec = job[t].spec
  BY <1>1 DEF JobTypes, IsJob, Bots!Idle, Bots!NoShell, Bots!NoEntry
<1>4. IsJob(job'[t])
  BY <1>1, <1>3, Spec0Lemma DEF BotTypes, JobTypes, IsJob, Bots!Idle, Bots!NoShell,
     Bots!NoEntry
<1>5. job[t].step = "kill"
  BY DEF Bots!RelaunchKills, Bots!Is, Bots!Begins
<1>6. running' = running \ {job[t].old} /\ agent' = agent \ {job[t].old}
  BY DEF Bots!RelaunchKills, Bots!Kills
<1>7. UNCHANGED <<terminals, shell, mark, spec, home, reports, nextShell, contested,
                  unkilled>>
  BY DEF Bots!RelaunchKills, Bots!Kills
<1> USE <1>2, <1>3, <1>4, <1>5, <1>6, <1>7
<1>8. BotTypes'
  BY DEF BotTypes, Bots!Shells
<1>9. JobTypes'
  BY <1>1 DEF JobTypes
<1>10. ShellsHaveHomes'
  BY DEF BotTypes, ShellsHaveHomes, Bots!Shells
<1>11. NewShells'
  BY DEF NewShells, HasNew
<1>12. NewShellsDiffer'
  BY DEF NewShellsDiffer, HasNew
<1>13. PanesHadShells'
  BY DEF PanesHadShells, Mentioned
<1>14. NewPanes'
  BY DEF NewPanes, NewPanesDiffer
<1>15. NewPanesDiffer'
  BY DEF NewPanesDiffer, NewPanes, NewShells, HasNew
<1>16. StartsAlone'
  BY DEF StartsAlone, Bots!Starting, Bots!Closing
<1>17. JobsKnow'
  BY DEF BotTypes, JobsKnow, JobKnows, StartsAlone, ShellsHaveHomes, Bots!Starting,
     Bots!Closing, Bots!Shells
<1>18. AgentJobs'
  BY DEF AgentJobs, Bots!Closing
<1>19. TabsHaveShells'
  BY DEF TabsHaveShells, BotTypes
<1>20. ShellsInPlace'
  <2>1. ASSUME NEW s \in running, NEW u \in Threads \ {t}, Bots!HeldBy(u, s)
        PROVE  Bots!HeldBy(u, s)'
    BY <2>1 DEF Bots!HeldBy
  <2>2. ASSUME NEW s \in running', s \in running, InPlace(s) PROVE InPlace(s)'
    BY <2>2 DEF BotTypes, ShellsInPlace, InPlace, JobsKnow, JobKnows, ShellsHaveHomes,
       Bots!HeldBy, Bots!Closing, Bots!Starting, Bots!Shells
  <2>3. ASSUME NEW s \in running', s \in running, Bots!HeldBy(t, s)
        PROVE  InPlace(s)' \/ Bots!HeldBy(t, s)'
    BY <2>3 DEF BotTypes, ShellsInPlace, InPlace, JobsKnow, JobKnows, ShellsHaveHomes,
       Bots!HeldBy, Bots!Closing, Bots!Starting, Bots!Shells
  <2>4. ASSUME NEW s \in running', s \notin running PROVE Bots!HeldBy(t, s)'
    BY <2>4 DEF Bots!HeldBy
  <2> QED BY <2>1, <2>2, <2>3, <2>4 DEF ShellsInPlace
<1>21. MarksMeanRestarts'
  BY DEF BotTypes, MarksMeanRestarts, StartsAlone, JobsKnow, JobKnows, Bots!Starting,
     Bots!Closing
<1>22. LaunchesAreShown'
  BY DEF BotTypes, LaunchesAreShown, Attends, JobsKnow, JobKnows, AgentJobs, StartsAlone,
     ShellsHaveHomes, Bots!Starting, Bots!Closing, Bots!Shells
<1> QED BY <1>8, <1>9, <1>10, <1>11, <1>12, <1>13, <1>14, <1>15, <1>16, <1>17, <1>18, <1>19,
    <1>20, <1>21, <1>22

LEMMA RelaunchSpawnsStep ==
  ASSUME BotInv, NEW t \in Threads, Bots!RelaunchSpawns(t)
  PROVE  BotInv'
<1> USE MaxShellsAssumption, NowhereAssumption DEF BotInv
<1>1. /\ job' = [u \in Threads |-> job'[u]]
      /\ job'[t] = [job[t] EXCEPT !.step = "install", !.new = nextShell]
  BY DEF Bots!RelaunchSpawns, Bots!Goes, JobTypes
<1>2. \A u \in Threads \ {t} : job'[u] = job[u]
  BY DEF Bots!RelaunchSpawns, Bots!Goes, JobTypes
<1>3. /\ job'[t].op = job[t].op /\ job'[t].step = "install" /\ job'[t].pane = job[t].pane
      /\ job'[t].old = job[t].old /\ job'[t].new = nextShell /\ job'[t].todo = job[t].todo
      /\ job'[t].spec = job[t].spec
  BY <1>1 DEF JobTypes, IsJob, Bots!Idle, Bots!NoShell, Bots!NoEntry
<1>4. IsJob(job'[t])
  BY <1>1, <1>3, Spec0Lemma DEF BotTypes, JobTypes, IsJob, Bots!Idle, Bots!NoShell,
     Bots!NoEntry
<1>5. /\ nextShell \in Bots!Shells /\ nextShell' = nextShell + 1
      /\ running' = running \cup {nextShell} /\ home' = [home EXCEPT ![nextShell] = job[t].pane]
  BY DEF Bots!RelaunchSpawns, Bots!Spawns
<1>6. job[t].step = "spawn"
  BY DEF Bots!RelaunchSpawns, Bots!Is, Bots!Begins
<1>7. UNCHANGED <<terminals, shell, mark, spec, agent, reports, contested, unkilled>>
  BY DEF Bots!RelaunchSpawns, Bots!Spawns
<1> USE <1>2, <1>3, <1>4, <1>5, <1>6, <1>7
<1>8. BotTypes'
  BY DEF BotTypes, Bots!Shells, JobsKnow, JobKnows, Bots!Starting
<1>9. JobTypes'
  BY <1>1 DEF JobTypes
<1>10. ShellsHaveHomes'
  BY DEF BotTypes, ShellsHaveHomes, Bots!Shells, JobsKnow, JobKnows, Bots!Starting
<1>11. NewShells'
  BY DEF NewShells, HasNew, BotTypes, ShellsHaveHomes, JobsKnow, JobKnows, Bots!Starting,
     Bots!Shells
<1>12. NewShellsDiffer'
  BY DEF NewShellsDiffer, HasNew, NewShells, BotTypes, Bots!Shells
<1>13. PanesHadShells'
  <2>1. ASSUME NEW q \in Panes, Mentioned(q)' PROVE Mentioned(q)
    BY <2>1 DEF Mentioned
  <2>2. ASSUME NEW q \in Panes, NEW s \in Bots!Shells, home[s] = q PROVE home'[s] = q
    BY <2>2 DEF ShellsHaveHomes, BotTypes, Bots!Shells
  <2> QED BY <2>1, <2>2 DEF PanesHadShells
<1>14. NewPanes'
  BY DEF NewPanes, NewPanesDiffer
<1>15. NewPanesDiffer'
  BY DEF NewPanesDiffer, NewPanes, NewShells, HasNew
<1>16. StartsAlone'
  BY DEF StartsAlone, Bots!Starting, Bots!Closing
<1>17. JobsKnow'
  BY SMTT(30) DEF BotTypes, JobsKnow, JobKnows, StartsAlone, ShellsHaveHomes, Bots!Starting,
     Bots!Closing, Bots!Shells
<1>18. AgentJobs'
  BY DEF AgentJobs, Bots!Closing
<1>19. TabsHaveShells'
  BY DEF TabsHaveShells, BotTypes
<1>20. ShellsInPlace'
  <2>1. ASSUME NEW s \in running, NEW u \in Threads \ {t}, Bots!HeldBy(u, s)
        PROVE  Bots!HeldBy(u, s)'
    BY <2>1 DEF Bots!HeldBy
  <2>2. ASSUME NEW s \in running', s \in running, InPlace(s) PROVE InPlace(s)'
    BY <2>2 DEF BotTypes, ShellsInPlace, InPlace, JobsKnow, JobKnows, ShellsHaveHomes,
       Bots!HeldBy, Bots!Closing, Bots!Starting, Bots!Shells
  <2>3. ASSUME NEW s \in running', s \in running, Bots!HeldBy(t, s)
        PROVE  InPlace(s)' \/ Bots!HeldBy(t, s)'
    BY <2>3 DEF BotTypes, ShellsInPlace, InPlace, JobsKnow, JobKnows, ShellsHaveHomes,
       Bots!HeldBy, Bots!Closing, Bots!Starting, Bots!Shells
  <2>4. ASSUME NEW s \in running', s \notin running PROVE Bots!HeldBy(t, s)'
    BY <2>4 DEF Bots!HeldBy
  <2> QED BY <2>1, <2>2, <2>3, <2>4 DEF ShellsInPlace
<1>21. MarksMeanRestarts'
  BY DEF BotTypes, MarksMeanRestarts, StartsAlone, JobsKnow, JobKnows, Bots!Starting,
     Bots!Closing
<1>22. LaunchesAreShown'
  BY DEF BotTypes, LaunchesAreShown, Attends, JobsKnow, JobKnows, AgentJobs, StartsAlone,
     ShellsHaveHomes, Bots!Starting, Bots!Closing, Bots!Shells
<1> QED BY <1>8, <1>9, <1>10, <1>11, <1>12, <1>13, <1>14, <1>15, <1>16, <1>17, <1>18, <1>19,
    <1>20, <1>21, <1>22

LEMMA RelaunchFailsStep ==
  ASSUME BotInv, NEW t \in Threads, Bots!RelaunchFails(t)
  PROVE  BotInv'
<1> USE MaxShellsAssumption, NowhereAssumption DEF BotInv
<1>1. /\ job' = [u \in Threads |-> job'[u]]
      /\ job'[t] = Bots!Idle
  BY DEF Bots!RelaunchFails, Bots!Goes, JobTypes, Bots!Ends
<1>2. \A u \in Threads \ {t} : job'[u] = job[u]
  BY DEF Bots!RelaunchFails, Bots!Goes, JobTypes, Bots!Ends
<1>3. /\ job'[t].op = "none" /\ job'[t].step = "idle" /\ job'[t].pane = Nowhere
      /\ job'[t].old = 0 /\ job'[t].new = 0 /\ job'[t].todo = {}
      /\ job'[t].spec = Bots!Spec0
  BY <1>1 DEF JobTypes, IsJob, Bots!Idle, Bots!NoShell, Bots!NoEntry
<1>4. IsJob(job'[t])
  BY <1>1, <1>3, Spec0Lemma DEF BotTypes, JobTypes, IsJob, Bots!Idle, Bots!NoShell,
     Bots!NoEntry
<1>5. \/ job[t].step = "kill" /\ unkilled' = unkilled \cup ({job[t].old} \cap running)
      \/ job[t].step = "spawn" /\ unkilled' = unkilled
  BY DEF Bots!RelaunchFails, Bots!ReplaceFails, Bots!Is, Bots!KillFails
<1>6. mark' = mark \ {job[t].pane}
  BY DEF Bots!RelaunchFails, Bots!Is, Bots!Begins
<1>7. UNCHANGED <<terminals, shell, spec, running, home, agent, reports, nextShell,
                  contested>>
  BY DEF Bots!RelaunchFails, Bots!ReplaceFails, Bots!KillFails, Bots!shells
<1> USE <1>2, <1>3, <1>4, <1>5, <1>6, <1>7
<1>8. BotTypes'
  BY DEF BotTypes, Bots!Shells
<1>9. JobTypes'
  BY <1>1 DEF JobTypes
<1>10. ShellsHaveHomes'
  BY DEF BotTypes, ShellsHaveHomes, Bots!Shells
<1>11. NewShells'
  BY DEF NewShells, HasNew
<1>12. NewShellsDiffer'
  BY DEF NewShellsDiffer, HasNew
<1>13. PanesHadShells'
  BY DEF PanesHadShells, Mentioned
<1>14. NewPanes'
  BY DEF NewPanes, NewPanesDiffer
<1>15. NewPanesDiffer'
  BY DEF NewPanesDiffer, NewPanes, NewShells, HasNew
<1>16. StartsAlone'
  BY DEF StartsAlone, Bots!Starting, Bots!Closing
<1>17. JobsKnow'
  BY DEF BotTypes, JobsKnow, JobKnows, StartsAlone, ShellsHaveHomes, Bots!Starting,
     Bots!Closing, Bots!Shells
<1>18. AgentJobs'
  BY DEF AgentJobs, Bots!Closing
<1>19. TabsHaveShells'
  BY DEF TabsHaveShells, BotTypes
<1>20. ShellsInPlace'
  <2>1. ASSUME NEW s \in running, NEW u \in Threads \ {t}, Bots!HeldBy(u, s)
        PROVE  Bots!HeldBy(u, s)'
    BY <2>1 DEF Bots!HeldBy
  <2>2. ASSUME NEW s \in running', s \in running, InPlace(s) PROVE InPlace(s)'
    BY <2>2 DEF BotTypes, ShellsInPlace, InPlace, JobsKnow, JobKnows, ShellsHaveHomes,
       Bots!HeldBy, Bots!Closing, Bots!Starting, Bots!Shells
  <2>3. ASSUME NEW s \in running', s \in running, Bots!HeldBy(t, s)
        PROVE  InPlace(s)' \/ Bots!HeldBy(t, s)'
    BY <2>3 DEF BotTypes, ShellsInPlace, InPlace, JobsKnow, JobKnows, ShellsHaveHomes,
       Bots!HeldBy, Bots!Closing, Bots!Starting, Bots!Shells
  <2>4. ASSUME NEW s \in running', s \notin running PROVE Bots!HeldBy(t, s)'
    BY <2>4 DEF Bots!HeldBy
  <2> QED BY <2>1, <2>2, <2>3, <2>4 DEF ShellsInPlace
<1>21. MarksMeanRestarts'
  BY DEF BotTypes, MarksMeanRestarts, StartsAlone, JobsKnow, JobKnows, Bots!Starting,
     Bots!Closing
<1>22. LaunchesAreShown'
  BY DEF BotTypes, LaunchesAreShown, Attends, JobsKnow, JobKnows, AgentJobs, StartsAlone,
     ShellsHaveHomes, Bots!Starting, Bots!Closing, Bots!Shells
<1> QED BY <1>8, <1>9, <1>10, <1>11, <1>12, <1>13, <1>14, <1>15, <1>16, <1>17, <1>18, <1>19,
    <1>20, <1>21, <1>22

LEMMA RelaunchInstallsStep ==
  ASSUME BotInv, NEW t \in Threads, Bots!RelaunchInstalls(t)
  PROVE  BotInv'
<1> USE MaxShellsAssumption, NowhereAssumption DEF BotInv
<1>1. /\ job' = [u \in Threads |-> job'[u]]
      /\ job'[t] = [job[t] EXCEPT !.step = "record"]
  BY DEF Bots!RelaunchInstalls, Bots!Goes, JobTypes
<1>2. \A u \in Threads \ {t} : job'[u] = job[u]
  BY DEF Bots!RelaunchInstalls, Bots!Goes, JobTypes
<1>3. /\ job'[t].op = job[t].op /\ job'[t].step = "record" /\ job'[t].pane = job[t].pane
      /\ job'[t].old = job[t].old /\ job'[t].new = job[t].new /\ job'[t].todo = job[t].todo
      /\ job'[t].spec = job[t].spec
  BY <1>1 DEF JobTypes, IsJob, Bots!Idle, Bots!NoShell, Bots!NoEntry
<1>4. IsJob(job'[t])
  BY <1>1, <1>3, Spec0Lemma DEF BotTypes, JobTypes, IsJob, Bots!Idle, Bots!NoShell,
     Bots!NoEntry
<1>5. job[t].step = "install" /\ job[t].pane \in terminals
  BY DEF Bots!RelaunchInstalls, Bots!Is, Bots!Begins
<1>6. shell' = [shell EXCEPT ![job[t].pane] = job[t].new] /\ mark' = mark \ {job[t].pane}
  BY DEF Bots!RelaunchInstalls, Bots!Is, Bots!Begins
<1>7. UNCHANGED <<terminals, spec, running, home, agent, reports, nextShell, contested,
                  unkilled>>
  BY DEF Bots!RelaunchInstalls, Bots!shells
<1> USE <1>2, <1>3, <1>4, <1>5, <1>6, <1>7
<1>8. BotTypes'
  BY DEF BotTypes, Bots!Shells, NewShells, HasNew
<1>9. JobTypes'
  BY <1>1 DEF JobTypes
<1>10. ShellsHaveHomes'
  BY DEF BotTypes, ShellsHaveHomes, Bots!Shells, NewShells, HasNew
<1>11. NewShells'
  BY DEF NewShells, HasNew
<1>12. NewShellsDiffer'
  BY DEF NewShellsDiffer, HasNew
<1>13. PanesHadShells'
  BY DEF PanesHadShells, Mentioned
<1>14. NewPanes'
  BY DEF NewPanes, NewPanesDiffer
<1>15. NewPanesDiffer'
  BY DEF NewPanesDiffer, NewPanes, NewShells, HasNew
<1>16. StartsAlone'
  BY DEF StartsAlone, Bots!Starting, Bots!Closing
<1>17. JobsKnow'
  BY SMTT(30) DEF BotTypes, JobsKnow, JobKnows, StartsAlone, ShellsHaveHomes, Bots!Starting,
     Bots!Closing, Bots!Shells, NewShells, HasNew
<1>18. AgentJobs'
  BY DEF AgentJobs, Bots!Closing
<1>19. TabsHaveShells'
  BY DEF TabsHaveShells, BotTypes, NewShells, HasNew, Bots!Shells
<1>20. ShellsInPlace'
  <2>1. ASSUME NEW s \in running, NEW u \in Threads \ {t}, Bots!HeldBy(u, s)
        PROVE  Bots!HeldBy(u, s)'
    BY <2>1 DEF Bots!HeldBy
  <2>2. ASSUME NEW s \in running', s \in running, InPlace(s) PROVE InPlace(s)'
    BY <2>2 DEF BotTypes, ShellsInPlace, InPlace, JobsKnow, JobKnows, ShellsHaveHomes,
       Bots!HeldBy, Bots!Closing, Bots!Starting, Bots!Shells, NewShells, HasNew
  <2>3. ASSUME NEW s \in running', s \in running, Bots!HeldBy(t, s)
        PROVE  InPlace(s)' \/ Bots!HeldBy(t, s)'
    BY <2>3 DEF BotTypes, ShellsInPlace, InPlace, JobsKnow, JobKnows, ShellsHaveHomes,
       Bots!HeldBy, Bots!Closing, Bots!Starting, Bots!Shells, NewShells, HasNew
  <2>4. ASSUME NEW s \in running', s \notin running PROVE Bots!HeldBy(t, s)'
    BY <2>4 DEF Bots!HeldBy
  <2> QED BY <2>1, <2>2, <2>3, <2>4 DEF ShellsInPlace
<1>21. MarksMeanRestarts'
  BY DEF BotTypes, MarksMeanRestarts, StartsAlone, JobsKnow, JobKnows, Bots!Starting,
     Bots!Closing
<1>22. LaunchesAreShown'
  <2>1. ASSUME NEW q \in terminals' \ contested', spec'.launch[q] \in Bots!Shells
        PROVE  spec'.launch[q] = shell'[q]
    BY <2>1 DEF BotTypes, LaunchesAreShown, Attends, JobsKnow, JobKnows, AgentJobs,
       StartsAlone, ShellsHaveHomes, Bots!Starting, Bots!Closing, Bots!Shells, NewShells,
       HasNew
  <2>2. ASSUME NEW q \in terminals' \ contested', shell'[q] \in agent' \ unkilled',
               spec'.launch[q] # shell'[q], NEW u \in Threads, Attends(u, q)
        PROVE  \E v \in Threads : Attends(v, q)'
    <3>1. CASE u # t
      BY <2>2, <3>1 DEF Attends
    <3>2. CASE u = t
      BY <2>2, <3>2 DEF BotTypes, LaunchesAreShown, Attends, JobsKnow, JobKnows, AgentJobs,
         StartsAlone, ShellsHaveHomes, Bots!Starting, Bots!Closing, Bots!Shells, NewShells,
         HasNew
    <3> QED BY <3>1, <3>2
  <2>3. ASSUME NEW q \in terminals' \ contested', shell'[q] \in agent' \ unkilled',
               spec'.launch[q] # shell'[q], ~\E u \in Threads : Attends(u, q)
        PROVE  Attends(t, q)'
    BY <2>3 DEF BotTypes, LaunchesAreShown, Attends, JobsKnow, JobKnows, AgentJobs,
       StartsAlone, ShellsHaveHomes, Bots!Starting, Bots!Closing, Bots!Shells, NewShells,
       HasNew
  <2> QED BY <2>1, <2>2, <2>3 DEF LaunchesAreShown
<1> QED BY <1>8, <1>9, <1>10, <1>11, <1>12, <1>13, <1>14, <1>15, <1>16, <1>17, <1>18, <1>19,
    <1>20, <1>21, <1>22

LEMMA RelaunchRefusedStep ==
  ASSUME BotInv, NEW t \in Threads, Bots!RelaunchRefused(t)
  PROVE  BotInv'
<1> USE MaxShellsAssumption, NowhereAssumption DEF BotInv
<1>1. /\ job' = [u \in Threads |-> job'[u]]
      /\ job'[t] = [job[t] EXCEPT !.step = "discard"]
  BY DEF Bots!RelaunchRefused, Bots!Goes, JobTypes
<1>2. \A u \in Threads \ {t} : job'[u] = job[u]
  BY DEF Bots!RelaunchRefused, Bots!Goes, JobTypes
<1>3. /\ job'[t].op = job[t].op /\ job'[t].step = "discard" /\ job'[t].pane = job[t].pane
      /\ job'[t].old = job[t].old /\ job'[t].new = job[t].new /\ job'[t].todo = job[t].todo
      /\ job'[t].spec = job[t].spec
  BY <1>1 DEF JobTypes, IsJob, Bots!Idle, Bots!NoShell, Bots!NoEntry
<1>4. IsJob(job'[t])
  BY <1>1, <1>3, Spec0Lemma DEF BotTypes, JobTypes, IsJob, Bots!Idle, Bots!NoShell,
     Bots!NoEntry
<1>5. job[t].step = "install" /\ job[t].pane \notin terminals
  BY DEF Bots!RelaunchRefused, Bots!Is, Bots!Begins
<1>6. mark' = mark \ {job[t].pane}
  BY DEF Bots!RelaunchRefused, Bots!Is, Bots!Begins
<1>7. UNCHANGED <<terminals, shell, spec, running, home, agent, reports, nextShell, contested,
                  unkilled>>
  BY DEF Bots!RelaunchRefused, Bots!shells
<1> USE <1>2, <1>3, <1>4, <1>5, <1>6, <1>7
<1>8. BotTypes'
  BY DEF BotTypes, Bots!Shells
<1>9. JobTypes'
  BY <1>1 DEF JobTypes
<1>10. ShellsHaveHomes'
  BY DEF BotTypes, ShellsHaveHomes, Bots!Shells
<1>11. NewShells'
  BY DEF NewShells, HasNew
<1>12. NewShellsDiffer'
  BY DEF NewShellsDiffer, HasNew
<1>13. PanesHadShells'
  BY DEF PanesHadShells, Mentioned
<1>14. NewPanes'
  BY DEF NewPanes, NewPanesDiffer
<1>15. NewPanesDiffer'
  BY DEF NewPanesDiffer, NewPanes, NewShells, HasNew
<1>16. StartsAlone'
  BY DEF StartsAlone, Bots!Starting, Bots!Closing
<1>17. JobsKnow'
  BY DEF BotTypes, JobsKnow, JobKnows, StartsAlone, ShellsHaveHomes, Bots!Starting,
     Bots!Closing, Bots!Shells
<1>18. AgentJobs'
  BY DEF AgentJobs, Bots!Closing
<1>19. TabsHaveShells'
  BY DEF TabsHaveShells, BotTypes
<1>20. ShellsInPlace'
  <2>1. ASSUME NEW s \in running, NEW u \in Threads \ {t}, Bots!HeldBy(u, s)
        PROVE  Bots!HeldBy(u, s)'
    BY <2>1 DEF Bots!HeldBy
  <2>2. ASSUME NEW s \in running', s \in running, InPlace(s) PROVE InPlace(s)'
    BY <2>2 DEF BotTypes, ShellsInPlace, InPlace, JobsKnow, JobKnows, ShellsHaveHomes,
       Bots!HeldBy, Bots!Closing, Bots!Starting, Bots!Shells
  <2>3. ASSUME NEW s \in running', s \in running, Bots!HeldBy(t, s)
        PROVE  InPlace(s)' \/ Bots!HeldBy(t, s)'
    BY <2>3 DEF BotTypes, ShellsInPlace, InPlace, JobsKnow, JobKnows, ShellsHaveHomes,
       Bots!HeldBy, Bots!Closing, Bots!Starting, Bots!Shells
  <2>4. ASSUME NEW s \in running', s \notin running PROVE Bots!HeldBy(t, s)'
    BY <2>4 DEF Bots!HeldBy
  <2> QED BY <2>1, <2>2, <2>3, <2>4 DEF ShellsInPlace
<1>21. MarksMeanRestarts'
  BY DEF BotTypes, MarksMeanRestarts, StartsAlone, JobsKnow, JobKnows, Bots!Starting,
     Bots!Closing
<1>22. LaunchesAreShown'
  BY DEF BotTypes, LaunchesAreShown, Attends, JobsKnow, JobKnows, AgentJobs, StartsAlone,
     ShellsHaveHomes, Bots!Starting, Bots!Closing, Bots!Shells
<1> QED BY <1>8, <1>9, <1>10, <1>11, <1>12, <1>13, <1>14, <1>15, <1>16, <1>17, <1>18, <1>19,
    <1>20, <1>21, <1>22

LEMMA HomeBeginsStep ==
  ASSUME BotInv, NEW t \in Threads, Bots!HomeBegins(t)
  PROVE  BotInv'
<1> USE MaxShellsAssumption, NowhereAssumption DEF BotInv
<1>1. /\ job' = [u \in Threads |-> job'[u]]
      /\ job'[t] = [Bots!Idle EXCEPT !.op = "home", !.step = "respec",
                                 !.todo = terminals, !.spec = spec]
  BY DEF Bots!HomeBegins, Bots!Goes, JobTypes
<1>2. \A u \in Threads \ {t} : job'[u] = job[u]
  BY DEF Bots!HomeBegins, Bots!Goes, JobTypes
<1>3. /\ job'[t].op = "home" /\ job'[t].step = "respec" /\ job'[t].pane = Nowhere
      /\ job'[t].old = 0 /\ job'[t].new = 0 /\ job'[t].todo = terminals
      /\ job'[t].spec = spec
  BY <1>1 DEF JobTypes, IsJob, Bots!Idle, Bots!NoShell, Bots!NoEntry
<1>4. IsJob(job'[t])
  BY <1>1, <1>3, Spec0Lemma DEF BotTypes, JobTypes, IsJob, Bots!Idle, Bots!NoShell,
     Bots!NoEntry
<1>5. job[t].step = "idle"
  BY DEF Bots!HomeBegins, Bots!Is, Bots!Begins
<1>6. UNCHANGED <<terminals, shell, mark, spec, running, home, agent, reports, nextShell,
                  contested, unkilled>>
  BY DEF Bots!HomeBegins, Bots!shells
<1> USE <1>2, <1>3, <1>4, <1>5, <1>6
<1>7. BotTypes'
  BY DEF BotTypes, Bots!Shells
<1>8. JobTypes'
  BY <1>1 DEF JobTypes
<1>9. ShellsHaveHomes'
  BY DEF BotTypes, ShellsHaveHomes, Bots!Shells
<1>10. NewShells'
  BY DEF NewShells, HasNew
<1>11. NewShellsDiffer'
  BY DEF NewShellsDiffer, HasNew
<1>12. PanesHadShells'
  BY DEF PanesHadShells, Mentioned
<1>13. NewPanes'
  BY DEF NewPanes, NewPanesDiffer
<1>14. NewPanesDiffer'
  BY DEF NewPanesDiffer, NewPanes, NewShells, HasNew
<1>15. StartsAlone'
  BY DEF StartsAlone, Bots!Starting, Bots!Closing
<1>16. JobsKnow'
  BY DEF BotTypes, JobsKnow, JobKnows, StartsAlone, ShellsHaveHomes, Bots!Starting,
     Bots!Closing, Bots!Shells
<1>17. AgentJobs'
  BY DEF AgentJobs, Bots!Closing
<1>18. TabsHaveShells'
  BY DEF TabsHaveShells, BotTypes
<1>19. ShellsInPlace'
  <2>1. ASSUME NEW s \in running, NEW u \in Threads \ {t}, Bots!HeldBy(u, s)
        PROVE  Bots!HeldBy(u, s)'
    BY <2>1 DEF Bots!HeldBy
  <2>2. ASSUME NEW s \in running', s \in running, InPlace(s) PROVE InPlace(s)'
    BY <2>2 DEF BotTypes, ShellsInPlace, InPlace, JobsKnow, JobKnows, ShellsHaveHomes,
       Bots!HeldBy, Bots!Closing, Bots!Starting, Bots!Shells
  <2>3. ASSUME NEW s \in running', s \in running, Bots!HeldBy(t, s)
        PROVE  InPlace(s)' \/ Bots!HeldBy(t, s)'
    BY <2>3 DEF BotTypes, ShellsInPlace, InPlace, JobsKnow, JobKnows, ShellsHaveHomes,
       Bots!HeldBy, Bots!Closing, Bots!Starting, Bots!Shells
  <2>4. ASSUME NEW s \in running', s \notin running PROVE Bots!HeldBy(t, s)'
    BY <2>4 DEF Bots!HeldBy
  <2> QED BY <2>1, <2>2, <2>3, <2>4 DEF ShellsInPlace
<1>20. MarksMeanRestarts'
  BY DEF BotTypes, MarksMeanRestarts, StartsAlone, JobsKnow, JobKnows, Bots!Starting,
     Bots!Closing
<1>21. LaunchesAreShown'
  BY DEF BotTypes, LaunchesAreShown, Attends, JobsKnow, JobKnows, AgentJobs, StartsAlone,
     ShellsHaveHomes, Bots!Starting, Bots!Closing, Bots!Shells
<1> QED BY <1>7, <1>8, <1>9, <1>10, <1>11, <1>12, <1>13, <1>14, <1>15, <1>16, <1>17, <1>18,
    <1>19, <1>20, <1>21

LEMMA WritesSpecFailsStep ==
  ASSUME BotInv, NEW t \in Threads, Bots!WritesSpecFails(t)
  PROVE  BotInv'
<1> USE MaxShellsAssumption, NowhereAssumption DEF BotInv
<1>1. /\ job' = [u \in Threads |-> job'[u]]
      /\ job'[t] = Bots!Idle
  BY DEF Bots!WritesSpecFails, Bots!Goes, JobTypes, Bots!Ends
<1>2. \A u \in Threads \ {t} : job'[u] = job[u]
  BY DEF Bots!WritesSpecFails, Bots!Goes, JobTypes, Bots!Ends
<1>3. /\ job'[t].op = "none" /\ job'[t].step = "idle" /\ job'[t].pane = Nowhere
      /\ job'[t].old = 0 /\ job'[t].new = 0 /\ job'[t].todo = {}
      /\ job'[t].spec = Bots!Spec0
  BY <1>1 DEF JobTypes, IsJob, Bots!Idle, Bots!NoShell, Bots!NoEntry
<1>4. IsJob(job'[t])
  BY <1>1, <1>3, Spec0Lemma DEF BotTypes, JobTypes, IsJob, Bots!Idle, Bots!NoShell,
     Bots!NoEntry
<1>5. job[t].step = "respec"
  BY DEF Bots!WritesSpecFails, Bots!Is, Bots!Begins
<1>6. UNCHANGED <<terminals, shell, mark, spec, running, home, agent, reports, nextShell,
                  contested, unkilled>>
  BY DEF Bots!WritesSpecFails, Bots!shells
<1> USE <1>2, <1>3, <1>4, <1>5, <1>6
<1>7. BotTypes'
  BY DEF BotTypes, Bots!Shells
<1>8. JobTypes'
  BY <1>1 DEF JobTypes
<1>9. ShellsHaveHomes'
  BY DEF BotTypes, ShellsHaveHomes, Bots!Shells
<1>10. NewShells'
  BY DEF NewShells, HasNew
<1>11. NewShellsDiffer'
  BY DEF NewShellsDiffer, HasNew
<1>12. PanesHadShells'
  BY DEF PanesHadShells, Mentioned
<1>13. NewPanes'
  BY DEF NewPanes, NewPanesDiffer
<1>14. NewPanesDiffer'
  BY DEF NewPanesDiffer, NewPanes, NewShells, HasNew
<1>15. StartsAlone'
  BY DEF StartsAlone, Bots!Starting, Bots!Closing
<1>16. JobsKnow'
  BY DEF BotTypes, JobsKnow, JobKnows, StartsAlone, ShellsHaveHomes, Bots!Starting,
     Bots!Closing, Bots!Shells
<1>17. AgentJobs'
  BY DEF AgentJobs, Bots!Closing
<1>18. TabsHaveShells'
  BY DEF TabsHaveShells, BotTypes
<1>19. ShellsInPlace'
  <2>1. ASSUME NEW s \in running, NEW u \in Threads \ {t}, Bots!HeldBy(u, s)
        PROVE  Bots!HeldBy(u, s)'
    BY <2>1 DEF Bots!HeldBy
  <2>2. ASSUME NEW s \in running', s \in running, InPlace(s) PROVE InPlace(s)'
    BY <2>2 DEF BotTypes, ShellsInPlace, InPlace, JobsKnow, JobKnows, ShellsHaveHomes,
       Bots!HeldBy, Bots!Closing, Bots!Starting, Bots!Shells
  <2>3. ASSUME NEW s \in running', s \in running, Bots!HeldBy(t, s)
        PROVE  InPlace(s)' \/ Bots!HeldBy(t, s)'
    BY <2>3 DEF BotTypes, ShellsInPlace, InPlace, JobsKnow, JobKnows, ShellsHaveHomes,
       Bots!HeldBy, Bots!Closing, Bots!Starting, Bots!Shells
  <2>4. ASSUME NEW s \in running', s \notin running PROVE Bots!HeldBy(t, s)'
    BY <2>4 DEF Bots!HeldBy
  <2> QED BY <2>1, <2>2, <2>3, <2>4 DEF ShellsInPlace
<1>20. MarksMeanRestarts'
  BY DEF BotTypes, MarksMeanRestarts, StartsAlone, JobsKnow, JobKnows, Bots!Starting,
     Bots!Closing
<1>21. LaunchesAreShown'
  BY SMTT(30) DEF BotTypes, LaunchesAreShown, Attends, JobsKnow, JobKnows, AgentJobs, StartsAlone,
     ShellsHaveHomes, Bots!Starting, Bots!Closing, Bots!Shells
<1> QED BY <1>7, <1>8, <1>9, <1>10, <1>11, <1>12, <1>13, <1>14, <1>15, <1>16, <1>17, <1>18,
    <1>19, <1>20, <1>21

LEMMA ReportBotSessionStep ==
  ASSUME BotInv, NEW p \in Panes, Bots!ReportBotSession(p)
  PROVE  BotInv'
<1> USE MaxShellsAssumption, NowhereAssumption DEF BotInv
<1>1. job' = [u \in Threads |-> job'[u]]
  BY DEF JobTypes, Bots!ReportBotSession
<1>2. \A u \in Threads : job'[u] = job[u] /\ IsJob(job'[u])
  BY DEF JobTypes, Bots!ReportBotSession
<1>3. /\ IsSpec(spec')
      /\ \A q \in Panes : \/ spec'.launch[q] = spec.launch[q]
                          \/ spec.launch[q] \notin Bots!Shells /\ spec'.launch[q] \notin Bots!Shells
  BY SpecLemma DEF Bots!ReportBotSession, BotTypes
<1>4. UNCHANGED <<terminals, shell, mark, running, home, agent, reports, nextShell, contested,
                  unkilled>>
  BY DEF Bots!ReportBotSession, Bots!shells
<1> USE <1>2, <1>3, <1>4
<1>5. BotTypes'
  BY DEF BotTypes, Bots!Shells
<1>6. JobTypes'
  BY <1>1 DEF JobTypes
<1>7. ShellsHaveHomes'
  BY DEF BotTypes, ShellsHaveHomes, Bots!Shells
<1>8. NewShells'
  BY DEF NewShells, HasNew
<1>9. NewShellsDiffer'
  BY DEF NewShellsDiffer, HasNew
<1>10. PanesHadShells'
  BY DEF PanesHadShells, Mentioned
<1>11. NewPanes'
  BY DEF NewPanes, NewPanesDiffer
<1>12. NewPanesDiffer'
  BY DEF NewPanesDiffer, NewPanes, NewShells, HasNew
<1>13. StartsAlone'
  BY DEF StartsAlone, Bots!Starting, Bots!Closing
<1>14. JobsKnow'
  BY DEF BotTypes, JobsKnow, JobKnows, StartsAlone, ShellsHaveHomes, Bots!Starting,
     Bots!Closing, Bots!Shells
<1>15. AgentJobs'
  BY DEF AgentJobs, Bots!Closing
<1>16. TabsHaveShells'
  BY DEF TabsHaveShells, BotTypes
<1>17. ShellsInPlace'
  BY DEF BotTypes, ShellsInPlace, InPlace, JobsKnow, JobKnows, ShellsHaveHomes, Bots!HeldBy,
     Bots!Closing, Bots!Starting, Bots!Shells
<1>18. MarksMeanRestarts'
  BY DEF BotTypes, MarksMeanRestarts, StartsAlone, JobsKnow, JobKnows, Bots!Starting,
     Bots!Closing
<1>19. LaunchesAreShown'
  BY DEF BotTypes, LaunchesAreShown, Attends, JobsKnow, JobKnows, AgentJobs, StartsAlone,
     ShellsHaveHomes, Bots!Starting, Bots!Closing, Bots!Shells
<1> QED BY <1>5, <1>6, <1>7, <1>8, <1>9, <1>10, <1>11, <1>12, <1>13, <1>14, <1>15, <1>16,
    <1>17, <1>18, <1>19

LEMMA AgentExitsStep ==
  ASSUME BotInv, NEW s \in Bots!Shells, Bots!AgentExits(s)
  PROVE  BotInv'
<1> USE MaxShellsAssumption, NowhereAssumption DEF BotInv
<1>1. job' = [u \in Threads |-> job'[u]]
  BY DEF JobTypes, Bots!AgentExits
<1>2. \A u \in Threads : job'[u] = job[u] /\ IsJob(job'[u])
  BY DEF JobTypes, Bots!AgentExits
<1>3. s \in agent /\ agent' = agent \ {s} /\ reports' = reports \cup {s}
  BY DEF Bots!AgentExits, Bots!Is, Bots!Begins
<1>4. UNCHANGED <<terminals, shell, mark, spec, running, home, nextShell, contested,
                  unkilled>>
  BY DEF Bots!AgentExits, Bots!shells
<1> USE <1>2, <1>3, <1>4
<1>5. BotTypes'
  BY DEF BotTypes, Bots!Shells
<1>6. JobTypes'
  BY <1>1 DEF JobTypes
<1>7. ShellsHaveHomes'
  BY DEF BotTypes, ShellsHaveHomes, Bots!Shells
<1>8. NewShells'
  BY DEF NewShells, HasNew, BotTypes
<1>9. NewShellsDiffer'
  BY DEF NewShellsDiffer, HasNew
<1>10. PanesHadShells'
  BY DEF PanesHadShells, Mentioned
<1>11. NewPanes'
  BY DEF NewPanes, NewPanesDiffer
<1>12. NewPanesDiffer'
  BY DEF NewPanesDiffer, NewPanes, NewShells, HasNew
<1>13. StartsAlone'
  BY DEF StartsAlone, Bots!Starting, Bots!Closing
<1>14. JobsKnow'
  BY DEF BotTypes, JobsKnow, JobKnows, StartsAlone, ShellsHaveHomes, Bots!Starting,
     Bots!Closing, Bots!Shells
<1>15. AgentJobs'
  BY DEF AgentJobs, Bots!Closing
<1>16. TabsHaveShells'
  BY DEF TabsHaveShells, BotTypes
<1>17. ShellsInPlace'
  BY DEF BotTypes, ShellsInPlace, InPlace, JobsKnow, JobKnows, ShellsHaveHomes, Bots!HeldBy,
     Bots!Closing, Bots!Starting, Bots!Shells
<1>18. MarksMeanRestarts'
  BY DEF BotTypes, MarksMeanRestarts, StartsAlone, JobsKnow, JobKnows, Bots!Starting,
     Bots!Closing
<1>19. LaunchesAreShown'
  BY DEF BotTypes, LaunchesAreShown, Attends, JobsKnow, JobKnows, AgentJobs, StartsAlone,
     ShellsHaveHomes, Bots!Starting, Bots!Closing, Bots!Shells
<1> QED BY <1>5, <1>6, <1>7, <1>8, <1>9, <1>10, <1>11, <1>12, <1>13, <1>14, <1>15, <1>16,
    <1>17, <1>18, <1>19

LEMMA StartsAgentStep ==
  ASSUME BotInv, NEW t \in Threads, Bots!StartsAgent(t)
  PROVE  BotInv'
<1> USE MaxShellsAssumption, NowhereAssumption DEF BotInv
<1>1. job' = [u \in Threads |-> job'[u]]
  BY DEF Bots!StartsAgent, Bots!Goes, JobTypes, Bots!Ends, Bots!NoShell
<1>2. \A u \in Threads \ {t} : job'[u] = job[u]
  BY DEF Bots!StartsAgent, Bots!Goes, JobTypes, Bots!Ends, Bots!NoShell
<1>3. job'[t] \in {[job[t] EXCEPT !.step = "evict"], Bots!Idle,
                   [job[t] EXCEPT !.step = "forget", !.new = 0, !.old = 0, !.pane = Nowhere]}
  BY DEF Bots!StartsAgent, Bots!Goes, JobTypes, Bots!Ends, Bots!NoShell
<1>4. IsJob(job'[t])
  <2>1. CASE job'[t] = [job[t] EXCEPT !.step = "evict"]
    BY <2>1, Spec0Lemma DEF JobTypes, IsJob, Bots!Idle, Bots!NoShell
  <2>2. CASE job'[t] = Bots!Idle
    BY <2>2, Spec0Lemma DEF JobTypes, IsJob, Bots!Idle, Bots!NoShell
  <2>3. CASE job'[t] = [job[t] EXCEPT !.step = "forget", !.new = 0, !.old = 0, !.pane = Nowhere]
    BY <2>3, Spec0Lemma DEF JobTypes, IsJob, Bots!Idle, Bots!NoShell
  <2> QED BY <1>3, <2>1, <2>2, <2>3
<1>5. /\ job'[t].step \in {"evict", "idle", "forget"} /\ job'[t].pane \in {job[t].pane, Nowhere}
      /\ job'[t].todo \subseteq job[t].todo /\ job'[t].op \in {job[t].op, "none"}
  <2>1. CASE job'[t] = [job[t] EXCEPT !.step = "evict"]
    BY <2>1, Spec0Lemma DEF JobTypes, IsJob, Bots!Idle, Bots!NoShell
  <2>2. CASE job'[t] = Bots!Idle
    BY <2>2, Spec0Lemma DEF JobTypes, IsJob, Bots!Idle, Bots!NoShell
  <2>3. CASE job'[t] = [job[t] EXCEPT !.step = "forget", !.new = 0, !.old = 0, !.pane = Nowhere]
    BY <2>3, Spec0Lemma DEF JobTypes, IsJob, Bots!Idle, Bots!NoShell
  <2> QED BY <1>3, <2>1, <2>2, <2>3
<1>6. job[t].step = "record" /\ job[t].pane \in Panes /\ job[t].new \in Bots!Shells
  BY DEF Bots!StartsAgent, Bots!Is, NewShells, HasNew
<1>7. /\ IsSpec(spec')
      /\ \A q \in Panes \ {job[t].pane} : spec'.launch[q] = spec.launch[q]
      /\ IF job[t].pane \in terminals THEN spec'.launch[job[t].pane] = job[t].new ELSE spec' = spec
  <2>1. IsSpec(spec) /\ job[t].new \in 0 .. MaxShells
    BY <1>6 DEF BotTypes, Bots!Shells
  <2>2. spec' = IF job[t].pane \in terminals THEN Bots!Recorded(spec, job[t].pane, job[t].new)
                ELSE spec
    BY DEF Bots!StartsAgent
  <2> QED BY <1>6, <2>1, <2>2, RecordedLemma
<1>8. /\ agent \subseteq agent' /\ agent' \subseteq agent \cup ({job[t].new} \cap running)
      /\ (job[t].pane \notin terminals => agent' = agent)
  BY DEF Bots!StartsAgent, Bots!Is, Bots!Begins
<1>9. UNCHANGED <<terminals, shell, mark, running, home, reports, nextShell, contested,
                  unkilled>>
  BY DEF Bots!StartsAgent, Bots!shells
<1> USE <1>2, <1>3, <1>4, <1>5, <1>6, <1>7, <1>8, <1>9
<1>10. BotTypes'
  BY DEF BotTypes, Bots!Shells
<1>11. JobTypes'
  BY <1>1 DEF JobTypes
<1>12. ShellsHaveHomes'
  BY DEF BotTypes, ShellsHaveHomes, Bots!Shells, NewShells, HasNew
<1>13. NewShells'
  BY DEF NewShells, HasNew, NewShellsDiffer
<1>14. NewShellsDiffer'
  BY DEF NewShellsDiffer, HasNew
<1>15. PanesHadShells'
  BY DEF PanesHadShells, Mentioned
<1>16. NewPanes'
  BY DEF NewPanes, NewPanesDiffer
<1>17. NewPanesDiffer'
  BY DEF NewPanesDiffer, NewPanes, NewShells, HasNew
<1>18. StartsAlone'
  BY DEF StartsAlone, Bots!Starting, Bots!Closing
<1>19. JobsKnow'
  BY SMTT(30) DEF BotTypes, JobsKnow, JobKnows, StartsAlone, ShellsHaveHomes, Bots!Starting,
     Bots!Closing, Bots!Shells, NewShells, HasNew
<1>20. AgentJobs'
  BY DEF AgentJobs, Bots!Closing
<1>21. TabsHaveShells'
  BY DEF TabsHaveShells, BotTypes
<1>22. ShellsInPlace'
  <2>1. ASSUME NEW s \in running, NEW u \in Threads \ {t}, Bots!HeldBy(u, s)
        PROVE  Bots!HeldBy(u, s)'
    BY <2>1 DEF Bots!HeldBy
  <2>2. ASSUME NEW s \in running', s \in running, InPlace(s) PROVE InPlace(s)'
    BY <2>2 DEF BotTypes, ShellsInPlace, InPlace, JobsKnow, JobKnows, ShellsHaveHomes,
       Bots!HeldBy, Bots!Closing, Bots!Starting, Bots!Shells
  <2>3. ASSUME NEW s \in running', s \in running, Bots!HeldBy(t, s)
        PROVE  InPlace(s)' \/ Bots!HeldBy(t, s)'
    BY <2>3 DEF BotTypes, ShellsInPlace, InPlace, JobsKnow, JobKnows, ShellsHaveHomes,
       Bots!HeldBy, Bots!Closing, Bots!Starting, Bots!Shells
  <2>4. ASSUME NEW s \in running', s \notin running PROVE Bots!HeldBy(t, s)'
    BY <2>4 DEF Bots!HeldBy
  <2> QED BY <2>1, <2>2, <2>3, <2>4 DEF ShellsInPlace
<1>23. MarksMeanRestarts'
  BY DEF BotTypes, MarksMeanRestarts, StartsAlone, JobsKnow, JobKnows, Bots!Starting,
     Bots!Closing
<1>24. LaunchesAreShown'
  <2>1. ASSUME NEW q \in terminals' \ contested', spec'.launch[q] \in Bots!Shells
        PROVE  spec'.launch[q] = shell'[q]
    BY <2>1 DEF BotTypes, LaunchesAreShown, Attends, JobsKnow, JobKnows, AgentJobs,
       StartsAlone, ShellsHaveHomes, Bots!Starting, Bots!Closing, Bots!Shells, NewShells,
       HasNew
  <2>2. ASSUME NEW q \in terminals' \ contested', shell'[q] \in agent' \ unkilled',
               spec'.launch[q] # shell'[q], NEW u \in Threads, Attends(u, q)
        PROVE  \E v \in Threads : Attends(v, q)'
    <3>1. CASE u # t
      BY <2>2, <3>1 DEF Attends
    <3>2. CASE u = t
      BY <2>2, <3>2 DEF BotTypes, LaunchesAreShown, Attends, JobsKnow, JobKnows, AgentJobs,
         StartsAlone, ShellsHaveHomes, Bots!Starting, Bots!Closing, Bots!Shells, NewShells,
         HasNew
    <3> QED BY <3>1, <3>2
  <2>3. ASSUME NEW q \in terminals' \ contested', shell'[q] \in agent' \ unkilled',
               spec'.launch[q] # shell'[q], ~\E u \in Threads : Attends(u, q)
        PROVE  Attends(t, q)'
    BY <2>3 DEF BotTypes, LaunchesAreShown, Attends, JobsKnow, JobKnows, AgentJobs,
       StartsAlone, ShellsHaveHomes, Bots!Starting, Bots!Closing, Bots!Shells, NewShells,
       HasNew
  <2> QED BY <2>1, <2>2, <2>3 DEF LaunchesAreShown
<1> QED BY <1>10, <1>11, <1>12, <1>13, <1>14, <1>15, <1>16, <1>17, <1>18, <1>19, <1>20, <1>21,
    <1>22, <1>23, <1>24

LEMMA EvictsStep ==
  ASSUME BotInv, NEW t \in Threads, Bots!Evicts(t)
  PROVE  BotInv'
<1> USE MaxShellsAssumption, NowhereAssumption DEF BotInv
<1>1. job' = [u \in Threads |-> job'[u]]
  BY DEF Bots!Evicts, Bots!Goes, JobTypes, Bots!Evictions
<1>2. \A u \in Threads \ {t} : job'[u] = job[u]
  BY DEF Bots!Evicts, Bots!Goes, JobTypes, Bots!Evictions
<1>3. \E E \in SUBSET terminals :
              job'[t] \in {Bots!Idle, [Bots!Idle EXCEPT !.op = "evict", !.step = "close", !.todo = E]}
  BY DEF Bots!Evicts, Bots!Goes, JobTypes, Bots!Evictions
<1>4. IsJob(job'[t])
  <2>1. PICK E \in SUBSET terminals :
          job'[t] \in {Bots!Idle, [Bots!Idle EXCEPT !.op = "evict", !.step = "close", !.todo = E]}
    BY <1>3
  <2>2. CASE job'[t] = Bots!Idle
    BY <2>2, Spec0Lemma DEF IsJob, Bots!Idle, Bots!NoShell
  <2>3. CASE job'[t] = [Bots!Idle EXCEPT !.op = "evict", !.step = "close", !.todo = E]
    BY <2>3, Spec0Lemma DEF BotTypes, IsJob, Bots!Idle, Bots!NoShell
  <2> QED BY <2>1, <2>2, <2>3
<1>5. /\ job'[t].step \in {"idle", "close"} /\ job'[t].pane = Nowhere
      /\ job'[t].todo \subseteq terminals /\ job'[t].op \in {"none", "evict"}
  <2>1. PICK E \in SUBSET terminals :
          job'[t] \in {Bots!Idle, [Bots!Idle EXCEPT !.op = "evict", !.step = "close", !.todo = E]}
    BY <1>3
  <2>2. CASE job'[t] = Bots!Idle
    BY <2>2, Spec0Lemma DEF IsJob, Bots!Idle, Bots!NoShell
  <2>3. CASE job'[t] = [Bots!Idle EXCEPT !.op = "evict", !.step = "close", !.todo = E]
    BY <2>3, Spec0Lemma DEF BotTypes, IsJob, Bots!Idle, Bots!NoShell
  <2> QED BY <2>1, <2>2, <2>3
<1>6. job[t].step = "evict"
  BY DEF Bots!Evicts, Bots!Is, Bots!Begins
<1>7. UNCHANGED <<terminals, shell, mark, spec, running, home, agent, reports, nextShell,
                  contested, unkilled>>
  BY DEF Bots!Evicts, Bots!shells
<1> USE <1>2, <1>4, <1>5, <1>6, <1>7
<1>8. BotTypes'
  BY DEF BotTypes, Bots!Shells
<1>9. JobTypes'
  BY <1>1 DEF JobTypes
<1>10. ShellsHaveHomes'
  BY DEF BotTypes, ShellsHaveHomes, Bots!Shells
<1>11. NewShells'
  BY DEF NewShells, HasNew
<1>12. NewShellsDiffer'
  BY DEF NewShellsDiffer, HasNew
<1>13. PanesHadShells'
  BY DEF PanesHadShells, Mentioned
<1>14. NewPanes'
  BY DEF NewPanes, NewPanesDiffer
<1>15. NewPanesDiffer'
  BY DEF NewPanesDiffer, NewPanes, NewShells, HasNew
<1>16. StartsAlone'
  BY DEF StartsAlone, Bots!Starting, Bots!Closing
<1>17. JobsKnow'
  BY DEF BotTypes, JobsKnow, JobKnows, StartsAlone, ShellsHaveHomes, Bots!Starting,
     Bots!Closing, Bots!Shells
<1>18. AgentJobs'
  BY DEF AgentJobs, Bots!Closing
<1>19. TabsHaveShells'
  BY DEF TabsHaveShells, BotTypes
<1>20. ShellsInPlace'
  <2>1. ASSUME NEW s \in running, NEW u \in Threads \ {t}, Bots!HeldBy(u, s)
        PROVE  Bots!HeldBy(u, s)'
    BY <2>1 DEF Bots!HeldBy
  <2>2. ASSUME NEW s \in running', s \in running, InPlace(s) PROVE InPlace(s)'
    BY <2>2 DEF BotTypes, ShellsInPlace, InPlace, JobsKnow, JobKnows, ShellsHaveHomes,
       Bots!HeldBy, Bots!Closing, Bots!Starting, Bots!Shells
  <2>3. ASSUME NEW s \in running', s \in running, Bots!HeldBy(t, s)
        PROVE  InPlace(s)' \/ Bots!HeldBy(t, s)'
    BY <2>3 DEF BotTypes, ShellsInPlace, InPlace, JobsKnow, JobKnows, ShellsHaveHomes,
       Bots!HeldBy, Bots!Closing, Bots!Starting, Bots!Shells
  <2>4. ASSUME NEW s \in running', s \notin running PROVE Bots!HeldBy(t, s)'
    BY <2>4 DEF Bots!HeldBy
  <2> QED BY <2>1, <2>2, <2>3, <2>4 DEF ShellsInPlace
<1>21. MarksMeanRestarts'
  BY DEF BotTypes, MarksMeanRestarts, StartsAlone, JobsKnow, JobKnows, Bots!Starting,
     Bots!Closing
<1>22. LaunchesAreShown'
  BY DEF BotTypes, LaunchesAreShown, Attends, JobsKnow, JobKnows, AgentJobs, StartsAlone,
     ShellsHaveHomes, Bots!Starting, Bots!Closing, Bots!Shells
<1> QED BY <1>8, <1>9, <1>10, <1>11, <1>12, <1>13, <1>14, <1>15, <1>16, <1>17, <1>18, <1>19,
    <1>20, <1>21, <1>22

LEMMA RelaunchMarksStep ==
  ASSUME BotInv, NEW t \in Threads, job[t].pane \in terminals, Bots!RelaunchMarks(t)
  PROVE  BotInv'
<1> USE MaxShellsAssumption, NowhereAssumption DEF BotInv
<1>1. /\ job' = [u \in Threads |-> job'[u]]
      /\ job'[t] = [job[t] EXCEPT !.step = "kill", !.old = shell[job[t].pane]]
  BY DEF Bots!RelaunchMarks, Bots!Goes, JobTypes
<1>2. \A u \in Threads \ {t} : job'[u] = job[u]
  BY DEF Bots!RelaunchMarks, Bots!Goes, JobTypes
<1>3. /\ job'[t].op = job[t].op /\ job'[t].step = "kill" /\ job'[t].pane = job[t].pane
      /\ job'[t].old = shell[job[t].pane] /\ job'[t].new = job[t].new /\ job'[t].todo = job[t].todo
      /\ job'[t].spec = job[t].spec
  BY <1>1 DEF JobTypes, IsJob, Bots!Idle, Bots!NoShell, Bots!NoEntry
<1>4. IsJob(job'[t])
  BY <1>1, <1>3, Spec0Lemma DEF BotTypes, JobTypes, IsJob, Bots!Idle, Bots!NoShell,
     Bots!NoEntry
<1>5. job[t].step = "mark" /\ mark' = mark \cup {job[t].pane} /\ job[t].pane \in terminals
  BY DEF Bots!RelaunchMarks, Bots!Is
<1>6. UNCHANGED <<terminals, shell, spec, running, home, agent, reports, nextShell, contested,
                  unkilled>>
  BY DEF Bots!RelaunchMarks, Bots!shells
<1> USE <1>2, <1>3, <1>4, <1>5, <1>6
<1>7. BotTypes'
  BY DEF BotTypes, Bots!Shells
<1>8. JobTypes'
  BY <1>1 DEF JobTypes
<1>9. ShellsHaveHomes'
  BY DEF BotTypes, ShellsHaveHomes, Bots!Shells
<1>10. NewShells'
  BY DEF NewShells, HasNew
<1>11. NewShellsDiffer'
  BY DEF NewShellsDiffer, HasNew
<1>12. PanesHadShells'
  BY DEF PanesHadShells, Mentioned
<1>13. NewPanes'
  BY DEF NewPanes, NewPanesDiffer
<1>14. NewPanesDiffer'
  BY DEF NewPanesDiffer, NewPanes, NewShells, HasNew
<1>15. StartsAlone'
  BY DEF StartsAlone, Bots!Starting, Bots!Closing
<1>16. JobsKnow'
  BY DEF BotTypes, JobsKnow, JobKnows, StartsAlone, ShellsHaveHomes, Bots!Starting,
     Bots!Closing, Bots!Shells
<1>17. AgentJobs'
  BY DEF AgentJobs, Bots!Closing
<1>18. TabsHaveShells'
  BY DEF TabsHaveShells, BotTypes
<1>19. ShellsInPlace'
  <2>1. ASSUME NEW s \in running, NEW u \in Threads \ {t}, Bots!HeldBy(u, s)
        PROVE  Bots!HeldBy(u, s)'
    BY <2>1 DEF Bots!HeldBy
  <2>2. ASSUME NEW s \in running', s \in running, InPlace(s) PROVE InPlace(s)'
    BY <2>2 DEF BotTypes, ShellsInPlace, InPlace, JobsKnow, JobKnows, ShellsHaveHomes,
       Bots!HeldBy, Bots!Closing, Bots!Starting, Bots!Shells
  <2>3. ASSUME NEW s \in running', s \in running, Bots!HeldBy(t, s)
        PROVE  InPlace(s)' \/ Bots!HeldBy(t, s)'
    BY <2>3 DEF BotTypes, ShellsInPlace, InPlace, JobsKnow, JobKnows, ShellsHaveHomes,
       Bots!HeldBy, Bots!Closing, Bots!Starting, Bots!Shells
  <2>4. ASSUME NEW s \in running', s \notin running PROVE Bots!HeldBy(t, s)'
    BY <2>4 DEF Bots!HeldBy
  <2> QED BY <2>1, <2>2, <2>3, <2>4 DEF ShellsInPlace
<1>20. MarksMeanRestarts'
  BY DEF BotTypes, MarksMeanRestarts, StartsAlone, JobsKnow, JobKnows, Bots!Starting,
     Bots!Closing
<1>21. LaunchesAreShown'
  BY DEF BotTypes, LaunchesAreShown, Attends, JobsKnow, JobKnows, AgentJobs, StartsAlone,
     ShellsHaveHomes, Bots!Starting, Bots!Closing, Bots!Shells
<1> QED BY <1>7, <1>8, <1>9, <1>10, <1>11, <1>12, <1>13, <1>14, <1>15, <1>16, <1>17, <1>18,
    <1>19, <1>20, <1>21

LEMMA RelaunchMarksNoneStep ==
  ASSUME BotInv, NEW t \in Threads, job[t].pane \notin terminals, Bots!RelaunchMarks(t)
  PROVE  BotInv'
<1> USE MaxShellsAssumption, NowhereAssumption DEF BotInv
<1>1. /\ job' = [u \in Threads |-> job'[u]]
      /\ job'[t] = Bots!Idle
  BY DEF Bots!RelaunchMarks, Bots!Goes, JobTypes, Bots!Ends
<1>2. \A u \in Threads \ {t} : job'[u] = job[u]
  BY DEF Bots!RelaunchMarks, Bots!Goes, JobTypes, Bots!Ends
<1>3. /\ job'[t].op = "none" /\ job'[t].step = "idle" /\ job'[t].pane = Nowhere
      /\ job'[t].old = 0 /\ job'[t].new = 0 /\ job'[t].todo = {}
      /\ job'[t].spec = Bots!Spec0
  BY <1>1 DEF JobTypes, IsJob, Bots!Idle, Bots!NoShell, Bots!NoEntry
<1>4. IsJob(job'[t])
  BY <1>1, <1>3, Spec0Lemma DEF BotTypes, JobTypes, IsJob, Bots!Idle, Bots!NoShell,
     Bots!NoEntry
<1>5. job[t].step = "mark" /\ job[t].pane \notin terminals
  BY DEF Bots!RelaunchMarks, Bots!Is
<1>6. UNCHANGED <<terminals, shell, mark, spec, running, home, agent, reports, nextShell,
                  contested, unkilled>>
  BY DEF Bots!RelaunchMarks, Bots!shells
<1> USE <1>2, <1>3, <1>4, <1>5, <1>6
<1>7. BotTypes'
  BY DEF BotTypes, Bots!Shells
<1>8. JobTypes'
  BY <1>1 DEF JobTypes
<1>9. ShellsHaveHomes'
  BY DEF BotTypes, ShellsHaveHomes, Bots!Shells
<1>10. NewShells'
  BY DEF NewShells, HasNew
<1>11. NewShellsDiffer'
  BY DEF NewShellsDiffer, HasNew
<1>12. PanesHadShells'
  BY DEF PanesHadShells, Mentioned
<1>13. NewPanes'
  BY DEF NewPanes, NewPanesDiffer
<1>14. NewPanesDiffer'
  BY DEF NewPanesDiffer, NewPanes, NewShells, HasNew
<1>15. StartsAlone'
  BY DEF StartsAlone, Bots!Starting, Bots!Closing
<1>16. JobsKnow'
  BY DEF BotTypes, JobsKnow, JobKnows, StartsAlone, ShellsHaveHomes, Bots!Starting,
     Bots!Closing, Bots!Shells
<1>17. AgentJobs'
  BY DEF AgentJobs, Bots!Closing
<1>18. TabsHaveShells'
  BY DEF TabsHaveShells, BotTypes
<1>19. ShellsInPlace'
  <2>1. ASSUME NEW s \in running, NEW u \in Threads \ {t}, Bots!HeldBy(u, s)
        PROVE  Bots!HeldBy(u, s)'
    BY <2>1 DEF Bots!HeldBy
  <2>2. ASSUME NEW s \in running', s \in running, InPlace(s) PROVE InPlace(s)'
    BY <2>2 DEF BotTypes, ShellsInPlace, InPlace, JobsKnow, JobKnows, ShellsHaveHomes,
       Bots!HeldBy, Bots!Closing, Bots!Starting, Bots!Shells
  <2>3. ASSUME NEW s \in running', s \in running, Bots!HeldBy(t, s)
        PROVE  InPlace(s)' \/ Bots!HeldBy(t, s)'
    BY <2>3 DEF BotTypes, ShellsInPlace, InPlace, JobsKnow, JobKnows, ShellsHaveHomes,
       Bots!HeldBy, Bots!Closing, Bots!Starting, Bots!Shells
  <2>4. ASSUME NEW s \in running', s \notin running PROVE Bots!HeldBy(t, s)'
    BY <2>4 DEF Bots!HeldBy
  <2> QED BY <2>1, <2>2, <2>3, <2>4 DEF ShellsInPlace
<1>20. MarksMeanRestarts'
  BY DEF BotTypes, MarksMeanRestarts, StartsAlone, JobsKnow, JobKnows, Bots!Starting,
     Bots!Closing
<1>21. LaunchesAreShown'
  BY DEF BotTypes, LaunchesAreShown, Attends, JobsKnow, JobKnows, AgentJobs, StartsAlone,
     ShellsHaveHomes, Bots!Starting, Bots!Closing, Bots!Shells
<1> QED BY <1>7, <1>8, <1>9, <1>10, <1>11, <1>12, <1>13, <1>14, <1>15, <1>16, <1>17, <1>18,
    <1>19, <1>20, <1>21

LEMMA AgentBeginsStep ==
  ASSUME BotInv, NEW t \in Threads, NEW p \in Panes, Bots!AgentBegins(t, p)
  PROVE  BotInv'
<1> USE MaxShellsAssumption, NowhereAssumption DEF BotInv
<1>1. job' = [u \in Threads |-> job'[u]]
  BY DEF Bots!AgentBegins, Bots!Goes, JobTypes
<1>2. \A u \in Threads \ {t} : job'[u] = job[u]
  BY DEF Bots!AgentBegins, Bots!Goes, JobTypes
<1>3. PICK j : j = [Bots!Idle EXCEPT !.op = "agent"]
  OBVIOUS
<1>4. job'[t] = Bots!AfterClosing(j, terminals \ {p})
  BY <1>3 DEF Bots!AgentBegins, Bots!Goes, JobTypes
<1>5. IsJob(j)
  BY <1>3, Spec0Lemma DEF IsJob, Bots!Idle, Bots!NoShell, Bots!NoEntry
<1>6. /\ job'[t].pane = Nowhere /\ job'[t].todo \subseteq terminals /\ IsJob(job'[t])
      /\ job'[t].step \in {"close", "reread", "idle"}
      /\ (job'[t].step # "close" => job'[t].todo = {})
  <2>1. terminals \ {p} \in SUBSET Panes
    BY DEF BotTypes
  <2>2. Closed(Bots!AfterClosing(j, terminals \ {p}), terminals \ {p})
    BY <1>5, <2>1, AfterClosingLemma
  <2> QED BY <1>4, <2>2 DEF Closed
<1>7. job[t].step = "idle"
  BY DEF Bots!AgentBegins, Bots!Is, Bots!Begins
<1>8. UNCHANGED <<terminals, shell, mark, spec, running, home, agent, reports, nextShell,
                  contested, unkilled>>
  BY DEF Bots!AgentBegins, Bots!shells
<1> USE <1>2, <1>6, <1>7, <1>8
<1>9. BotTypes'
  BY DEF BotTypes, Bots!Shells
<1>10. JobTypes'
  BY <1>1 DEF JobTypes
<1>11. ShellsHaveHomes'
  BY DEF BotTypes, ShellsHaveHomes, Bots!Shells
<1>12. NewShells'
  BY DEF NewShells, HasNew
<1>13. NewShellsDiffer'
  BY DEF NewShellsDiffer, HasNew
<1>14. PanesHadShells'
  BY DEF PanesHadShells, Mentioned
<1>15. NewPanes'
  BY DEF NewPanes, NewPanesDiffer
<1>16. NewPanesDiffer'
  BY DEF NewPanesDiffer, NewPanes, NewShells, HasNew
<1>17. StartsAlone'
  BY DEF StartsAlone, Bots!Starting, Bots!Closing
<1>18. JobsKnow'
  BY DEF BotTypes, JobsKnow, JobKnows, StartsAlone, ShellsHaveHomes, Bots!Starting,
     Bots!Closing, Bots!Shells
<1>19. AgentJobs'
  BY DEF AgentJobs, Bots!Closing
<1>20. TabsHaveShells'
  BY DEF TabsHaveShells, BotTypes
<1>21. ShellsInPlace'
  <2>1. ASSUME NEW s \in running, NEW u \in Threads \ {t}, Bots!HeldBy(u, s)
        PROVE  Bots!HeldBy(u, s)'
    BY <2>1 DEF Bots!HeldBy
  <2>2. ASSUME NEW s \in running', s \in running, InPlace(s) PROVE InPlace(s)'
    BY <2>2 DEF BotTypes, ShellsInPlace, InPlace, JobsKnow, JobKnows, ShellsHaveHomes,
       Bots!HeldBy, Bots!Closing, Bots!Starting, Bots!Shells
  <2>3. ASSUME NEW s \in running', s \in running, Bots!HeldBy(t, s)
        PROVE  InPlace(s)' \/ Bots!HeldBy(t, s)'
    BY <2>3 DEF BotTypes, ShellsInPlace, InPlace, JobsKnow, JobKnows, ShellsHaveHomes,
       Bots!HeldBy, Bots!Closing, Bots!Starting, Bots!Shells
  <2>4. ASSUME NEW s \in running', s \notin running PROVE Bots!HeldBy(t, s)'
    BY <2>4 DEF Bots!HeldBy
  <2> QED BY <2>1, <2>2, <2>3, <2>4 DEF ShellsInPlace
<1>22. MarksMeanRestarts'
  BY DEF BotTypes, MarksMeanRestarts, StartsAlone, JobsKnow, JobKnows, Bots!Starting,
     Bots!Closing
<1>23. LaunchesAreShown'
  BY DEF BotTypes, LaunchesAreShown, Attends, JobsKnow, JobKnows, AgentJobs, StartsAlone,
     ShellsHaveHomes, Bots!Starting, Bots!Closing, Bots!Shells
<1> QED BY <1>9, <1>10, <1>11, <1>12, <1>13, <1>14, <1>15, <1>16, <1>17, <1>18, <1>19, <1>20,
    <1>21, <1>22, <1>23

LEMMA AgentRereadsNoneStep ==
  ASSUME BotInv, NEW t \in Threads, terminals = {}, Bots!AgentRereads(t)
  PROVE  BotInv'
<1> USE MaxShellsAssumption, NowhereAssumption DEF BotInv
<1>1. /\ job' = [u \in Threads |-> job'[u]]
      /\ job'[t] = [job[t] EXCEPT !.step = "respec"]
  BY DEF Bots!AgentRereads, Bots!Goes, JobTypes
<1>2. \A u \in Threads \ {t} : job'[u] = job[u]
  BY DEF Bots!AgentRereads, Bots!Goes, JobTypes
<1>3. /\ job'[t].op = job[t].op /\ job'[t].step = "respec" /\ job'[t].pane = job[t].pane
      /\ job'[t].old = job[t].old /\ job'[t].new = job[t].new /\ job'[t].todo = job[t].todo
      /\ job'[t].spec = job[t].spec
  BY <1>1 DEF JobTypes, IsJob, Bots!Idle, Bots!NoShell, Bots!NoEntry
<1>4. IsJob(job'[t])
  BY <1>1, <1>3, Spec0Lemma DEF BotTypes, JobTypes, IsJob, Bots!Idle, Bots!NoShell,
     Bots!NoEntry
<1>5. job[t].step = "reread"
  BY DEF Bots!AgentRereads, Bots!Is, Bots!Begins
<1>6. UNCHANGED <<terminals, shell, mark, spec, running, home, agent, reports, nextShell,
                  contested, unkilled>>
  BY DEF Bots!AgentRereads, Bots!shells
<1> USE <1>2, <1>3, <1>4, <1>5, <1>6
<1>7. BotTypes'
  BY DEF BotTypes, Bots!Shells
<1>8. JobTypes'
  BY <1>1 DEF JobTypes
<1>9. ShellsHaveHomes'
  BY DEF BotTypes, ShellsHaveHomes, Bots!Shells
<1>10. NewShells'
  BY DEF NewShells, HasNew
<1>11. NewShellsDiffer'
  BY DEF NewShellsDiffer, HasNew
<1>12. PanesHadShells'
  BY DEF PanesHadShells, Mentioned
<1>13. NewPanes'
  BY DEF NewPanes, NewPanesDiffer
<1>14. NewPanesDiffer'
  BY DEF NewPanesDiffer, NewPanes, NewShells, HasNew
<1>15. StartsAlone'
  BY DEF StartsAlone, Bots!Starting, Bots!Closing
<1>16. JobsKnow'
  BY DEF BotTypes, JobsKnow, JobKnows, StartsAlone, ShellsHaveHomes, Bots!Starting,
     Bots!Closing, Bots!Shells
<1>17. AgentJobs'
  BY DEF AgentJobs, Bots!Closing
<1>18. TabsHaveShells'
  BY DEF TabsHaveShells, BotTypes
<1>19. ShellsInPlace'
  <2>1. ASSUME NEW s \in running, NEW u \in Threads \ {t}, Bots!HeldBy(u, s)
        PROVE  Bots!HeldBy(u, s)'
    BY <2>1 DEF Bots!HeldBy
  <2>2. ASSUME NEW s \in running', s \in running, InPlace(s) PROVE InPlace(s)'
    BY <2>2 DEF BotTypes, ShellsInPlace, InPlace, JobsKnow, JobKnows, ShellsHaveHomes,
       Bots!HeldBy, Bots!Closing, Bots!Starting, Bots!Shells
  <2>3. ASSUME NEW s \in running', s \in running, Bots!HeldBy(t, s)
        PROVE  InPlace(s)' \/ Bots!HeldBy(t, s)'
    BY <2>3 DEF BotTypes, ShellsInPlace, InPlace, JobsKnow, JobKnows, ShellsHaveHomes,
       Bots!HeldBy, Bots!Closing, Bots!Starting, Bots!Shells
  <2>4. ASSUME NEW s \in running', s \notin running PROVE Bots!HeldBy(t, s)'
    BY <2>4 DEF Bots!HeldBy
  <2> QED BY <2>1, <2>2, <2>3, <2>4 DEF ShellsInPlace
<1>20. MarksMeanRestarts'
  BY DEF BotTypes, MarksMeanRestarts, StartsAlone, JobsKnow, JobKnows, Bots!Starting,
     Bots!Closing
<1>21. LaunchesAreShown'
  BY DEF BotTypes, LaunchesAreShown, Attends, JobsKnow, JobKnows, AgentJobs, StartsAlone,
     ShellsHaveHomes, Bots!Starting, Bots!Closing, Bots!Shells
<1> QED BY <1>7, <1>8, <1>9, <1>10, <1>11, <1>12, <1>13, <1>14, <1>15, <1>16, <1>17, <1>18,
    <1>19, <1>20, <1>21

LEMMA AgentRereadsStep ==
  ASSUME BotInv, NEW t \in Threads, terminals # {}, Bots!AgentRereads(t)
  PROVE  BotInv'
<1> USE MaxShellsAssumption, NowhereAssumption DEF BotInv
<1>1. PICK p \in terminals :
           job' = [job EXCEPT ![t] = [job[t] EXCEPT !.step = "respec", !.todo = {p},
                     !.spec = Bots!Activated(Bots!Recorded(Bots!Spec0, p, 0), p)]]
  BY DEF Bots!AgentRereads, Bots!Goes, Bots!Active, Bots!NoShell
<1>2. PICK w : w = Bots!Recorded(Bots!Spec0, p, 0)
  OBVIOUS
<1>3. PICK v : v = Bots!Activated(w, p)
  OBVIOUS
<1>4. p \in Panes /\ p \in terminals
  BY DEF BotTypes
<1>5. IsSpec(w) /\ w.launch[p] = 0
  <2>1. IsSpec(Bots!Spec0) /\ 0 \in 0 .. MaxShells
    BY Spec0Lemma
  <2> QED BY <1>2, <1>4, <2>1, RecordedLemma
<1>6. IsSpec(v) /\ v.launch[p] \notin Bots!Shells
  BY <1>3, <1>4, <1>5, SpecLemma DEF Bots!Shells
<1>7. /\ job' = [u \in Threads |-> job'[u]]
      /\ job'[t] = [job[t] EXCEPT !.step = "respec", !.todo = {p}, !.spec = v]
  BY <1>1, <1>2, <1>3 DEF JobTypes
<1>8. \A u \in Threads \ {t} : job'[u] = job[u]
  BY <1>1 DEF JobTypes
<1>9. /\ job'[t].op = job[t].op /\ job'[t].step = "respec" /\ job'[t].pane = job[t].pane
      /\ job'[t].todo = {p} /\ job'[t].spec = v
  BY <1>7 DEF JobTypes, IsJob
<1>10. IsJob(job'[t])
  BY <1>4, <1>6, <1>7, <1>9 DEF JobTypes, IsJob
<1>11. job[t].step = "reread"
  BY DEF Bots!AgentRereads, Bots!Is, Bots!Begins
<1>12. UNCHANGED <<terminals, shell, mark, spec, running, home, agent, reports, nextShell,
                   contested, unkilled>>
  BY DEF Bots!AgentRereads, Bots!shells
<1> USE <1>4, <1>6, <1>8, <1>9, <1>10, <1>11, <1>12
<1>13. BotTypes'
  BY DEF BotTypes, Bots!Shells
<1>14. JobTypes'
  BY <1>1 DEF JobTypes
<1>15. ShellsHaveHomes'
  BY DEF BotTypes, ShellsHaveHomes, Bots!Shells
<1>16. NewShells'
  BY DEF NewShells, HasNew
<1>17. NewShellsDiffer'
  BY DEF NewShellsDiffer, HasNew
<1>18. PanesHadShells'
  BY DEF PanesHadShells, Mentioned
<1>19. NewPanes'
  BY DEF NewPanes, NewPanesDiffer
<1>20. NewPanesDiffer'
  BY DEF NewPanesDiffer, NewPanes, NewShells, HasNew
<1>21. StartsAlone'
  BY DEF StartsAlone, Bots!Starting, Bots!Closing
<1>22. JobsKnow'
  BY DEF BotTypes, JobsKnow, JobKnows, StartsAlone, ShellsHaveHomes, Bots!Starting,
     Bots!Closing, Bots!Shells
<1>23. AgentJobs'
  BY DEF AgentJobs, Bots!Closing
<1>24. TabsHaveShells'
  BY DEF TabsHaveShells, BotTypes
<1>25. ShellsInPlace'
  <2>1. ASSUME NEW s \in running, NEW u \in Threads \ {t}, Bots!HeldBy(u, s)
        PROVE  Bots!HeldBy(u, s)'
    BY <2>1 DEF Bots!HeldBy
  <2>2. ASSUME NEW s \in running', s \in running, InPlace(s) PROVE InPlace(s)'
    BY <2>2 DEF BotTypes, ShellsInPlace, InPlace, JobsKnow, JobKnows, ShellsHaveHomes,
       Bots!HeldBy, Bots!Closing, Bots!Starting, Bots!Shells
  <2>3. ASSUME NEW s \in running', s \in running, Bots!HeldBy(t, s)
        PROVE  InPlace(s)' \/ Bots!HeldBy(t, s)'
    BY <2>3 DEF BotTypes, ShellsInPlace, InPlace, JobsKnow, JobKnows, ShellsHaveHomes,
       Bots!HeldBy, Bots!Closing, Bots!Starting, Bots!Shells
  <2>4. ASSUME NEW s \in running', s \notin running PROVE Bots!HeldBy(t, s)'
    BY <2>4 DEF Bots!HeldBy
  <2> QED BY <2>1, <2>2, <2>3, <2>4 DEF ShellsInPlace
<1>26. MarksMeanRestarts'
  BY DEF BotTypes, MarksMeanRestarts, StartsAlone, JobsKnow, JobKnows, Bots!Starting,
     Bots!Closing
<1>27. LaunchesAreShown'
  BY DEF BotTypes, LaunchesAreShown, Attends, JobsKnow, JobKnows, AgentJobs, StartsAlone,
     ShellsHaveHomes, Bots!Starting, Bots!Closing, Bots!Shells
<1> QED BY <1>13, <1>14, <1>15, <1>16, <1>17, <1>18, <1>19, <1>20, <1>21, <1>22, <1>23, <1>24,
    <1>25, <1>26, <1>27

LEMMA WritesSpecStep ==
  ASSUME BotInv, NEW t \in Threads, Bots!WritesSpec(t)
  PROVE  BotInv'
<1> USE MaxShellsAssumption, NowhereAssumption DEF BotInv
<1>1. job' = [u \in Threads |-> job'[u]]
  BY DEF Bots!WritesSpec, Bots!Goes, JobTypes, Bots!Idle, Bots!NoShell, Bots!NoEntry
<1>2. \A u \in Threads \ {t} : job'[u] = job[u]
  BY DEF Bots!WritesSpec, Bots!Goes, JobTypes, Bots!Idle, Bots!NoShell, Bots!NoEntry
<1>3. job'[t] \in {Bots!Idle, [job[t] EXCEPT !.step = "forget", !.spec = Bots!Spec0]}
  BY DEF Bots!WritesSpec, Bots!Goes, JobTypes, Bots!Idle, Bots!NoShell, Bots!NoEntry
<1>4. IsJob(job'[t])
  <2>1. CASE job'[t] = Bots!Idle
    BY <2>1, Spec0Lemma DEF JobTypes, IsJob, Bots!Idle, Bots!NoShell
  <2>2. CASE job'[t] = [job[t] EXCEPT !.step = "forget", !.spec = Bots!Spec0]
    BY <2>2, Spec0Lemma DEF JobTypes, IsJob, Bots!Idle, Bots!NoShell
  <2> QED BY <1>3, <2>1, <2>2
<1>5. /\ job'[t].step \in {"idle", "forget"} /\ job'[t].pane \in {job[t].pane, Nowhere}
      /\ job'[t].todo \subseteq job[t].todo /\ job'[t].op \in {job[t].op, "none"}
  <2>1. CASE job'[t] = Bots!Idle
    BY <2>1, Spec0Lemma DEF JobTypes, IsJob, Bots!Idle, Bots!NoShell
  <2>2. CASE job'[t] = [job[t] EXCEPT !.step = "forget", !.spec = Bots!Spec0]
    BY <2>2, Spec0Lemma DEF JobTypes, IsJob, Bots!Idle, Bots!NoShell
  <2> QED BY <1>3, <2>1, <2>2
<1>6. job[t].step = "respec" /\ spec' = job[t].spec
  BY DEF Bots!WritesSpec, Bots!Is, Bots!Begins
<1>7. IsSpec(spec')
  BY <1>6 DEF JobTypes, IsJob
<1>8. \A q \in terminals : job[t].op = "agent" /\ q \in job[t].todo =>
        job'[t].op = "agent" /\ job'[t].step = "forget" /\ q \in job'[t].todo
  <2> SUFFICES ASSUME NEW q \in terminals, job[t].op = "agent", q \in job[t].todo
               PROVE  job'[t].op = "agent" /\ job'[t].step = "forget" /\ q \in job'[t].todo
    OBVIOUS
  <2>1. job[t].todo \subseteq terminals /\ job[t].todo # {}
    BY <1>6 DEF AgentJobs, Bots!Closing
  <2>2. job'[t] = [job[t] EXCEPT !.step = "forget", !.spec = Bots!Spec0]
    BY <2>1 DEF Bots!WritesSpec, Bots!Goes, JobTypes
  <2> QED BY <2>2 DEF JobTypes, IsJob
<1>9. /\ contested \subseteq contested'
      /\ \A q \in terminals \ contested' :
           \/ spec'.launch[q] = spec.launch[q]
           \/ job[t].op = "agent" /\ q \in job[t].todo /\ spec'.launch[q] \notin Bots!Shells
  BY <1>6 DEF Bots!WritesSpec, AgentJobs
<1>10. UNCHANGED <<terminals, shell, mark, running, home, agent, reports, nextShell,
                   unkilled>>
  BY DEF Bots!WritesSpec, Bots!shells
<1> USE <1>2, <1>3, <1>4, <1>5, <1>6, <1>7, <1>8, <1>9, <1>10
<1>11. BotTypes'
  BY DEF BotTypes, Bots!Shells
<1>12. JobTypes'
  BY <1>1 DEF JobTypes
<1>13. ShellsHaveHomes'
  BY DEF BotTypes, ShellsHaveHomes, Bots!Shells
<1>14. NewShells'
  BY DEF NewShells, HasNew
<1>15. NewShellsDiffer'
  BY DEF NewShellsDiffer, HasNew
<1>16. PanesHadShells'
  BY DEF PanesHadShells, Mentioned
<1>17. NewPanes'
  BY DEF NewPanes, NewPanesDiffer
<1>18. NewPanesDiffer'
  BY DEF NewPanesDiffer, NewPanes, NewShells, HasNew
<1>19. StartsAlone'
  BY DEF StartsAlone, Bots!Starting, Bots!Closing
<1>20. JobsKnow'
  BY SMTT(30) DEF BotTypes, JobsKnow, JobKnows, StartsAlone, ShellsHaveHomes, Bots!Starting,
     Bots!Closing, Bots!Shells
<1>21. AgentJobs'
  BY DEF AgentJobs, Bots!Closing
<1>22. TabsHaveShells'
  BY DEF TabsHaveShells, BotTypes
<1>23. ShellsInPlace'
  <2>1. ASSUME NEW s \in running, NEW u \in Threads \ {t}, Bots!HeldBy(u, s)
        PROVE  Bots!HeldBy(u, s)'
    BY <2>1 DEF Bots!HeldBy
  <2>2. ASSUME NEW s \in running', s \in running, InPlace(s) PROVE InPlace(s)'
    BY <2>2 DEF BotTypes, ShellsInPlace, InPlace, JobsKnow, JobKnows, ShellsHaveHomes,
       Bots!HeldBy, Bots!Closing, Bots!Starting, Bots!Shells
  <2>3. ASSUME NEW s \in running', s \in running, Bots!HeldBy(t, s)
        PROVE  InPlace(s)' \/ Bots!HeldBy(t, s)'
    BY <2>3 DEF BotTypes, ShellsInPlace, InPlace, JobsKnow, JobKnows, ShellsHaveHomes,
       Bots!HeldBy, Bots!Closing, Bots!Starting, Bots!Shells
  <2>4. ASSUME NEW s \in running', s \notin running PROVE Bots!HeldBy(t, s)'
    BY <2>4 DEF Bots!HeldBy
  <2> QED BY <2>1, <2>2, <2>3, <2>4 DEF ShellsInPlace
<1>24. MarksMeanRestarts'
  BY DEF BotTypes, MarksMeanRestarts, StartsAlone, JobsKnow, JobKnows, Bots!Starting,
     Bots!Closing
<1>25. LaunchesAreShown'
  <2>1. ASSUME NEW q \in terminals' \ contested', spec'.launch[q] \in Bots!Shells
        PROVE  spec'.launch[q] = shell'[q]
    BY <2>1 DEF BotTypes, LaunchesAreShown, Attends, JobsKnow, JobKnows, AgentJobs,
       StartsAlone, ShellsHaveHomes, Bots!Starting, Bots!Closing, Bots!Shells
  <2>2. ASSUME NEW q \in terminals' \ contested', shell'[q] \in agent' \ unkilled',
               spec'.launch[q] # shell'[q], NEW u \in Threads, Attends(u, q)
        PROVE  \E v \in Threads : Attends(v, q)'
    <3>1. CASE u # t
      BY <2>2, <3>1 DEF Attends
    <3>2. CASE u = t
      BY <2>2, <3>2 DEF BotTypes, LaunchesAreShown, Attends, JobsKnow, JobKnows, AgentJobs,
         StartsAlone, ShellsHaveHomes, Bots!Starting, Bots!Closing, Bots!Shells
    <3> QED BY <3>1, <3>2
  <2>3. ASSUME NEW q \in terminals' \ contested', shell'[q] \in agent' \ unkilled',
               spec'.launch[q] # shell'[q], ~\E u \in Threads : Attends(u, q)
        PROVE  Attends(t, q)'
    BY <2>3 DEF BotTypes, LaunchesAreShown, Attends, JobsKnow, JobKnows, AgentJobs,
       StartsAlone, ShellsHaveHomes, Bots!Starting, Bots!Closing, Bots!Shells
  <2> QED BY <2>1, <2>2, <2>3 DEF LaunchesAreShown
<1> QED BY <1>11, <1>12, <1>13, <1>14, <1>15, <1>16, <1>17, <1>18, <1>19, <1>20, <1>21, <1>22,
    <1>23, <1>24, <1>25

LEMMA RenewBeginsStep ==
  ASSUME BotInv, NEW t \in Threads, Bots!RenewBegins(t)
  PROVE  BotInv'
<1> USE MaxShellsAssumption, NowhereAssumption DEF BotInv
<1>1. job' = [u \in Threads |-> job'[u]]
  BY DEF Bots!RenewBegins, Bots!Goes, JobTypes, Bots!Ends
<1>2. \A u \in Threads \ {t} : job'[u] = job[u]
  BY DEF Bots!RenewBegins, Bots!Goes, JobTypes, Bots!Ends
<1>3. job'[t] \in {Bots!Idle, [job[t] EXCEPT !.step = "forget"]}
  BY DEF Bots!RenewBegins, Bots!Goes, JobTypes, Bots!Ends
<1>4. IsJob(job'[t])
  BY <1>3, Spec0Lemma DEF JobTypes, IsJob, Bots!Idle, Bots!NoShell, Bots!NoEntry
<1>5. /\ job'[t].step \in {"idle", "forget"} /\ job'[t].pane \in {job[t].pane, Nowhere}
      /\ job'[t].todo \subseteq job[t].todo /\ job'[t].op \in {job[t].op, "none"}
  BY <1>3 DEF JobTypes, IsJob, Bots!Idle, Bots!NoShell, Bots!NoEntry
<1>6. job[t].step = "renew"
  BY DEF Bots!RenewBegins, Bots!Is, Bots!Begins
<1>7. UNCHANGED <<terminals, shell, mark, spec, running, home, agent, reports, nextShell,
                  contested, unkilled>>
  BY DEF Bots!RenewBegins, Bots!shells
<1> USE <1>2, <1>3, <1>4, <1>5, <1>6, <1>7
<1>8. BotTypes'
  BY DEF BotTypes, Bots!Shells
<1>9. JobTypes'
  BY <1>1 DEF JobTypes
<1>10. ShellsHaveHomes'
  BY DEF BotTypes, ShellsHaveHomes, Bots!Shells
<1>11. NewShells'
  BY DEF NewShells, HasNew
<1>12. NewShellsDiffer'
  BY DEF NewShellsDiffer, HasNew
<1>13. PanesHadShells'
  BY DEF PanesHadShells, Mentioned
<1>14. NewPanes'
  BY DEF NewPanes, NewPanesDiffer
<1>15. NewPanesDiffer'
  BY DEF NewPanesDiffer, NewPanes, NewShells, HasNew
<1>16. StartsAlone'
  BY DEF StartsAlone, Bots!Starting, Bots!Closing
<1>17. JobsKnow'
  BY DEF BotTypes, JobsKnow, JobKnows, StartsAlone, ShellsHaveHomes, Bots!Starting,
     Bots!Closing, Bots!Shells
<1>18. AgentJobs'
  BY DEF AgentJobs, Bots!Closing
<1>19. TabsHaveShells'
  BY DEF TabsHaveShells, BotTypes
<1>20. ShellsInPlace'
  <2>1. ASSUME NEW s \in running, NEW u \in Threads \ {t}, Bots!HeldBy(u, s)
        PROVE  Bots!HeldBy(u, s)'
    BY <2>1 DEF Bots!HeldBy
  <2>2. ASSUME NEW s \in running', s \in running, InPlace(s) PROVE InPlace(s)'
    BY <2>2 DEF BotTypes, ShellsInPlace, InPlace, JobsKnow, JobKnows, ShellsHaveHomes,
       Bots!HeldBy, Bots!Closing, Bots!Starting, Bots!Shells
  <2>3. ASSUME NEW s \in running', s \in running, Bots!HeldBy(t, s)
        PROVE  InPlace(s)' \/ Bots!HeldBy(t, s)'
    BY <2>3 DEF BotTypes, ShellsInPlace, InPlace, JobsKnow, JobKnows, ShellsHaveHomes,
       Bots!HeldBy, Bots!Closing, Bots!Starting, Bots!Shells
  <2>4. ASSUME NEW s \in running', s \notin running PROVE Bots!HeldBy(t, s)'
    BY <2>4 DEF Bots!HeldBy
  <2> QED BY <2>1, <2>2, <2>3, <2>4 DEF ShellsInPlace
<1>21. MarksMeanRestarts'
  BY DEF BotTypes, MarksMeanRestarts, StartsAlone, JobsKnow, JobKnows, Bots!Starting,
     Bots!Closing
<1>22. LaunchesAreShown'
  BY DEF BotTypes, LaunchesAreShown, Attends, JobsKnow, JobKnows, AgentJobs, StartsAlone,
     ShellsHaveHomes, Bots!Starting, Bots!Closing, Bots!Shells
<1> QED BY <1>8, <1>9, <1>10, <1>11, <1>12, <1>13, <1>14, <1>15, <1>16, <1>17, <1>18, <1>19,
    <1>20, <1>21, <1>22

LEMMA BotAgentExitedStep ==
  ASSUME BotInv, NEW s \in Bots!Shells, Bots!BotAgentExited(s)
  PROVE  BotInv'
<1> USE MaxShellsAssumption, NowhereAssumption DEF BotInv
<1>1. PICK r : r = [Bots!Idle EXCEPT !.op = "renew", !.step = "renew", !.todo = {home[s]}]
  OBVIOUS
<1>2. \/ job' = job /\ spec' = spec
      \/ /\ home[s] \in terminals /\ spec.launch[home[s]] = s /\ spec' = Bots!Forgotten(spec, home[s])
         /\ \/ job' = job
            \/ \E t \in Threads : job[t].step = "idle" /\ job' = [job EXCEPT ![t] = r]
  BY <1>1 DEF Bots!BotAgentExited, Bots!Is, Bots!Goes
<1>3. home[s] \in terminals => IsJob(r)
  BY <1>1, Spec0Lemma DEF BotTypes, IsJob, Bots!Idle, Bots!NoShell, Bots!NoEntry
<1>4. job' = [u \in Threads |-> job'[u]]
  BY <1>2 DEF JobTypes
<1>5. \A u \in Threads : \/ job'[u] = job[u]
                         \/ /\ job[u].step = "idle" /\ job'[u].step = "renew" /\ job'[u].op = "renew"
                            /\ job'[u].pane = Nowhere /\ job'[u].todo = {home[s]} /\ home[s] \in terminals
                            /\ IsJob(job'[u])
  <2>1. CASE job' = job
    BY <2>1
  <2>2. ASSUME NEW t \in Threads, job[t].step = "idle", job' = [job EXCEPT ![t] = r],
               home[s] \in terminals
        PROVE  \A u \in Threads : IF u = t THEN job'[u] = r ELSE job'[u] = job[u]
    BY <2>2 DEF JobTypes
  <2>3. r.step = "renew" /\ r.op = "renew" /\ r.pane = Nowhere /\ r.todo = {home[s]}
    BY <1>1 DEF Bots!Idle, Bots!NoShell, Bots!NoEntry
  <2> QED BY <1>2, <1>3, <2>1, <2>2, <2>3
<1>6. /\ IsSpec(spec')
      /\ \A q \in Panes : \/ spec'.launch[q] = spec.launch[q]
                          \/ q = home[s] /\ spec.launch[q] = s /\ spec'.launch[q] \notin Bots!Shells
  BY <1>2, ForgottenLemma DEF BotTypes
<1>7. s \in reports /\ reports' = reports \ {s}
  BY DEF Bots!BotAgentExited, Bots!Is, Bots!Begins
<1>8. UNCHANGED <<terminals, shell, mark, running, home, agent, nextShell, contested,
                  unkilled>>
  BY DEF Bots!BotAgentExited, Bots!shells
<1>9. \A u \in Threads : IsJob(job'[u])
  BY <1>5 DEF JobTypes
<1> USE <1>5, <1>6, <1>7, <1>8, <1>9
<1>10. BotTypes'
  BY DEF BotTypes, Bots!Shells
<1>11. JobTypes'
  BY <1>4 DEF JobTypes
<1>12. ShellsHaveHomes'
  BY DEF BotTypes, ShellsHaveHomes, Bots!Shells
<1>13. NewShells'
  BY DEF NewShells, HasNew
<1>14. NewShellsDiffer'
  BY DEF NewShellsDiffer, HasNew
<1>15. PanesHadShells'
  BY DEF PanesHadShells, Mentioned
<1>16. NewPanes'
  BY DEF NewPanes, NewPanesDiffer
<1>17. NewPanesDiffer'
  BY DEF NewPanesDiffer, NewPanes, NewShells, HasNew
<1>18. StartsAlone'
  BY DEF StartsAlone, Bots!Starting, Bots!Closing
<1>19. JobsKnow'
  BY DEF BotTypes, JobsKnow, JobKnows, StartsAlone, ShellsHaveHomes, Bots!Starting,
     Bots!Closing, Bots!Shells
<1>20. AgentJobs'
  BY DEF AgentJobs, Bots!Closing
<1>21. TabsHaveShells'
  BY DEF TabsHaveShells, BotTypes
<1>22. ShellsInPlace'
  BY DEF BotTypes, ShellsInPlace, InPlace, JobsKnow, JobKnows, ShellsHaveHomes, Bots!HeldBy,
     Bots!Closing, Bots!Starting, Bots!Shells
<1>23. MarksMeanRestarts'
  BY DEF BotTypes, MarksMeanRestarts, StartsAlone, JobsKnow, JobKnows, Bots!Starting,
     Bots!Closing
<1>24. LaunchesAreShown'
  BY DEF BotTypes, LaunchesAreShown, Attends, JobsKnow, JobKnows, AgentJobs, StartsAlone,
     ShellsHaveHomes, Bots!Starting, Bots!Closing, Bots!Shells
<1> QED BY <1>10, <1>11, <1>12, <1>13, <1>14, <1>15, <1>16, <1>17, <1>18, <1>19, <1>20, <1>21,
    <1>22, <1>23, <1>24

LEMMA BotStutter == ASSUME BotInv, UNCHANGED Bots!vars PROVE BotInv'
BY DEF BotInv, BotTypes, JobTypes, ShellsHaveHomes, NewShells, NewShellsDiffer,
   PanesHadShells,
   NewPanes, NewPanesDiffer, StartsAlone, JobsKnow, JobKnows, AgentJobs, TabsHaveShells,
   ShellsInPlace, MarksMeanRestarts, LaunchesAreShown, HasNew, Mentioned, InPlace, Attends,
   Bots!HeldBy, Bots!Starting, Bots!Closing, Bots!vars, Bots!shells

LEMMA BotInit == Bots!Init => BotInv
<1> SUFFICES ASSUME Bots!Init PROVE BotInv
  OBVIOUS
<1>1. PICK i : i = Bots!Idle
  OBVIOUS
<1>2. /\ i.op = "none" /\ i.step = "idle" /\ i.pane = Nowhere /\ i.todo = {} /\ IsJob(i)
  BY <1>1, Spec0Lemma DEF IsJob, Bots!Idle
<1>3. job = [t \in Threads |-> i]
  BY <1>1 DEF Bots!Init
<1>4. job = [t \in Threads |-> job[t]] /\ \A t \in Threads : job[t] = i
  BY <1>3
<1>5. BotTypes
  BY MaxShellsAssumption, Spec0Lemma DEF BotTypes, Bots!Init, Bots!NoShell, Bots!Shells
<1>6. JobTypes
  BY <1>2, <1>4 DEF JobTypes
<1>7. ShellsHaveHomes /\ TabsHaveShells /\ ShellsInPlace /\ LaunchesAreShown
  BY NowhereAssumption, MaxShellsAssumption
  DEF Bots!Init, Bots!Shells, Bots!NoShell, ShellsHaveHomes, TabsHaveShells, ShellsInPlace,
      LaunchesAreShown
<1>8. /\ NewShells /\ NewShellsDiffer /\ NewPanes /\ NewPanesDiffer
      /\ StartsAlone /\ AgentJobs
  BY <1>2, <1>4 DEF NewShells, NewShellsDiffer, HasNew, NewPanes, NewPanesDiffer, StartsAlone,
     AgentJobs, Bots!Starting
<1>9. JobsKnow /\ MarksMeanRestarts /\ PanesHadShells
  BY <1>2, <1>4, NowhereAssumption DEF Bots!Init, JobsKnow, JobKnows, MarksMeanRestarts,
     PanesHadShells, Mentioned, Bots!Starting, Bots!Closing
<1> QED BY <1>5, <1>6, <1>7, <1>8, <1>9 DEF BotInv

LEMMA BotStep == BotInv /\ [Bots!Next]_Bots!vars => BotInv'
<1> SUFFICES ASSUME BotInv, [Bots!Next]_Bots!vars PROVE BotInv'
  OBVIOUS
<1>1. ASSUME NEW t \in Threads, NEW p \in Panes, Bots!OpenSpawns(t, p) PROVE BotInv'
  BY <1>1, OpenSpawnsStep
<1>2. ASSUME NEW t \in Threads, NEW p \in Panes, Bots!ActivateBotPane(t, p) PROVE BotInv'
  BY <1>2, ActivateBotPaneStep
<1>3. ASSUME NEW t \in Threads, NEW p \in Panes, Bots!CloseForgets(t, p) PROVE BotInv'
  BY <1>3, CloseForgetsStep
<1>4. ASSUME NEW t \in Threads, NEW p \in Panes, Bots!CloseFindsNone(t, p) PROVE BotInv'
  BY <1>4, CloseFindsNoneStep
<1>5. ASSUME NEW t \in Threads, NEW p \in Panes, Bots!RestartBegins(t, p) PROVE BotInv'
  BY <1>5, RestartBeginsStep
<1>6. ASSUME NEW t \in Threads, NEW p \in Panes, Bots!RelaunchForgets(t, p) PROVE BotInv'
  BY <1>6, RelaunchForgetsStep
<1>7. ASSUME NEW t \in Threads, NEW p \in Panes, Bots!AgentBegins(t, p) PROVE BotInv'
  BY <1>7, AgentBeginsStep
<1>8. ASSUME NEW t \in Threads, NEW S \in SUBSET Panes, Bots!CloseBegins(t, S) PROVE BotInv'
  BY <1>8, CloseBeginsStep
<1>9. ASSUME NEW t \in Threads, Bots!OpenCommits(t) PROVE BotInv'
  BY <1>9, OpenCommitsStep
<1>10. ASSUME NEW t \in Threads, Bots!OpenRefused(t) PROVE BotInv'
  BY <1>10, OpenRefusedStep
<1>11. ASSUME NEW t \in Threads, Bots!Discards(t) PROVE BotInv'
  BY <1>11, DiscardsStep
<1>12. ASSUME NEW t \in Threads, Bots!StartsAgent(t) PROVE BotInv'
  BY <1>12, StartsAgentStep
<1>13. ASSUME NEW t \in Threads, Bots!Evicts(t) PROVE BotInv'
  BY <1>13, EvictsStep
<1>14. ASSUME NEW t \in Threads, Bots!CloseKills(t) PROVE BotInv'
  BY <1>14, CloseKillsStep
<1>15. ASSUME NEW t \in Threads, Bots!CloseKillFails(t) PROVE BotInv'
  BY <1>15, CloseKillFailsStep
<1>16. ASSUME NEW t \in Threads, Bots!CloseRemoves(t) PROVE BotInv'
  BY <1>16, CloseRemovesStep
<1>17. ASSUME NEW t \in Threads, Bots!CloseIsLate(t) PROVE BotInv'
  BY <1>17, CloseIsLateStep
<1>18. ASSUME NEW t \in Threads, Bots!RelaunchMarks(t) PROVE BotInv'
  BY <1>18, RelaunchMarksStep, RelaunchMarksNoneStep
<1>19. ASSUME NEW t \in Threads, Bots!RelaunchKills(t) PROVE BotInv'
  BY <1>19, RelaunchKillsStep
<1>20. ASSUME NEW t \in Threads, Bots!RelaunchSpawns(t) PROVE BotInv'
  BY <1>20, RelaunchSpawnsStep
<1>21. ASSUME NEW t \in Threads, Bots!RelaunchFails(t) PROVE BotInv'
  BY <1>21, RelaunchFailsStep
<1>22. ASSUME NEW t \in Threads, Bots!RelaunchInstalls(t) PROVE BotInv'
  BY <1>22, RelaunchInstallsStep
<1>23. ASSUME NEW t \in Threads, Bots!RelaunchRefused(t) PROVE BotInv'
  BY <1>23, RelaunchRefusedStep
<1>24. ASSUME NEW t \in Threads, Bots!HomeBegins(t) PROVE BotInv'
  BY <1>24, HomeBeginsStep
<1>25. ASSUME NEW t \in Threads, Bots!AgentRereads(t) PROVE BotInv'
  BY <1>25, AgentRereadsStep, AgentRereadsNoneStep
<1>26. ASSUME NEW t \in Threads, Bots!WritesSpec(t) PROVE BotInv'
  BY <1>26, WritesSpecStep
<1>27. ASSUME NEW t \in Threads, Bots!WritesSpecFails(t) PROVE BotInv'
  BY <1>27, WritesSpecFailsStep
<1>28. ASSUME NEW t \in Threads, Bots!RenewBegins(t) PROVE BotInv'
  BY <1>28, RenewBeginsStep
<1>29. ASSUME NEW p \in Panes, Bots!ReportBotSession(p) PROVE BotInv'
  BY <1>29, ReportBotSessionStep
<1>30. ASSUME NEW s \in Bots!Shells, Bots!AgentExits(s) PROVE BotInv'
  BY <1>30, AgentExitsStep
<1>31. ASSUME NEW s \in Bots!Shells, Bots!BotAgentExited(s) PROVE BotInv'
  BY <1>31, BotAgentExitedStep
<1>32. CASE UNCHANGED Bots!vars
  BY <1>32, BotStutter
<1> QED
  BY <1>1, <1>2, <1>3, <1>4, <1>5, <1>6, <1>7, <1>8, <1>9, <1>10, <1>11, <1>12, <1>13,
     <1>14, <1>15, <1>16, <1>17, <1>18, <1>19, <1>20, <1>21, <1>22, <1>23, <1>24, <1>25,
     <1>26, <1>27, <1>28, <1>29, <1>30, <1>31, <1>32
  DEF Bots!Next

\* The variables of BotThreads take its steps or keep their values.
LEMMA FollowsBots == MCSpec => Bots!Spec
<1>1. MCInit => Bots!Init
  BY DEF MCInit
<1>2. ASSUME MCNext PROVE Bots!Next \/ UNCHANGED Bots!vars
  <2> USE DEF botVars, Bots!vars, Bots!shells
  <2>1. CASE InstallNext
    BY <2>1 DEF InstallNext, OnInstall
  <2>2. CASE PageNext
    BY <2>2 DEF PageNext, OnPage
  <2>3. CASE CommandsNext
    BY <2>3 DEF CommandsNext, OnCommands
  <2>4. CASE RemoteNext
    BY <2>4 DEF RemoteNext, OnRemote
  <2>5. CASE BotsNext
    <3>1. PanesOfPart \subseteq Panes
      BY DEF PanesOfPart
    <3> QED BY <2>5, <3>1 DEF BotsNext, OnBots, Bots!Next
  <2>6. CASE PasteNext
    BY <2>6 DEF PasteNext, OnPaste
  <2> QED BY <1>2, <2>1, <2>2, <2>3, <2>4, <2>5, <2>6 DEF MCNext
<1>3. UNCHANGED allVars => UNCHANGED Bots!vars
  BY DEF allVars, botVars, Bots!vars, Bots!shells
<1> QED BY <1>1, <1>2, <1>3, PTL DEF MCSpec, Bots!Spec

\* add_bot_thread_tab, close_pane, relaunch_bot: no shell runs that no pane shows, but for
\* one that a restart left behind together with another job, or that could not be ended.
THEOREM ShellsAreShownHolds == MCSpec => []ShellsAreShown
<1>1. BotInv => ShellsAreShown
  BY DEF BotInv, TabsHaveShells, ShellsInPlace, InPlace, ShellsAreShown, Bots!ShellsAreShown,
     Bots!NoShell
<1> QED BY <1>1, BotInit, BotStep, FollowsBots, PTL DEF Bots!Spec

\* relaunch_bot, bot_agent_exited: a pane says "restarting" exactly while it is restarted,
\* and remembers the launch of the agent it shows and of no other.
THEOREM PanesKnowTheirAgentsHolds == MCSpec => []PanesKnowTheirAgents
<1>1. BotInv => PanesKnowTheirAgents
  <2> SUFFICES ASSUME BotInv, NEW p \in terminals \ contested
               PROVE  Bots!MarkMeansRestart(p) /\ Bots!LaunchIsShown(p)
    BY DEF PanesKnowTheirAgents, Bots!PanesKnowTheirAgents
  <2>1. Bots!MarkMeansRestart(p)
    BY DEF BotInv, MarksMeanRestarts, Bots!MarkMeansRestart
  <2>2. Bots!LaunchIsShown(p)
    BY DEF BotInv, LaunchesAreShown, Attends, Bots!LaunchIsShown
  <2> QED BY <2>1, <2>2
<1> QED BY <1>1, BotInit, BotStep, FollowsBots, PTL DEF Bots!Spec

-----------------------------------------------------------------------------
(***************************************************************************)
(* RemoteTerminals, for any panes, requests, windows and connections.      *)
(* Closing windows never does harm, so the invariant speaks of the windows *)
(* that run; and it says little of panes that two requests worked on.      *)
(***************************************************************************)
RemoteSession == [window : 0 .. MaxWindows, client : Nat, cut : BOOLEAN]
Windows == 1 .. MaxWindows
Adding == {"create", "reconnectEmpty"}
Closing == {"closeTab", "closePane"}

Busy(q) == request[q] # Remote!Idle
Uses(q, p) == Busy(q) /\ p \in request[q].panes
Adds(q) == request[q].op \in Adding
\* Window w was opened by request q for pane p, and is all the request looks at.
Opened(q) == request[q].at \in {"tagging", "sizing"}
OpenedFor(q, p) == request[q].made[p] # None /\ request[q].made[p].window = request[q].window

IsRequest(r) ==
  /\ r = [at |-> r.at, op |-> r.op, panes |-> r.panes, todo |-> r.todo, client |-> r.client,
          keep |-> r.keep, found |-> r.found, due |-> r.due, window |-> r.window,
          made |-> r.made]
  /\ r.at # "idle" /\ r.panes \subseteq Panes /\ r.todo \subseteq r.panes /\ r.client \in Nat
  /\ r.found \in [DOMAIN r.found -> Panes \cup {None}] /\ r.window \in 0 .. MaxWindows
  /\ r.made \in [r.panes -> RemoteSession \cup {None}]

\* What a request has at its steps, whatever the others do.
Suits(r) ==
  /\ r.op \in Closing <=> r.at \in {"terminating", "removing"}
  /\ r.op = "closeTab" => r.at = "terminating"
  /\ r.at = "closing" => r.op = "disconnect"
  /\ r.op \in Adding \cup Closing => \A p, s \in r.panes : p = s
  /\ r.at \in {"tagging", "sizing", "removing"} \/ r.window = 0
  /\ r.at \in {"tagging", "sizing"} => r.window # 0
  /\ r.at \notin {"terminating", "removing"} => \A p \in r.todo : r.made[p] = None
  /\ r.at \in {"connecting", "inserting", "sweeping", "killing", "listing"} => r.todo = r.panes

RemoteTypes ==
  /\ tabs \subseteq Panes /\ panes \in [Panes -> RemoteSession \cup {None}]
  /\ tag \in [Remote!live -> Panes \cup {None}] /\ Remote!live \subseteq Windows
  /\ client \in Nat /\ both \subseteq Panes

RequestTypes ==
  /\ request = [q \in Requests |-> request[q]]
  /\ \A q \in Requests : Busy(q) => IsRequest(request[q])
RequestsSuit == \A q \in Requests : Busy(q) => Suits(request[q])

\* Who works on a pane with somebody else shares it.
UsesAlone == \A q \in Requests, o \in Requests, p \in Panes :
  q # o /\ Uses(q, p) /\ Uses(o, p) => p \in both
\* A request that adds a tab has a new pane; any other one has a pane of a tab.
PanesOfRequests == \A q \in Requests, p \in Panes : Uses(q, p) =>
  /\ Adds(q) => p \notin tabs /\ p \notin both
  /\ request[q].op = "closeTab" => p \notin tabs
  /\ p \in both \cup tabs \/ Adds(q) \/ request[q].op = "closeTab"
NewWindowsDiffer == \A q \in Requests, o \in Requests :
  q # o /\ Opened(q) /\ Opened(o) => request[q].window # request[o].window

\* A window without a tag is being tagged, or is left.
UntaggedWindows == \A w \in Remote!live \ left : tag[w] = None =>
  \E q \in Requests : Busy(q) /\ request[q].at = "tagging" /\ request[q].window = w
\* A window with a tag is a tab's, or of a tab that is being added or closed.
TaggedWindows == \A w \in Remote!live \ left : tag[w] \in Panes \ both =>
  \/ tag[w] \in tabs
  \/ \E q \in Requests : Uses(q, tag[w]) /\ (Adds(q) \/ request[q].op = "closeTab")
\* What is left belongs to no tab and to no request.
LeftWindows == \A w \in left \cap Remote!live :
  tag[w] \in both \/ (tag[w] \notin tabs /\ \A q \in Requests : ~Uses(q, tag[w]))
\* A pane has one window, and it is the one its session is attached to.
OneWindow == \A p \in Panes \ both : (p \in tabs \/ \E q \in Requests : Uses(q, p)) =>
  \A w, x \in Remote!live : tag[w] = p /\ tag[x] = p => w = x
ShownWindows == \A p \in Panes : panes[p] # None /\ panes[p].window \in Remote!live =>
  tag[panes[p].window] = p

\* A tab that is being added has no window before its session starts.
NothingYet(q) == Adds(q) => \A p \in request[q].todo, w \in Remote!live : tag[w] # p
\* The sessions made are attached to the windows of their panes.
MadeWindows(q) == \A p \in request[q].panes :
  request[q].made[p] # None /\ request[q].made[p].window \in Remote!live =>
    \/ tag[request[q].made[p].window] = p
    \/ request[q].at = "tagging" /\ request[q].window = request[q].made[p].window
\* The new window is one session's, whose pane has no other.
NewWindow(q) == Opened(q) =>
  /\ \E p \in request[q].panes : OpenedFor(q, p)
  /\ \A p, s \in request[q].panes : OpenedFor(q, p) /\ OpenedFor(q, s) => p = s
  /\ \A p \in request[q].panes \ both, w \in Remote!live :
       OpenedFor(q, p) /\ tag[w] = p => w = request[q].window
\* Before the new window has its tag nothing else refers to it.
WindowToTag(q) == request[q].at = "tagging" =>
  /\ request[q].window \in Remote!live => tag[request[q].window] = None
  /\ request[q].window \notin left
  /\ \A o \in Requests : Busy(o) => request[q].window \notin request[o].due
\* The windows that the request found for its panes.
FoundWindows(q) == request[q].at \in {"starting", "tagging", "sizing"} =>
  /\ \A w \in DOMAIN request[q].found :
       request[q].found[w] \in Panes /\ (w \in Remote!live => tag[w] = request[q].found[w])
  /\ \A p \in request[q].todo \ both, w \in Remote!live :
       tag[w] = p => w \in DOMAIN request[q].found
\* A sweep finds what is due.
DueWindows(q) == \A w \in request[q].due \cap Remote!live :
  /\ request[q].at = "sweeping" => tag[w] \notin request[q].keep \/ tag[w] \in both
  /\ request[q].at = "killing" => w \in DOMAIN request[q].found \/ tag[w] \in both
\* A pane closed with its window has none.
NoWindow(q) == request[q].at = "removing" /\ request[q].window # 0 =>
  \A p \in request[q].panes \ both, w \in Remote!live : tag[w] # p

Windowed(q) ==
  /\ NothingYet(q) /\ MadeWindows(q) /\ NewWindow(q) /\ WindowToTag(q) /\ FoundWindows(q)
  /\ DueWindows(q) /\ NoWindow(q)
RequestsFit == \A q \in Requests : Busy(q) => Windowed(q)

RemoteInv ==
  /\ RemoteTypes /\ RequestTypes /\ RequestsSuit /\ UsesAlone /\ PanesOfRequests
  /\ NewWindowsDiffer /\ UntaggedWindows /\ TaggedWindows /\ LeftWindows /\ OneWindow
  /\ ShownWindows /\ RequestsFit

\* Steps that open no window.
WindowsClose ==
  /\ Remote!live' \subseteq Remote!live /\ tag' \in [Remote!live' -> Panes \cup {None}]
  /\ \A w \in Remote!live' : tag'[w] = tag[w]
OthersRest(q) == \A u \in Requests \ {q} : request'[u] = request[u]
\* A pane that is new is not one that two requests worked on.
SharedGrows == \A p \in both \ both' :
  (\A w \in Remote!live : tag[w] # p) /\ \A u \in Requests : ~Uses(u, p)

LEMMA ClosingWindows ==
  ASSUME RemoteTypes, NEW W, Remote!Close(W)
  PROVE  WindowsClose /\ Remote!live' = Remote!live \ W
<1>1. Remote!live' = Remote!live \ W
  BY DEF Remote!Close, Remote!Listed, Remote!live
<1>2. tag' = [w \in Remote!live \ W |-> tag[w]]
  BY DEF Remote!Close, Remote!Listed
<1> QED BY <1>1, <1>2 DEF WindowsClose, RemoteTypes

LEMMA SameWindows == ASSUME RemoteTypes, UNCHANGED tag
                     PROVE  WindowsClose /\ Remote!live' = Remote!live
<1>1. Remote!live' = Remote!live
  BY DEF Remote!live
<1> QED BY <1>1 DEF WindowsClose, RemoteTypes

\* What happens to one request and what closes windows leaves the other requests as they are.
LEMMA OthersStayFit ==
  ASSUME RemoteInv, NEW q, OthersRest(q), WindowsClose, SharedGrows,
         \A u \in Requests \ {q} : Busy(u) /\ request[u].at = "tagging" =>
           /\ request[u].window \notin left'
           /\ q \in Requests /\ Busy(q)' => request[u].window \notin request'[q].due
  PROVE  \A u \in Requests \ {q} : Busy(u)' => Windowed(u)'
<1> SUFFICES ASSUME NEW u \in Requests \ {q}, Busy(u) PROVE Windowed(u)'
  BY DEF OthersRest, Busy
<1>1. request'[u] = request[u] /\ Windowed(u) /\ IsRequest(request[u])
  BY DEF OthersRest, RemoteInv, RequestsFit, RequestTypes
<1>2. \A p \in request[u].panes : p \in Panes /\ (p \notin both' => p \notin both)
  BY <1>1 DEF IsRequest, SharedGrows, Uses
<1>3. \A w \in Remote!live' : w \in Remote!live /\ tag'[w] = tag[w]
  BY DEF WindowsClose
<1> USE <1>1, <1>2, <1>3
<1>4. NothingYet(u)'
  BY DEF Windowed, NothingYet, Adds
<1>5. MadeWindows(u)'
  BY DEF Windowed, MadeWindows
<1>6. NewWindow(u)'
  BY DEF Windowed, NewWindow, Opened, OpenedFor
<1>7. WindowToTag(u)'
  BY DEF Windowed, WindowToTag, OthersRest, Busy
<1>8. FoundWindows(u)'
  BY DEF Windowed, FoundWindows, IsRequest
<1>9. DueWindows(u)'
  BY DEF Windowed, DueWindows, SharedGrows
<1>10. NoWindow(u)'
  BY DEF Windowed, NoWindow
<1> QED BY <1>4, <1>5, <1>6, <1>7, <1>8, <1>9, <1>10 DEF Windowed

LEMMA FreeWindowsAreFree ==
  ASSUME RemoteTypes, RequestTypes, NEW w \in Remote!FreeWindows
  PROVE  /\ w \in Windows /\ w \notin Remote!live
         /\ \A p \in Panes : panes[p] # None => panes[p].window # w
         /\ \A u \in Requests : Busy(u) =>
              /\ w \notin DOMAIN request[u].found /\ w \notin request[u].due
              /\ \A p \in request[u].panes : request[u].made[p] # None =>
                   request[u].made[p].window # w
<1>1. w \in Windows /\ w \notin Remote!live
  BY DEF Remote!FreeWindows, Windows
<1>2. ASSUME NEW p \in Panes, panes[p] # None PROVE panes[p].window # w
  <2>1. panes[p] \in Remote!Sessions
    BY <1>2 DEF Remote!Sessions
  <2> QED BY <2>1 DEF Remote!FreeWindows
<1>3. ASSUME NEW u \in Requests, Busy(u)
      PROVE  w \notin DOMAIN request[u].found /\ w \notin request[u].due
  <2>1. u \in Remote!Active
    BY <1>3 DEF Remote!Active, Busy
  <2> QED BY <2>1 DEF Remote!FreeWindows
<1>4. ASSUME NEW u \in Requests, Busy(u), NEW p \in request[u].panes,
             request[u].made[p] # None
      PROVE  request[u].made[p].window # w
  <2>1. u \in Remote!Active
    BY <1>4 DEF Remote!Active, Busy
  <2>2. request[u].made[p] \in Remote!Sessions
    BY <1>4, <2>1 DEF Remote!Sessions
  <2> QED BY <2>2 DEF Remote!FreeWindows
<1> QED BY <1>1, <1>2, <1>3, <1>4

\* A request that goes on, neither opens nor tags a window and has its panes and operation
\* still: what remains to be shown is about the request alone.
LEMMA GoesOn ==
  ASSUME RemoteInv, NEW q \in Requests, Busy(q), request[q].at # "tagging",
         OthersRest(q), request' = [u \in Requests |-> request'[u]],
         UNCHANGED <<tabs, panes, both>>, client' \in Nat, WindowsClose,
         IsRequest(request'[q]), Suits(request'[q]), ~Opened(q)',
         request'[q].panes = request[q].panes,
         request'[q].op = request[q].op
           \/ (request[q].op = "signedIn" /\ request'[q].op = "install"),
         left' \subseteq left,
         \A w \in left \ left' : w \in Remote!live' => tag[w] \in both,
         request'[q].due \subseteq request[q].due \cup left,
         NothingYet(q)', MadeWindows(q)', FoundWindows(q)', DueWindows(q)', NoWindow(q)'
  PROVE  RemoteInv'
<1> USE DEF RemoteInv
<1>1. Busy(q)' /\ request'[q].at # "tagging" /\ (Adds(q)' <=> Adds(q))
      /\ (request'[q].op = "closeTab" <=> request[q].op = "closeTab")
  BY DEF IsRequest, Busy, Remote!Idle, Opened, Adds, Adding
<1>2. \A u \in Requests : (Busy(u)' <=> Busy(u)) /\ request'[u].panes = request[u].panes
  BY <1>1 DEF OthersRest, Busy
<1>3. \A u \in Requests : \A p : Uses(u, p)' <=> Uses(u, p)
  BY <1>2 DEF Uses
<1>4. \A w \in Remote!live' : w \in Remote!live /\ tag'[w] = tag[w]
  BY DEF WindowsClose
<1> USE <1>1, <1>2, <1>3, <1>4
<1>5. RemoteTypes'
  BY DEF RemoteTypes, WindowsClose
<1>6. RequestTypes'
  BY DEF RequestTypes, OthersRest
<1>7. RequestsSuit'
  BY DEF RequestsSuit, OthersRest
<1>8. UsesAlone'
  BY DEF UsesAlone
<1>9. PanesOfRequests'
  BY DEF PanesOfRequests, OthersRest, Adds
<1>10. NewWindowsDiffer'
  BY DEF NewWindowsDiffer, OthersRest, Opened
<1>11. UntaggedWindows'
  BY NoSessionAssumption DEF UntaggedWindows, OthersRest, Busy, RemoteTypes
<1>12. TaggedWindows'
  BY DEF TaggedWindows, OthersRest, Adds
<1>13. LeftWindows'
  BY DEF LeftWindows
<1>14. OneWindow'
  BY DEF OneWindow
<1>15. ShownWindows'
  BY DEF ShownWindows
<1>16. RequestsFit'
  <2>1. SharedGrows
    BY DEF SharedGrows
  <2>2. \A u \in Requests \ {q} : Busy(u) /\ request[u].at = "tagging" =>
          request[u].window \notin left' /\ request[u].window \notin request'[q].due
    BY DEF RequestsFit, Windowed, WindowToTag
  <2>3. \A u \in Requests \ {q} : Busy(u)' => Windowed(u)'
    BY <2>1, <2>2, OthersStayFit
  <2>4. Windowed(q)'
    BY DEF Windowed, NewWindow, WindowToTag
  <2> QED BY <2>3, <2>4 DEF RequestsFit
<1> QED BY <1>5, <1>6, <1>7, <1>8, <1>9, <1>10, <1>11, <1>12, <1>13, <1>14, <1>15, <1>16

LEMMA Becoming ==
  ASSUME RequestTypes, NEW q \in Requests, NEW r, Remote!Becomes(q, r)
  PROVE  request'[q] = r /\ OthersRest(q) /\ request' = [u \in Requests |-> request'[u]]
BY DEF RequestTypes, Remote!Becomes, OthersRest

LEMMA BusyRequest ==
  ASSUME RemoteInv, NEW q \in Requests, request[q].at # "idle"
  PROVE  Busy(q) /\ IsRequest(request[q]) /\ Suits(request[q]) /\ Windowed(q)
<1>1. Busy(q)
  BY DEF Busy, Remote!Idle
<1> QED BY <1>1 DEF RemoteInv, RequestTypes, RequestsSuit, RequestsFit

\* finish_sign_in asks for a client twice.
LEMMA WithClientIs ==
  ASSUME NEW r, IsRequest(r), Suits(r), NEW n, n = Remote!WithClient(r),
         r.at \in {"connecting", "inserting", "sweeping", "killing"}
  PROVE  /\ IsRequest(n) /\ Suits(n) /\ n.at \in {"connecting", "listing"}
         /\ n.op = r.op \/ (r.op = "signedIn" /\ n.op = "install")
         /\ n.panes = r.panes /\ n.todo = r.todo /\ n.made = r.made /\ n.found = r.found
         /\ n.client = r.client /\ n.due = r.due /\ n.keep = r.keep /\ n.window = r.window
<1>1. PICK op, step :
        /\ n = [r EXCEPT !.op = op, !.at = step] /\ step \in {"connecting", "listing"}
        /\ op = r.op \/ (r.op = "signedIn" /\ op = "install")
  <2>1. CASE r.op = "signedIn"
    <3>1. n = [r EXCEPT !.op = "install", !.at = "connecting"]
      BY <2>1 DEF Remote!WithClient
    <3> QED BY <2>1, <3>1
  <2>2. CASE r.op # "signedIn"
    <3>1. n = [r EXCEPT !.op = r.op, !.at = "listing"]
      BY <2>2 DEF Remote!WithClient, IsRequest
    <3> QED BY <2>2, <3>1
  <2> QED BY <2>1, <2>2
<1>2. /\ n.at = step /\ n.op = op
      /\ n.panes = r.panes /\ n.todo = r.todo /\ n.made = r.made /\ n.found = r.found
      /\ n.client = r.client /\ n.due = r.due /\ n.keep = r.keep /\ n.window = r.window
      /\ n = [at |-> n.at, op |-> n.op, panes |-> n.panes, todo |-> n.todo,
              client |-> n.client, keep |-> n.keep, found |-> n.found, due |-> n.due,
              window |-> n.window, made |-> n.made]
  BY <1>1 DEF IsRequest
<1>3. IsRequest(n)
  BY <1>1, <1>2 DEF IsRequest
<1>4. Suits(n)
  BY <1>1, <1>2 DEF Suits, Closing, Adding
<1> QED BY <1>1, <1>2, <1>3, <1>4

LEMMA UsesClientStep ==
  ASSUME RemoteInv, NEW q \in Requests, Remote!UsesClient(q)
  PROVE  RemoteInv'
<1>1. request[q].at = "connecting"
  BY DEF Remote!UsesClient, Remote!At
<1>2. Busy(q) /\ IsRequest(request[q]) /\ Suits(request[q]) /\ Windowed(q)
  BY <1>1, BusyRequest
<1>3. RemoteTypes /\ RequestTypes
  BY DEF RemoteInv
<1>4. PICK n : n = Remote!WithClient(request[q])
  OBVIOUS
<1>5. /\ IsRequest(n) /\ Suits(n) /\ n.at \in {"connecting", "listing"}
      /\ n.op = request[q].op \/ (request[q].op = "signedIn" /\ n.op = "install")
      /\ n.panes = request[q].panes /\ n.todo = request[q].todo /\ n.made = request[q].made
      /\ n.found = request[q].found /\ n.client = request[q].client /\ n.due = request[q].due
      /\ n.keep = request[q].keep /\ n.window = request[q].window
  BY <1>1, <1>2, <1>4, WithClientIs
<1> USE <1>1, <1>2, <1>4, <1>5
<1>6. PICK r : r = [n EXCEPT !.client = client] /\ Remote!Becomes(q, r)
  BY <1>4 DEF Remote!UsesClient
<1>7. request'[q] = r /\ OthersRest(q) /\ request' = [u \in Requests |-> request'[u]]
  BY <1>3, <1>6, Becoming
<1>8. /\ r.client = client /\ r.at = n.at /\ r.op = n.op /\ r.panes = n.panes
      /\ r.todo = n.todo /\ r.keep = n.keep /\ r.found = n.found /\ r.due = n.due
      /\ r.window = n.window /\ r.made = n.made
      /\ r = [at |-> r.at, op |-> r.op, panes |-> r.panes, todo |-> r.todo,
              client |-> r.client, keep |-> r.keep, found |-> r.found, due |-> r.due,
              window |-> r.window, made |-> r.made]
  BY <1>6 DEF IsRequest
<1>9. UNCHANGED <<tabs, panes, both, client, left>>
  BY DEF Remote!UsesClient, Remote!registry, Remote!connections, Remote!history
<1>10. WindowsClose /\ Remote!live' = Remote!live
  BY <1>3, SameWindows DEF Remote!UsesClient
<1>11. IsRequest(r)
  BY <1>8, <1>3, MaxWindowsAssumption DEF IsRequest, RemoteTypes
<1>12. Suits(r)
  BY <1>8 DEF Suits, Closing, Adding
<1>13. ~Opened(q)'
  BY <1>7, <1>8 DEF Opened
<1> USE <1>7, <1>8, <1>9, <1>10 DEF WindowsClose
<1>14. NothingYet(q)' /\ MadeWindows(q)' /\ NoWindow(q)'
  BY DEF Windowed, NothingYet, MadeWindows, NoWindow, Adds, Adding, Suits, IsRequest
<1>15. FoundWindows(q)'
  BY DEF Windowed, FoundWindows
<1>16. DueWindows(q)'
  BY DEF Windowed, DueWindows
<1>17. /\ client' \in Nat /\ left' \subseteq left
       /\ \A v \in left \ left' : v \in Remote!live' => tag[v] \in both
       /\ request'[q].due \subseteq request[q].due \cup left
  BY <1>3 DEF RemoteTypes
<1> QED BY <1>11, <1>12, <1>13, <1>14, <1>15, <1>16, <1>17, GoesOn

LEMMA ConnectsStep ==
  ASSUME RemoteInv, NEW q \in Requests, Remote!Connects(q)
  PROVE  RemoteInv'
<1>1. request[q].at = "connecting"
  BY DEF Remote!Connects, Remote!At
<1>2. Busy(q) /\ IsRequest(request[q]) /\ Suits(request[q]) /\ Windowed(q)
  BY <1>1, BusyRequest
<1>3. RemoteTypes /\ RequestTypes
  BY DEF RemoteInv
<1>4. PICK c \in Remote!FreeClients :
        Remote!Becomes(q, [request[q] EXCEPT !.at = "inserting", !.client = c])
  BY DEF Remote!Connects, Remote!Least
<1>5. c \in Nat
  BY MaxWindowsAssumption DEF Remote!FreeClients
<1> USE <1>1, <1>2, <1>4, <1>5
<1>6. PICK r : r = [request[q] EXCEPT !.at = "inserting", !.client = c] /\ Remote!Becomes(q, r)
  BY <1>4
<1>7. request'[q] = r /\ OthersRest(q) /\ request' = [u \in Requests |-> request'[u]]
  BY <1>3, <1>6, Becoming
<1>8. /\ r.at = "inserting" /\ r.client = c /\ r.op = request[q].op
      /\ r.panes = request[q].panes /\ r.todo = request[q].todo /\ r.keep = request[q].keep
      /\ r.found = request[q].found /\ r.due = request[q].due
      /\ r.window = request[q].window /\ r.made = request[q].made
      /\ r = [at |-> r.at, op |-> r.op, panes |-> r.panes, todo |-> r.todo,
              client |-> r.client, keep |-> r.keep, found |-> r.found, due |-> r.due,
              window |-> r.window, made |-> r.made]
  BY <1>6 DEF IsRequest
<1>9. UNCHANGED <<tabs, panes, both, client, left>>
  BY DEF Remote!Connects, Remote!registry, Remote!connections, Remote!history
<1>10. WindowsClose /\ Remote!live' = Remote!live
  BY <1>3, SameWindows DEF Remote!Connects
<1>11. IsRequest(r)
  BY <1>8, <1>3, MaxWindowsAssumption DEF IsRequest, RemoteTypes
<1>12. Suits(r)
  BY <1>8 DEF Suits, Closing, Adding
<1>13. ~Opened(q)'
  BY <1>7, <1>8 DEF Opened
<1> USE <1>7, <1>8, <1>9, <1>10 DEF WindowsClose
<1>14. NothingYet(q)' /\ MadeWindows(q)' /\ NoWindow(q)'
  BY DEF Windowed, NothingYet, MadeWindows, NoWindow, Adds, Adding, Suits, IsRequest
<1>15. FoundWindows(q)'
  BY DEF Windowed, FoundWindows
<1>16. DueWindows(q)'
  BY DEF Windowed, DueWindows
<1>17. /\ client' \in Nat /\ left' \subseteq left
       /\ \A v \in left \ left' : v \in Remote!live' => tag[v] \in both
       /\ request'[q].due \subseteq request[q].due \cup left
  BY <1>3 DEF RemoteTypes
<1> QED BY <1>11, <1>12, <1>13, <1>14, <1>15, <1>16, <1>17, GoesOn

LEMMA InsertsClientStep ==
  ASSUME RemoteInv, NEW q \in Requests, Remote!InsertsClient(q)
  PROVE  RemoteInv'
<1>1. request[q].at = "inserting"
  BY DEF Remote!InsertsClient, Remote!At
<1>2. Busy(q) /\ IsRequest(request[q]) /\ Suits(request[q]) /\ Windowed(q)
  BY <1>1, BusyRequest
<1>3. RemoteTypes /\ RequestTypes
  BY DEF RemoteInv
<1> USE <1>1, <1>2
<1>4. PICK r : /\ r = [request[q] EXCEPT !.at = "sweeping", !.keep = tabs, !.due = left]
               /\ Remote!Becomes(q, r)
  BY DEF Remote!InsertsClient
<1>5. request'[q] = r /\ OthersRest(q) /\ request' = [u \in Requests |-> request'[u]]
  BY <1>3, <1>4, Becoming
<1>6. /\ r.at = "sweeping" /\ r.keep = tabs /\ r.due = left /\ r.op = request[q].op
      /\ r.panes = request[q].panes /\ r.todo = request[q].todo
      /\ r.client = request[q].client /\ r.found = request[q].found
      /\ r.window = request[q].window /\ r.made = request[q].made
      /\ r = [at |-> r.at, op |-> r.op, panes |-> r.panes, todo |-> r.todo,
              client |-> r.client, keep |-> r.keep, found |-> r.found, due |-> r.due,
              window |-> r.window, made |-> r.made]
  BY <1>4 DEF IsRequest
<1>7. UNCHANGED <<tabs, panes, both, left>> /\ client' = request[q].client
  BY DEF Remote!InsertsClient, Remote!registry, Remote!connections, Remote!history
<1>8. WindowsClose /\ Remote!live' = Remote!live
  BY <1>3, SameWindows DEF Remote!InsertsClient
<1>9. IsRequest(r)
  BY <1>6, <1>3, MaxWindowsAssumption DEF IsRequest, RemoteTypes
<1>10. Suits(r)
  BY <1>6 DEF Suits, Closing, Adding
<1>11. ~Opened(q)'
  BY <1>5, <1>6 DEF Opened
<1> USE <1>5, <1>6, <1>7, <1>8 DEF WindowsClose
<1>12. NothingYet(q)' /\ MadeWindows(q)' /\ NoWindow(q)'
  BY DEF Windowed, NothingYet, MadeWindows, NoWindow, Adds, Adding, Suits, IsRequest
<1>13. FoundWindows(q)'
  BY DEF Windowed, FoundWindows
<1>14. DueWindows(q)'
  BY DEF RemoteInv, LeftWindows, DueWindows
<1>15. /\ client' \in Nat /\ left' \subseteq left
       /\ \A v \in left \ left' : v \in Remote!live' => tag[v] \in both
       /\ request'[q].due \subseteq request[q].due \cup left
  BY DEF IsRequest
<1> QED BY <1>9, <1>10, <1>11, <1>12, <1>13, <1>14, <1>15, GoesOn

LEMMA ListsStep ==
  ASSUME RemoteInv, NEW q \in Requests, Remote!Lists(q)
  PROVE  RemoteInv'
<1>1. request[q].at = "listing"
  BY DEF Remote!Lists, Remote!At
<1>2. Busy(q) /\ IsRequest(request[q]) /\ Suits(request[q]) /\ Windowed(q)
  BY <1>1, BusyRequest
<1>3. RemoteTypes /\ RequestTypes
  BY DEF RemoteInv
<1>4. PICK f : f = Remote!Listed(Remote!Tagged(request[q].panes))
  OBVIOUS
<1>5. /\ DOMAIN f = {w \in Remote!live : tag[w] \in request[q].panes}
      /\ \A w \in DOMAIN f : f[w] = tag[w]
      /\ f \in [DOMAIN f -> Panes \cup {None}]
  BY <1>3, <1>4 DEF Remote!Listed, Remote!Tagged, RemoteTypes
<1> USE <1>1, <1>2, <1>4, <1>5
<1>6. PICK r : /\ r = [request[q] EXCEPT !.at = "starting", !.found = f]
               /\ Remote!Becomes(q, r)
  BY <1>4 DEF Remote!Lists
<1>7. request'[q] = r /\ OthersRest(q) /\ request' = [u \in Requests |-> request'[u]]
  BY <1>3, <1>6, Becoming
<1>8. /\ r.at = "starting" /\ r.found = f /\ r.op = request[q].op /\ r.panes = request[q].panes
      /\ r.todo = request[q].todo /\ r.client = request[q].client
      /\ r.keep = request[q].keep /\ r.due = request[q].due /\ r.window = request[q].window
      /\ r.made = request[q].made
      /\ r = [at |-> r.at, op |-> r.op, panes |-> r.panes, todo |-> r.todo,
              client |-> r.client, keep |-> r.keep, found |-> r.found, due |-> r.due,
              window |-> r.window, made |-> r.made]
  BY <1>6 DEF IsRequest
<1>9. UNCHANGED <<tabs, panes, both, client, left>>
  BY DEF Remote!Lists, Remote!registry, Remote!connections, Remote!history
<1>10. WindowsClose /\ Remote!live' = Remote!live
  BY <1>3, SameWindows DEF Remote!Lists
<1>11. IsRequest(r)
  BY <1>8, <1>3, MaxWindowsAssumption DEF IsRequest, RemoteTypes
<1>12. Suits(r)
  BY <1>8 DEF Suits, Closing, Adding
<1>13. ~Opened(q)'
  BY <1>7, <1>8 DEF Opened
<1> USE <1>7, <1>8, <1>9, <1>10 DEF WindowsClose
<1>14. NothingYet(q)' /\ MadeWindows(q)' /\ NoWindow(q)'
  BY DEF Windowed, NothingYet, MadeWindows, NoWindow, Adds, Adding, Suits, IsRequest
<1>15. FoundWindows(q)'
  BY DEF FoundWindows, IsRequest
<1>16. DueWindows(q)'
  BY DEF Windowed, DueWindows
<1>17. /\ client' \in Nat /\ left' \subseteq left
       /\ \A v \in left \ left' : v \in Remote!live' => tag[v] \in both
       /\ request'[q].due \subseteq request[q].due \cup left
  BY <1>3 DEF RemoteTypes
<1> QED BY <1>11, <1>12, <1>13, <1>14, <1>15, <1>16, <1>17, GoesOn

LEMMA AttachesStep ==
  ASSUME RemoteInv, NEW q \in Requests, NEW w \in Windows, Remote!Attaches(q, w)
  PROVE  RemoteInv'
<1>1. request[q].at = "starting"
  BY DEF Remote!Attaches, Remote!At
<1>2. Busy(q) /\ IsRequest(request[q]) /\ Suits(request[q]) /\ Windowed(q)
  BY <1>1, BusyRequest
<1>3. RemoteTypes /\ RequestTypes
  BY DEF RemoteInv
<1>4. PICK p : p = request[q].found[w]
  OBVIOUS
<1>5. PICK t : t = request[q].todo \ {p}
  OBVIOUS
<1>6. PICK m : m = [request[q].made EXCEPT ![p] = Remote!Session(w, request[q].client)]
  OBVIOUS
<1>7. w \in DOMAIN request[q].found /\ p \in request[q].todo /\ p \in request[q].panes
  BY <1>2, <1>4 DEF Remote!Attaches, IsRequest
<1>8. Remote!Session(w, request[q].client) \in RemoteSession /\ w \in 0 .. MaxWindows
  BY <1>2, MaxWindowsAssumption DEF Remote!Session, RemoteSession, IsRequest, Windows
<1>9. /\ m \in [request[q].panes -> RemoteSession \cup {None}] /\ m[p].window = w
      /\ \A x \in request[q].panes \ {p} : m[x] = request[q].made[x]
  BY <1>2, <1>6, <1>7, <1>8 DEF IsRequest, Remote!Session
<1>10. tag[w] = p \/ w \notin Remote!live
  BY <1>1, <1>2, <1>4, <1>7 DEF Windowed, FoundWindows
<1> USE <1>1, <1>2, <1>4, <1>5, <1>6, <1>7, <1>8, <1>9, <1>10
<1>11. PICK r : r = [request[q] EXCEPT !.todo = t, !.made = m] /\ Remote!Becomes(q, r)
  BY <1>4, <1>5, <1>6 DEF Remote!Attaches
<1>12. request'[q] = r /\ OthersRest(q) /\ request' = [u \in Requests |-> request'[u]]
  BY <1>3, <1>11, Becoming
<1>13. /\ r.todo = t /\ r.made = m /\ r.at = request[q].at /\ r.op = request[q].op
       /\ r.panes = request[q].panes /\ r.client = request[q].client
       /\ r.keep = request[q].keep /\ r.found = request[q].found /\ r.due = request[q].due
       /\ r.window = request[q].window
       /\ r = [at |-> r.at, op |-> r.op, panes |-> r.panes, todo |-> r.todo,
               client |-> r.client, keep |-> r.keep, found |-> r.found, due |-> r.due,
               window |-> r.window, made |-> r.made]
  BY <1>11 DEF IsRequest
<1>14. UNCHANGED <<tabs, panes, both, client, left>>
  BY DEF Remote!Attaches, Remote!registry, Remote!connections, Remote!history
<1>15. WindowsClose /\ Remote!live' = Remote!live
  BY <1>3, SameWindows DEF Remote!Attaches
<1>16. IsRequest(r)
  BY <1>13, <1>3, MaxWindowsAssumption DEF IsRequest, RemoteTypes
<1>17. Suits(r)
  BY <1>13 DEF Suits, Closing, Adding
<1>18. ~Opened(q)'
  BY <1>12, <1>13 DEF Opened
<1> USE <1>12, <1>13, <1>14, <1>15 DEF WindowsClose
<1>19. NothingYet(q)' /\ MadeWindows(q)' /\ NoWindow(q)'
  BY DEF Windowed, NothingYet, MadeWindows, NoWindow, Adds, Adding, Suits, IsRequest
<1>20. FoundWindows(q)'
  BY DEF Windowed, FoundWindows
<1>21. DueWindows(q)'
  BY DEF Windowed, DueWindows
<1>22. /\ client' \in Nat /\ left' \subseteq left
       /\ \A v \in left \ left' : v \in Remote!live' => tag[v] \in both
       /\ request'[q].due \subseteq request[q].due \cup left
  BY <1>3 DEF RemoteTypes
<1> QED BY <1>16, <1>17, <1>18, <1>19, <1>20, <1>21, <1>22, GoesOn

LEMMA ResizesStep ==
  ASSUME RemoteInv, NEW q \in Requests, Remote!Resizes(q)
  PROVE  RemoteInv'
<1>1. request[q].at = "sizing"
  BY DEF Remote!Resizes, Remote!At
<1>2. Busy(q) /\ IsRequest(request[q]) /\ Suits(request[q]) /\ Windowed(q)
  BY <1>1, BusyRequest
<1>3. RemoteTypes /\ RequestTypes
  BY DEF RemoteInv
<1> USE <1>1, <1>2
<1>4. PICK r : r = [request[q] EXCEPT !.at = "starting", !.window = 0] /\ Remote!Becomes(q, r)
  BY DEF Remote!Resizes, Remote!SignIn
<1>5. request'[q] = r /\ OthersRest(q) /\ request' = [u \in Requests |-> request'[u]]
  BY <1>3, <1>4, Becoming
<1>6. /\ r.at = "starting" /\ r.window = 0 /\ r.op = request[q].op
      /\ r.panes = request[q].panes /\ r.todo = request[q].todo
      /\ r.client = request[q].client /\ r.keep = request[q].keep
      /\ r.found = request[q].found /\ r.due = request[q].due /\ r.made = request[q].made
      /\ r = [at |-> r.at, op |-> r.op, panes |-> r.panes, todo |-> r.todo,
              client |-> r.client, keep |-> r.keep, found |-> r.found, due |-> r.due,
              window |-> r.window, made |-> r.made]
  BY <1>4 DEF IsRequest
<1>7. UNCHANGED <<tabs, panes, both, client, left>>
  BY DEF Remote!Resizes, Remote!registry, Remote!connections, Remote!history
<1>8. WindowsClose /\ Remote!live' = Remote!live
  BY <1>3, SameWindows DEF Remote!Resizes
<1>9. IsRequest(r)
  BY <1>6, <1>3, MaxWindowsAssumption DEF IsRequest, RemoteTypes
<1>10. Suits(r)
  BY <1>6 DEF Suits, Closing, Adding
<1>11. ~Opened(q)'
  BY <1>5, <1>6 DEF Opened
<1> USE <1>5, <1>6, <1>7, <1>8 DEF WindowsClose
<1>12. NothingYet(q)' /\ MadeWindows(q)' /\ NoWindow(q)'
  BY DEF Windowed, NothingYet, MadeWindows, NoWindow, Adds, Adding, Suits, IsRequest
<1>13. FoundWindows(q)'
  BY DEF Windowed, FoundWindows
<1>14. DueWindows(q)'
  BY DEF Windowed, DueWindows
<1>15. /\ client' \in Nat /\ left' \subseteq left
       /\ \A v \in left \ left' : v \in Remote!live' => tag[v] \in both
       /\ request'[q].due \subseteq request[q].due \cup left
  BY <1>3 DEF RemoteTypes
<1> QED BY <1>9, <1>10, <1>11, <1>12, <1>13, <1>14, <1>15, GoesOn

LEMMA SessionsAreMadeStep ==
  ASSUME RemoteInv, NEW q \in Requests, Remote!SessionsAreMade(q)
  PROVE  RemoteInv'
<1>1. request[q].at = "starting"
  BY DEF Remote!SessionsAreMade, Remote!At
<1>2. Busy(q) /\ IsRequest(request[q]) /\ Suits(request[q]) /\ Windowed(q)
  BY <1>1, BusyRequest
<1>3. RemoteTypes /\ RequestTypes
  BY DEF RemoteInv
<1>4. PICK f : f = Remote!Listed({})
  OBVIOUS
<1>5. f \in [DOMAIN f -> Panes \cup {None}]
  BY <1>4 DEF Remote!Listed
<1> USE <1>1, <1>2, <1>4, <1>5
<1>6. PICK r : r = [request[q] EXCEPT !.at = "installing", !.found = f] /\ Remote!Becomes(q, r)
  BY <1>4 DEF Remote!SessionsAreMade
<1>7. request'[q] = r /\ OthersRest(q) /\ request' = [u \in Requests |-> request'[u]]
  BY <1>3, <1>6, Becoming
<1>8. /\ r.at = "installing" /\ r.found = f /\ r.op = request[q].op
      /\ r.panes = request[q].panes /\ r.todo = request[q].todo
      /\ r.client = request[q].client /\ r.keep = request[q].keep /\ r.due = request[q].due
      /\ r.window = request[q].window /\ r.made = request[q].made
      /\ r = [at |-> r.at, op |-> r.op, panes |-> r.panes, todo |-> r.todo,
              client |-> r.client, keep |-> r.keep, found |-> r.found, due |-> r.due,
              window |-> r.window, made |-> r.made]
  BY <1>6 DEF IsRequest
<1>9. UNCHANGED <<tabs, panes, both, client, left>>
  BY DEF Remote!SessionsAreMade, Remote!registry, Remote!connections, Remote!history
<1>10. WindowsClose /\ Remote!live' = Remote!live
  BY <1>3, SameWindows DEF Remote!SessionsAreMade
<1>11. IsRequest(r)
  BY <1>8, <1>3, MaxWindowsAssumption DEF IsRequest, RemoteTypes
<1>12. Suits(r)
  BY <1>8 DEF Suits, Closing, Adding
<1>13. ~Opened(q)'
  BY <1>7, <1>8 DEF Opened
<1> USE <1>7, <1>8, <1>9, <1>10 DEF WindowsClose
<1>14. NothingYet(q)' /\ MadeWindows(q)' /\ NoWindow(q)'
  BY DEF Windowed, NothingYet, MadeWindows, NoWindow, Adds, Adding, Suits, IsRequest
<1>15. FoundWindows(q)'
  BY DEF Windowed, FoundWindows
<1>16. DueWindows(q)'
  BY DEF Windowed, DueWindows
<1>17. /\ client' \in Nat /\ left' \subseteq left
       /\ \A v \in left \ left' : v \in Remote!live' => tag[v] \in both
       /\ request'[q].due \subseteq request[q].due \cup left
  BY <1>3 DEF RemoteTypes
<1> QED BY <1>11, <1>12, <1>13, <1>14, <1>15, <1>16, <1>17, GoesOn

LEMMA SweepCutShortStep ==
  ASSUME RemoteInv, NEW q \in Requests, request[q].client \notin up, Remote!SweepLists(q)
  PROVE  RemoteInv'
<1>1. request[q].at = "sweeping"
  BY DEF Remote!SweepLists, Remote!At
<1>2. Busy(q) /\ IsRequest(request[q]) /\ Suits(request[q]) /\ Windowed(q)
  BY <1>1, BusyRequest
<1>3. RemoteTypes /\ RequestTypes
  BY DEF RemoteInv
<1>4. PICK n : n = Remote!WithClient(request[q])
  OBVIOUS
<1>5. /\ IsRequest(n) /\ Suits(n) /\ n.at \in {"connecting", "listing"}
      /\ n.op = request[q].op \/ (request[q].op = "signedIn" /\ n.op = "install")
      /\ n.panes = request[q].panes /\ n.todo = request[q].todo /\ n.made = request[q].made
      /\ n.found = request[q].found /\ n.client = request[q].client /\ n.due = request[q].due
      /\ n.keep = request[q].keep /\ n.window = request[q].window
  BY <1>1, <1>2, <1>4, WithClientIs
<1> USE <1>1, <1>2, <1>4, <1>5
<1>6. PICK r : r = n /\ Remote!Becomes(q, r)
  BY <1>4 DEF Remote!SweepLists
<1>7. request'[q] = r /\ OthersRest(q) /\ request' = [u \in Requests |-> request'[u]]
  BY <1>3, <1>6, Becoming
<1>8. /\ r.at = n.at /\ r.op = n.op /\ r.panes = n.panes /\ r.todo = n.todo
      /\ r.client = n.client /\ r.keep = n.keep /\ r.found = n.found /\ r.due = n.due
      /\ r.window = n.window /\ r.made = n.made
      /\ r = [at |-> r.at, op |-> r.op, panes |-> r.panes, todo |-> r.todo,
              client |-> r.client, keep |-> r.keep, found |-> r.found, due |-> r.due,
              window |-> r.window, made |-> r.made]
  BY <1>6 DEF IsRequest
<1>9. UNCHANGED <<tabs, panes, both, client, left>>
  BY DEF Remote!SweepLists, Remote!registry, Remote!connections, Remote!history
<1>10. WindowsClose /\ Remote!live' = Remote!live
  BY <1>3, SameWindows DEF Remote!SweepLists
<1>11. IsRequest(r)
  BY <1>8, <1>3, MaxWindowsAssumption DEF IsRequest, RemoteTypes
<1>12. Suits(r)
  BY <1>8 DEF Suits, Closing, Adding
<1>13. ~Opened(q)'
  BY <1>7, <1>8 DEF Opened
<1> USE <1>7, <1>8, <1>9, <1>10 DEF WindowsClose
<1>14. NothingYet(q)' /\ MadeWindows(q)' /\ NoWindow(q)'
  BY DEF Windowed, NothingYet, MadeWindows, NoWindow, Adds, Adding, Suits, IsRequest
<1>15. FoundWindows(q)'
  BY DEF Windowed, FoundWindows
<1>16. DueWindows(q)'
  BY DEF Windowed, DueWindows
<1>17. /\ client' \in Nat /\ left' \subseteq left
       /\ \A v \in left \ left' : v \in Remote!live' => tag[v] \in both
       /\ request'[q].due \subseteq request[q].due \cup left
  BY <1>3 DEF RemoteTypes
<1> QED BY <1>11, <1>12, <1>13, <1>14, <1>15, <1>16, <1>17, GoesOn

LEMMA SweepListsStep ==
  ASSUME RemoteInv, NEW q \in Requests, request[q].client \in up, Remote!SweepLists(q)
  PROVE  RemoteInv'
<1>1. request[q].at = "sweeping"
  BY DEF Remote!SweepLists, Remote!At
<1>2. Busy(q) /\ IsRequest(request[q]) /\ Suits(request[q]) /\ Windowed(q)
  BY <1>1, BusyRequest
<1>3. RemoteTypes /\ RequestTypes
  BY DEF RemoteInv
<1>4. PICK f : f = Remote!Listed(Remote!live \ Remote!Tagged(request[q].keep))
  OBVIOUS
<1>5. /\ DOMAIN f = {w \in Remote!live : tag[w] \notin request[q].keep}
      /\ f \in [DOMAIN f -> Panes \cup {None}]
  BY <1>3, <1>4 DEF Remote!Listed, Remote!Tagged, RemoteTypes
<1> USE <1>1, <1>2, <1>4, <1>5
<1>6. PICK r : r = [request[q] EXCEPT !.at = "killing", !.found = f] /\ Remote!Becomes(q, r)
  BY <1>4 DEF Remote!SweepLists
<1>7. request'[q] = r /\ OthersRest(q) /\ request' = [u \in Requests |-> request'[u]]
  BY <1>3, <1>6, Becoming
<1>8. /\ r.at = "killing" /\ r.found = f /\ r.op = request[q].op
      /\ r.panes = request[q].panes /\ r.todo = request[q].todo
      /\ r.client = request[q].client /\ r.keep = request[q].keep /\ r.due = request[q].due
      /\ r.window = request[q].window /\ r.made = request[q].made
      /\ r = [at |-> r.at, op |-> r.op, panes |-> r.panes, todo |-> r.todo,
              client |-> r.client, keep |-> r.keep, found |-> r.found, due |-> r.due,
              window |-> r.window, made |-> r.made]
  BY <1>6 DEF IsRequest
<1>9. UNCHANGED <<tabs, panes, both, client, left>>
  BY DEF Remote!SweepLists, Remote!registry, Remote!connections, Remote!history
<1>10. WindowsClose /\ Remote!live' = Remote!live
  BY <1>3, SameWindows DEF Remote!SweepLists
<1>11. IsRequest(r)
  BY <1>8, <1>3, MaxWindowsAssumption DEF IsRequest, RemoteTypes
<1>12. Suits(r)
  BY <1>8 DEF Suits, Closing, Adding
<1>13. ~Opened(q)'
  BY <1>7, <1>8 DEF Opened
<1> USE <1>7, <1>8, <1>9, <1>10 DEF WindowsClose
<1>14. NothingYet(q)' /\ MadeWindows(q)' /\ NoWindow(q)'
  BY DEF Windowed, NothingYet, MadeWindows, NoWindow, Adds, Adding, Suits, IsRequest
<1>15. FoundWindows(q)'
  BY DEF Windowed, FoundWindows
<1>16. DueWindows(q)'
  BY DEF Windowed, DueWindows
<1>17. /\ client' \in Nat /\ left' \subseteq left
       /\ \A v \in left \ left' : v \in Remote!live' => tag[v] \in both
       /\ request'[q].due \subseteq request[q].due \cup left
  BY <1>3 DEF RemoteTypes
<1> QED BY <1>11, <1>12, <1>13, <1>14, <1>15, <1>16, <1>17, GoesOn

LEMMA SweepKillsStep ==
  ASSUME RemoteInv, NEW q \in Requests, NEW w, Remote!SweepKills(q, w)
  PROVE  RemoteInv'
<1>1. request[q].at = "killing"
  BY DEF Remote!SweepKills, Remote!At
<1>2. Busy(q) /\ IsRequest(request[q]) /\ Suits(request[q]) /\ Windowed(q)
  BY <1>1, BusyRequest
<1>3. RemoteTypes /\ RequestTypes
  BY DEF RemoteInv
<1>4. PICK f : f = [x \in DOMAIN request[q].found \ {w} |-> request[q].found[x]]
  OBVIOUS
<1>5. /\ DOMAIN f = DOMAIN request[q].found \ {w}
      /\ f \in [DOMAIN f -> Panes \cup {None}]
  BY <1>2, <1>4 DEF IsRequest
<1> USE <1>1, <1>2, <1>4, <1>5
<1>6. PICK r : r = [request[q] EXCEPT !.found = f] /\ Remote!Becomes(q, r)
  BY <1>4 DEF Remote!SweepKills
<1>7. request'[q] = r /\ OthersRest(q) /\ request' = [u \in Requests |-> request'[u]]
  BY <1>3, <1>6, Becoming
<1>8. /\ r.found = f /\ r.at = request[q].at /\ r.op = request[q].op
      /\ r.panes = request[q].panes /\ r.todo = request[q].todo
      /\ r.client = request[q].client /\ r.keep = request[q].keep /\ r.due = request[q].due
      /\ r.window = request[q].window /\ r.made = request[q].made
      /\ r = [at |-> r.at, op |-> r.op, panes |-> r.panes, todo |-> r.todo,
              client |-> r.client, keep |-> r.keep, found |-> r.found, due |-> r.due,
              window |-> r.window, made |-> r.made]
  BY <1>6 DEF IsRequest
<1>9. UNCHANGED <<tabs, panes, both, client, left>>
  BY DEF Remote!SweepKills, Remote!registry, Remote!connections, Remote!history
<1>10. WindowsClose /\ Remote!live' = Remote!live \ {w}
  BY <1>3, ClosingWindows DEF Remote!SweepKills
<1>11. IsRequest(r)
  BY <1>8, <1>3, MaxWindowsAssumption DEF IsRequest, RemoteTypes
<1>12. Suits(r)
  BY <1>8 DEF Suits, Closing, Adding
<1>13. ~Opened(q)'
  BY <1>7, <1>8 DEF Opened
<1> USE <1>7, <1>8, <1>9, <1>10 DEF WindowsClose
<1>14. NothingYet(q)' /\ MadeWindows(q)' /\ NoWindow(q)'
  BY DEF Windowed, NothingYet, MadeWindows, NoWindow, Adds, Adding, Suits, IsRequest
<1>15. FoundWindows(q)'
  BY DEF Windowed, FoundWindows
<1>16. DueWindows(q)'
  BY DEF Windowed, DueWindows
<1>17. /\ client' \in Nat /\ left' \subseteq left
       /\ \A v \in left \ left' : v \in Remote!live' => tag[v] \in both
       /\ request'[q].due \subseteq request[q].due \cup left
  BY <1>3 DEF RemoteTypes
<1> QED BY <1>11, <1>12, <1>13, <1>14, <1>15, <1>16, <1>17, GoesOn

LEMMA SweepEndsStep ==
  ASSUME RemoteInv, NEW q \in Requests, Remote!SweepEnds(q)
  PROVE  RemoteInv'
<1>1. request[q].at = "killing"
  BY DEF Remote!SweepEnds, Remote!At
<1>2. Busy(q) /\ IsRequest(request[q]) /\ Suits(request[q]) /\ Windowed(q)
  BY <1>1, BusyRequest
<1>3. RemoteTypes /\ RequestTypes
  BY DEF RemoteInv
<1>4. PICK n : n = Remote!WithClient(request[q])
  OBVIOUS
<1>5. /\ IsRequest(n) /\ Suits(n) /\ n.at \in {"connecting", "listing"}
      /\ n.op = request[q].op \/ (request[q].op = "signedIn" /\ n.op = "install")
      /\ n.panes = request[q].panes /\ n.todo = request[q].todo /\ n.made = request[q].made
      /\ n.found = request[q].found /\ n.client = request[q].client /\ n.due = request[q].due
      /\ n.keep = request[q].keep /\ n.window = request[q].window
  BY <1>1, <1>2, <1>4, WithClientIs
<1>6. PICK f : f = Remote!Listed({})
  OBVIOUS
<1>7. f \in [DOMAIN f -> Panes \cup {None}]
  BY <1>6 DEF Remote!Listed
<1> USE <1>1, <1>2, <1>4, <1>5, <1>6, <1>7
<1>8. PICK r : r = [n EXCEPT !.found = f, !.keep = {}, !.due = {}] /\ Remote!Becomes(q, r)
  BY <1>4, <1>6 DEF Remote!SweepEnds
<1>9. request'[q] = r /\ OthersRest(q) /\ request' = [u \in Requests |-> request'[u]]
  BY <1>3, <1>8, Becoming
<1>10. /\ r.found = f /\ r.keep = {} /\ r.due = {} /\ r.at = n.at /\ r.op = n.op
       /\ r.panes = n.panes /\ r.todo = n.todo /\ r.client = n.client /\ r.window = n.window
       /\ r.made = n.made
       /\ r = [at |-> r.at, op |-> r.op, panes |-> r.panes, todo |-> r.todo,
               client |-> r.client, keep |-> r.keep, found |-> r.found, due |-> r.due,
               window |-> r.window, made |-> r.made]
  BY <1>8 DEF IsRequest
<1>11. /\ UNCHANGED <<tabs, panes, both, client>>
       /\ left' = left \/ (left' = left \ request[q].due /\ DOMAIN request[q].found = {})
  BY DEF Remote!SweepEnds, Remote!registry, Remote!connections, Remote!history
<1>12. WindowsClose /\ Remote!live' = Remote!live
  BY <1>3, SameWindows DEF Remote!SweepEnds
<1>13. IsRequest(r)
  BY <1>10, <1>3, MaxWindowsAssumption DEF IsRequest, RemoteTypes
<1>14. Suits(r)
  BY <1>10 DEF Suits, Closing, Adding
<1>15. ~Opened(q)'
  BY <1>9, <1>10 DEF Opened
<1> USE <1>9, <1>10, <1>11, <1>12 DEF WindowsClose
<1>16. NothingYet(q)' /\ MadeWindows(q)' /\ NoWindow(q)'
  BY DEF Windowed, NothingYet, MadeWindows, NoWindow, Adds, Adding, Suits, IsRequest
<1>17. FoundWindows(q)'
  BY DEF Windowed, FoundWindows
<1>18. DueWindows(q)'
  BY DEF Windowed, DueWindows
<1>19. /\ client' \in Nat /\ left' \subseteq left
       /\ \A v \in left \ left' : v \in Remote!live' => tag[v] \in both
       /\ request'[q].due \subseteq request[q].due \cup left
  BY <1>3 DEF RemoteTypes, Windowed, DueWindows
<1> QED BY <1>13, <1>14, <1>15, <1>16, <1>17, <1>18, <1>19, GoesOn

LEMMA AsksToSignInStep ==
  ASSUME RemoteInv, NEW q \in Requests, Remote!AsksToSignIn(q)
  PROVE  RemoteInv'
<1>1. request[q].at = "connecting"
  BY DEF Remote!AsksToSignIn, Remote!At
<1>2. Busy(q) /\ IsRequest(request[q]) /\ Suits(request[q]) /\ Windowed(q)
  BY <1>1, BusyRequest
<1>3. RemoteTypes /\ RequestTypes
  BY DEF RemoteInv
<1>4. PICK p \in request[q].panes :
        Remote!Becomes(q, [request[q] EXCEPT !.at = "installing", !.todo = {},
                                             !.made[p] = Remote!Session(0, 0)])
  BY DEF Remote!AsksToSignIn, Remote!SignIn
<1>5. PICK m : m = [request[q].made EXCEPT ![p] = Remote!Session(0, 0)]
  OBVIOUS
<1>6. Remote!Session(0, 0) \in RemoteSession
  BY MaxWindowsAssumption DEF Remote!Session, RemoteSession
<1>7. /\ m \in [request[q].panes -> RemoteSession \cup {None}] /\ m[p].window = 0
      /\ \A x \in request[q].panes \ {p} : m[x] = request[q].made[x]
  BY <1>2, <1>5, <1>6 DEF IsRequest, Remote!Session
<1>8. 0 \notin Remote!live
  BY <1>3 DEF RemoteTypes, Windows
<1> USE <1>1, <1>2, <1>4, <1>5, <1>6, <1>7, <1>8
<1>9. PICK r : /\ r = [request[q] EXCEPT !.at = "installing", !.todo = {}, !.made = m]
               /\ Remote!Becomes(q, r)
  BY <1>4, <1>5
<1>10. request'[q] = r /\ OthersRest(q) /\ request' = [u \in Requests |-> request'[u]]
  BY <1>3, <1>9, Becoming
<1>11. /\ r.at = "installing" /\ r.todo = {} /\ r.made = m /\ r.op = request[q].op
       /\ r.panes = request[q].panes /\ r.client = request[q].client
       /\ r.keep = request[q].keep /\ r.found = request[q].found /\ r.due = request[q].due
       /\ r.window = request[q].window
       /\ r = [at |-> r.at, op |-> r.op, panes |-> r.panes, todo |-> r.todo,
               client |-> r.client, keep |-> r.keep, found |-> r.found, due |-> r.due,
               window |-> r.window, made |-> r.made]
  BY <1>9 DEF IsRequest
<1>12. UNCHANGED <<tabs, panes, both, client, left>>
  BY DEF Remote!AsksToSignIn, Remote!registry, Remote!connections, Remote!history
<1>13. WindowsClose /\ Remote!live' = Remote!live
  BY <1>3, SameWindows DEF Remote!AsksToSignIn
<1>14. IsRequest(r)
  BY <1>11, <1>3, MaxWindowsAssumption DEF IsRequest, RemoteTypes
<1>15. Suits(r)
  BY <1>11 DEF Suits, Closing, Adding
<1>16. ~Opened(q)'
  BY <1>10, <1>11 DEF Opened
<1> USE <1>10, <1>11, <1>12, <1>13 DEF WindowsClose
<1>17. NothingYet(q)' /\ MadeWindows(q)' /\ NoWindow(q)'
  BY DEF Windowed, NothingYet, MadeWindows, NoWindow, Adds, Adding, Suits, IsRequest
<1>18. FoundWindows(q)'
  BY DEF Windowed, FoundWindows
<1>19. DueWindows(q)'
  BY DEF Windowed, DueWindows
<1>20. /\ client' \in Nat /\ left' \subseteq left
       /\ \A v \in left \ left' : v \in Remote!live' => tag[v] \in both
       /\ request'[q].due \subseteq request[q].due \cup left
  BY <1>3 DEF RemoteTypes
<1> QED BY <1>14, <1>15, <1>16, <1>17, <1>18, <1>19, <1>20, GoesOn

LEMMA TerminatesPaneStep ==
  ASSUME RemoteInv, NEW q \in Requests, NEW p \in Panes, request[q].op # "closeTab",
         Remote!Terminates(q, p)
  PROVE  RemoteInv'
<1>1. request[q].at = "terminating"
  BY DEF Remote!Terminates, Remote!At
<1>2. Busy(q) /\ IsRequest(request[q]) /\ Suits(request[q]) /\ Windowed(q)
  BY <1>1, BusyRequest
<1>3. RemoteTypes /\ RequestTypes
  BY DEF RemoteInv
<1>4. PICK killed : killed = Remote!Killed(request[q].made[p])
  OBVIOUS
<1>5. PICK w \in killed \cup {0} :
        /\ w = 0 => killed \subseteq {0}
        /\ Remote!Becomes(q, [request[q] EXCEPT !.at = "removing", !.window = w])
  BY <1>4 DEF Remote!Terminates, Remote!SignIn
<1>6. p \in request[q].panes /\ \A x \in request[q].panes : x = p
  BY <1>1, <1>2 DEF Remote!Terminates, Suits
<1>7. w # 0 => /\ killed = {w} /\ w \in Remote!live /\ request[q].made[p] # None
               /\ request[q].made[p].window = w
  BY <1>4, <1>5 DEF Remote!Killed, Remote!Ended, Remote!SignIn
<1>8. w \in 0 .. MaxWindows
  BY <1>2, <1>6, <1>7, MaxWindowsAssumption DEF IsRequest, RemoteSession
<1>9. w # 0 /\ p \notin both => \A x \in Remote!live : tag[x] = p => x = w
  BY <1>1, <1>2, <1>6, <1>7 DEF RemoteInv, OneWindow, Windowed, MadeWindows, Uses
<1> USE <1>1, <1>2, <1>4, <1>5, <1>6, <1>7, <1>8, <1>9
<1>10. PICK r : r = [request[q] EXCEPT !.at = "removing", !.window = w] /\ Remote!Becomes(q, r)
  BY <1>5
<1>11. request'[q] = r /\ OthersRest(q) /\ request' = [u \in Requests |-> request'[u]]
  BY <1>3, <1>10, Becoming
<1>12. /\ r.at = "removing" /\ r.window = w /\ r.op = request[q].op
       /\ r.panes = request[q].panes /\ r.todo = request[q].todo
       /\ r.client = request[q].client /\ r.keep = request[q].keep
       /\ r.found = request[q].found /\ r.due = request[q].due /\ r.made = request[q].made
       /\ r = [at |-> r.at, op |-> r.op, panes |-> r.panes, todo |-> r.todo,
               client |-> r.client, keep |-> r.keep, found |-> r.found, due |-> r.due,
               window |-> r.window, made |-> r.made]
  BY <1>10 DEF IsRequest
<1>13. UNCHANGED <<tabs, panes, both, client, left>>
  BY DEF Remote!Terminates, Remote!registry, Remote!connections, Remote!history
<1>14. WindowsClose /\ Remote!live' = Remote!live \ killed
  BY <1>3, <1>4, ClosingWindows DEF Remote!Terminates
<1>15. IsRequest(r)
  BY <1>12, <1>3, MaxWindowsAssumption DEF IsRequest, RemoteTypes
<1>16. Suits(r)
  BY <1>12 DEF Suits, Closing, Adding
<1>17. ~Opened(q)'
  BY <1>11, <1>12 DEF Opened
<1> USE <1>11, <1>12, <1>13, <1>14 DEF WindowsClose
<1>18. NothingYet(q)' /\ MadeWindows(q)' /\ NoWindow(q)'
  BY DEF Windowed, NothingYet, MadeWindows, NoWindow, Adds, Adding, Suits, IsRequest
<1>19. FoundWindows(q)'
  BY DEF Windowed, FoundWindows
<1>20. DueWindows(q)'
  BY DEF Windowed, DueWindows
<1>21. /\ client' \in Nat /\ left' \subseteq left
       /\ \A v \in left \ left' : v \in Remote!live' => tag[v] \in both
       /\ request'[q].due \subseteq request[q].due \cup left
  BY <1>3 DEF RemoteTypes
<1> QED BY <1>15, <1>16, <1>17, <1>18, <1>19, <1>20, <1>21, GoesOn

\* A request on panes of tabs, with nothing to start or the sessions they show to end.
LEMMA BeginsOnTabs ==
  ASSUME RemoteInv, NEW q \in Requests, NEW op, NEW made, NEW step,
         Remote!Begins(q, op, made, step), op \notin Adding, DOMAIN made \subseteq tabs,
         made = [p \in DOMAIN made |-> made[p]],
         \A p \in DOMAIN made : made[p] = None \/ (step = "terminating" /\ made[p] = panes[p]),
         step \in {"connecting", "terminating", "closing"},
         op \in Closing <=> step = "terminating", step = "closing" => op = "disconnect",
         op \in Closing => \A p, s \in DOMAIN made : p = s,
         UNCHANGED <<client, tag, left>>, panes' \in [Panes -> RemoteSession \cup {None}],
         \A p \in Panes : panes'[p] # None =>
           panes[p] # None /\ panes'[p].window = panes[p].window,
         tabs' = IF op = "closeTab" THEN tabs \ DOMAIN made ELSE tabs
  PROVE  RemoteInv'
<1>1. RemoteTypes /\ RequestTypes /\ ~Busy(q)
  BY DEF RemoteInv, Busy, Remote!Begins
<1>2. PICK f : f = Remote!Listed({})
  OBVIOUS
<1>3. DOMAIN f = {} /\ f \in [DOMAIN f -> Panes \cup {None}]
  BY <1>2 DEF Remote!Listed
<1>4. PICK P : P = DOMAIN made
  OBVIOUS
<1>5. PICK r :
        /\ r = [at |-> step, op |-> op, panes |-> P, todo |-> P, client |-> 0, keep |-> {},
                found |-> f, due |-> {}, window |-> 0, made |-> made]
        /\ Remote!Becomes(q, r)
  BY <1>2, <1>4 DEF Remote!Begins, Remote!SignIn
<1>6. request'[q] = r /\ OthersRest(q) /\ request' = [u \in Requests |-> request'[u]]
  BY <1>1, <1>5, Becoming
<1>7. /\ r.at = step /\ r.op = op /\ r.panes = P /\ r.todo = P /\ r.client = 0
      /\ r.keep = {} /\ r.found = f /\ r.due = {} /\ r.window = 0 /\ r.made = made
      /\ r = [at |-> r.at, op |-> r.op, panes |-> r.panes, todo |-> r.todo,
              client |-> r.client, keep |-> r.keep, found |-> r.found, due |-> r.due,
              window |-> r.window, made |-> r.made]
  BY <1>5
<1>8. P \subseteq tabs /\ P \subseteq Panes /\ \A p \in P : made[p] \in RemoteSession \cup {None}
  BY <1>1, <1>4 DEF RemoteTypes
<1>9. IsRequest(r)
  BY <1>3, <1>4, <1>7, <1>8, MaxWindowsAssumption DEF IsRequest
<1>10. Suits(r)
  BY <1>4, <1>7 DEF Suits, Closing, Adding
<1>11. Busy(q)' /\ ~Adds(q)' /\ ~Opened(q)'
  BY <1>6, <1>7 DEF Busy, Remote!Idle, Adds, Opened
<1>12. \A u \in Requests \ {q} : request'[u] = request[u] /\ (Busy(u)' <=> Busy(u))
                                 /\ \A p : Uses(u, p)' <=> Uses(u, p)
  BY <1>6 DEF OthersRest, Busy, Uses
<1>13. \A p : ~Uses(q, p) /\ (Uses(q, p)' <=> p \in P)
  BY <1>1, <1>6, <1>7, <1>11 DEF Uses
<1>14. both' = both \cup {p \in P : \E o \in Requests \ {q} : Uses(o, p)}
  BY <1>4 DEF Remote!Begins, Adding, Remote!InUse, Remote!Active, Uses, Busy
<1>15. WindowsClose /\ Remote!live' = Remote!live /\ SharedGrows
  BY <1>1, <1>14, SameWindows DEF SharedGrows
<1>16. tabs' \subseteq tabs /\ tabs \subseteq tabs' \cup P /\ (op # "closeTab" => tabs' = tabs)
       /\ (op = "closeTab" => tabs' \cap P = {})
  BY <1>4
<1> USE <1>7, <1>8, <1>11, <1>12, <1>13, <1>14, <1>15, <1>16 DEF WindowsClose
<1>17. RemoteTypes'
  BY <1>1 DEF RemoteTypes
<1>18. RequestTypes'
  BY <1>1, <1>6, <1>9 DEF RequestTypes
<1>19. RequestsSuit'
  BY <1>6, <1>10 DEF RemoteInv, RequestsSuit
<1>20. UsesAlone'
  BY DEF RemoteInv, UsesAlone
<1>21. PanesOfRequests'
  BY <1>6 DEF RemoteInv, PanesOfRequests, Adds
<1>22. NewWindowsDiffer'
  BY DEF RemoteInv, NewWindowsDiffer, Opened
<1>23. UntaggedWindows'
  BY <1>1 DEF RemoteInv, UntaggedWindows
<1>24. TaggedWindows'
  BY <1>6 DEF RemoteInv, TaggedWindows, Adds, Uses
<1>25. LeftWindows'
  BY DEF RemoteInv, LeftWindows
<1>26. OneWindow'
  BY DEF RemoteInv, OneWindow
<1>27. ShownWindows'
  BY DEF RemoteInv, ShownWindows
<1>28. RequestsFit'
  <2>1. \A u \in Requests \ {q} : Busy(u) /\ request[u].at = "tagging" =>
          request[u].window \notin left' /\ request[u].window \notin request'[q].due
    BY <1>6 DEF RemoteInv, RequestsFit, Windowed, WindowToTag
  <2>2. \A u \in Requests \ {q} : Busy(u)' => Windowed(u)'
    BY <1>6, <2>1, OthersStayFit
  <2>3. MadeWindows(q)'
    BY <1>4, <1>6 DEF MadeWindows, RemoteInv, ShownWindows
  <2>4. Windowed(q)'
    BY <1>6, <2>3 DEF Windowed, NothingYet, NewWindow, WindowToTag, FoundWindows, DueWindows,
       NoWindow, Opened
  <2> QED BY <2>2, <2>4 DEF RequestsFit
<1> QED BY <1>17, <1>18, <1>19, <1>20, <1>21, <1>22, <1>23, <1>24, <1>25, <1>26, <1>27,
           <1>28 DEF RemoteInv

LEMMA NoSessionsAre ==
  ASSUME NEW P, NEW made, made = Remote!NoSessions(P)
  PROVE  /\ DOMAIN made = P /\ made = [p \in DOMAIN made |-> made[p]]
         /\ \A p \in DOMAIN made : made[p] = None
BY DEF Remote!NoSessions

LEMMA reattach_paneStep ==
  ASSUME RemoteInv, NEW q \in Requests, NEW p \in Panes, Remote!reattach_pane(q, p)
  PROVE  RemoteInv'
<1>1. PICK made : made = Remote!NoSessions({p})
  OBVIOUS
<1>2. /\ Remote!Begins(q, "reattach", made, "connecting") /\ p \in tabs
      /\ UNCHANGED <<tabs, panes, client, tag, left>>
  BY <1>1 DEF Remote!reattach_pane, Remote!registry, Remote!connections
<1> QED BY <1>1, <1>2, NoSessionsAre, BeginsOnTabs DEF Adding, Closing, RemoteInv, RemoteTypes

LEMMA finish_sign_inStep ==
  ASSUME RemoteInv, NEW q \in Requests, NEW p \in Panes, Remote!finish_sign_in(q, p)
  PROVE  RemoteInv'
<1>1. PICK P : P = {r \in tabs : r = p \/ Remote!Waits(r)}
  OBVIOUS
<1>2. PICK made : made = Remote!NoSessions(P)
  OBVIOUS
<1>3. Remote!Begins(q, "signedIn", made, "connecting") /\ UNCHANGED <<tabs, client, tag, left>>
  BY <1>1, <1>2 DEF Remote!finish_sign_in, Remote!connections
<1>4. panes[p] # None /\ panes' = [panes EXCEPT ![p].cut = TRUE]
  BY DEF Remote!finish_sign_in
<1>5. panes \in [Panes -> RemoteSession \cup {None}]
  BY DEF RemoteInv, RemoteTypes
<1>6. PICK s : s = [panes[p] EXCEPT !.cut = TRUE]
  OBVIOUS
<1>7. s \in RemoteSession /\ s.window = panes[p].window
  BY <1>4, <1>5, <1>6 DEF RemoteSession
<1>8. panes' = [panes EXCEPT ![p] = s]
  BY <1>4, <1>6
<1>9. /\ panes' \in [Panes -> RemoteSession \cup {None}]
      /\ \A r \in Panes : panes'[r] # None =>
           panes[r] # None /\ panes'[r].window = panes[r].window
  BY <1>4, <1>5, <1>7, <1>8
<1>10. /\ DOMAIN made \subseteq tabs /\ made = [r \in DOMAIN made |-> made[r]]
       /\ \A r \in DOMAIN made : made[r] = None
  BY <1>1, <1>2, NoSessionsAre
<1> QED BY <1>3, <1>9, <1>10, BeginsOnTabs DEF Adding, Closing

LEMMA close_tabStep ==
  ASSUME RemoteInv, NEW q \in Requests, NEW p \in Panes, Remote!close_tab(q, p)
  PROVE  RemoteInv'
<1>1. PICK made : made = [r \in {p} |-> panes[p]]
  OBVIOUS
<1>2. DOMAIN made = {p} /\ made[p] = panes[p] /\ made = [r \in DOMAIN made |-> made[r]]
  BY <1>1
<1>3. /\ Remote!Begins(q, "closeTab", made, "terminating") /\ UNCHANGED <<client, tag, left>>
      /\ p \in tabs /\ tabs' = tabs \ {p} /\ panes' = [panes EXCEPT ![p] = None]
  BY <1>1 DEF Remote!close_tab, Remote!connections
<1>4. /\ panes' \in [Panes -> RemoteSession \cup {None}]
      /\ \A r \in Panes : panes'[r] # None =>
           panes[r] # None /\ panes'[r].window = panes[r].window
  BY <1>3 DEF RemoteInv, RemoteTypes
<1> QED BY <1>2, <1>3, <1>4, BeginsOnTabs DEF Adding, Closing

LEMMA close_paneStep ==
  ASSUME RemoteInv, NEW q \in Requests, NEW p \in Panes, Remote!close_pane(q, p)
  PROVE  RemoteInv'
<1>1. PICK made : made = [r \in {p} |-> panes[p]]
  OBVIOUS
<1>2. DOMAIN made = {p} /\ made[p] = panes[p] /\ made = [r \in DOMAIN made |-> made[r]]
  BY <1>1
<1>3. /\ Remote!Begins(q, "closePane", made, "terminating") /\ p \in tabs
      /\ UNCHANGED <<tabs, panes, client, tag, left>>
  BY <1>1 DEF Remote!close_pane, Remote!connections, Remote!registry
<1> QED BY <1>2, <1>3, BeginsOnTabs DEF Adding, Closing, RemoteInv, RemoteTypes

LEMMA disconnect_workspaceStep ==
  ASSUME RemoteInv, NEW q \in Requests, Remote!disconnect_workspace(q)
  PROVE  RemoteInv'
<1>1. PICK made : made = Remote!NoSessions({})
  OBVIOUS
<1>2. /\ Remote!Begins(q, "disconnect", made, "closing") /\ UNCHANGED <<tabs, client, tag, left>>
      /\ panes' = [p \in Panes |-> IF p \notin tabs \/ panes[p] = None THEN panes[p]
                                   ELSE [panes[p] EXCEPT !.cut = TRUE]]
  BY <1>1 DEF Remote!disconnect_workspace, Remote!connections
<1>3. \A s \in RemoteSession : /\ [s EXCEPT !.cut = TRUE] \in RemoteSession
                               /\ [s EXCEPT !.cut = TRUE].window = s.window
  BY DEF RemoteSession
<1>4. panes \in [Panes -> RemoteSession \cup {None}]
  BY DEF RemoteInv, RemoteTypes
<1>5. ASSUME NEW p \in Panes
      PROVE  /\ panes'[p] \in RemoteSession \cup {None}
             /\ panes'[p] # None => panes[p] # None /\ panes'[p].window = panes[p].window
  <2>1. CASE p \notin tabs \/ panes[p] = None
    BY <1>2, <1>4, <2>1
  <2>2. CASE p \in tabs /\ panes[p] # None
    <3>1. panes'[p] = [panes[p] EXCEPT !.cut = TRUE] /\ panes[p] \in RemoteSession
      BY <1>2, <1>4, <2>2
    <3> QED BY <1>3, <2>2, <3>1
  <2> QED BY <2>1, <2>2
<1>6. panes' \in [Panes -> RemoteSession \cup {None}]
  BY <1>2, <1>5
<1> QED BY <1>1, <1>2, <1>5, <1>6, NoSessionsAre, BeginsOnTabs DEF Adding, Closing

\* A request that adds a tab has a pane that is new.
LEMMA BeginsANewTab ==
  ASSUME RemoteInv, NEW q \in Requests, NEW op \in Adding, NEW p \in Panes, NEW made,
         made = Remote!NoSessions({p}), Remote!Begins(q, op, made, "connecting"), Remote!New(p),
         UNCHANGED <<tabs, panes, client, tag, left>>
  PROVE  RemoteInv'
<1>1. RemoteTypes /\ RequestTypes /\ ~Busy(q)
  BY DEF RemoteInv, Busy, Remote!Begins
<1>2. PICK f : f = Remote!Listed({})
  OBVIOUS
<1>3. DOMAIN f = {} /\ f \in [DOMAIN f -> Panes \cup {None}]
  BY <1>2 DEF Remote!Listed
<1>4. /\ DOMAIN made = {p} /\ made[p] = None /\ made = [r \in DOMAIN made |-> made[r]]
  BY NoSessionsAre
<1>5. PICK r :
        /\ r = [at |-> "connecting", op |-> op, panes |-> {p}, todo |-> {p}, client |-> 0,
                keep |-> {}, found |-> f, due |-> {}, window |-> 0, made |-> made]
        /\ Remote!Becomes(q, r)
  BY <1>2, <1>4 DEF Remote!Begins, Remote!SignIn
<1>6. request'[q] = r /\ OthersRest(q) /\ request' = [u \in Requests |-> request'[u]]
  BY <1>1, <1>5, Becoming
<1>7. /\ r.at = "connecting" /\ r.op = op /\ r.panes = {p} /\ r.todo = {p} /\ r.client = 0
      /\ r.keep = {} /\ r.found = f /\ r.due = {} /\ r.window = 0 /\ r.made = made
      /\ r = [at |-> r.at, op |-> r.op, panes |-> r.panes, todo |-> r.todo,
              client |-> r.client, keep |-> r.keep, found |-> r.found, due |-> r.due,
              window |-> r.window, made |-> r.made]
  BY <1>5
<1>8. IsRequest(r)
  BY <1>3, <1>4, <1>7, MaxWindowsAssumption DEF IsRequest
<1>9. Suits(r)
  BY <1>4, <1>7 DEF Suits, Closing, Adding
<1>10. Busy(q)' /\ Adds(q)' /\ ~Opened(q)'
  BY <1>6, <1>7 DEF Busy, Remote!Idle, Adds, Opened
<1>11. \A u \in Requests \ {q} : request'[u] = request[u] /\ (Busy(u)' <=> Busy(u))
                                 /\ \A s : Uses(u, s)' <=> Uses(u, s)
  BY <1>6 DEF OthersRest, Busy, Uses
<1>12. \A s : ~Uses(q, s) /\ (Uses(q, s)' <=> s = p)
  BY <1>1, <1>6, <1>7, <1>10 DEF Uses
<1>13. /\ p \notin tabs /\ panes[p] = None
       /\ (\A w \in Remote!live : tag[w] # p) /\ \A u \in Requests : ~Uses(u, p)
  BY DEF Remote!New, Remote!Tagged, Remote!InUse, Remote!Active, Uses, Busy
<1>14. both' = both \ {p}
  BY <1>4 DEF Remote!Begins, Adding
<1>15. WindowsClose /\ Remote!live' = Remote!live /\ SharedGrows
  BY <1>1, <1>13, <1>14, SameWindows DEF SharedGrows
<1> USE <1>7, <1>10, <1>11, <1>12, <1>13, <1>14, <1>15 DEF WindowsClose
<1>16. RemoteTypes'
  BY <1>1 DEF RemoteTypes
<1>17. RequestTypes'
  BY <1>1, <1>6, <1>8 DEF RequestTypes
<1>18. RequestsSuit'
  BY <1>6, <1>9 DEF RemoteInv, RequestsSuit
<1>19. UsesAlone'
  BY DEF RemoteInv, UsesAlone
<1>20. PanesOfRequests'
  BY <1>6 DEF RemoteInv, PanesOfRequests, Adds
<1>21. NewWindowsDiffer'
  BY DEF RemoteInv, NewWindowsDiffer, Opened
<1>22. UntaggedWindows'
  BY <1>1 DEF RemoteInv, UntaggedWindows
<1>23. TaggedWindows'
  BY <1>6 DEF RemoteInv, TaggedWindows, Adds, Uses
<1>24. LeftWindows'
  BY DEF RemoteInv, LeftWindows
<1>25. OneWindow'
  BY DEF RemoteInv, OneWindow
<1>26. ShownWindows'
  BY DEF RemoteInv, ShownWindows
<1>27. RequestsFit'
  <2>1. \A u \in Requests \ {q} : Busy(u) /\ request[u].at = "tagging" =>
          request[u].window \notin left' /\ request[u].window \notin request'[q].due
    BY <1>6 DEF RemoteInv, RequestsFit, Windowed, WindowToTag
  <2>2. \A u \in Requests \ {q} : Busy(u)' => Windowed(u)'
    BY <1>6, <2>1, OthersStayFit
  <2>3. Windowed(q)'
    BY <1>4, <1>6 DEF Windowed, NothingYet, MadeWindows, NewWindow, WindowToTag,
       FoundWindows, DueWindows, NoWindow, Opened
  <2> QED BY <2>2, <2>3 DEF RequestsFit
<1> QED BY <1>16, <1>17, <1>18, <1>19, <1>20, <1>21, <1>22, <1>23, <1>24, <1>25, <1>26,
           <1>27 DEF RemoteInv

LEMMA create_workspace_tabStep ==
  ASSUME RemoteInv, NEW q \in Requests, NEW p \in Panes, Remote!create_workspace_tab(q, p)
  PROVE  RemoteInv'
<1>1. PICK made : made = Remote!NoSessions({p})
  OBVIOUS
<1>2. /\ Remote!Begins(q, "create", made, "connecting") /\ Remote!New(p)
      /\ UNCHANGED <<tabs, panes, client, tag, left>>
  BY <1>1 DEF Remote!create_workspace_tab, Remote!registry, Remote!connections
<1> QED BY <1>1, <1>2, BeginsANewTab DEF Adding

LEMMA reconnect_workspaceStep ==
  ASSUME RemoteInv, NEW q \in Requests, Remote!reconnect_workspace(q)
  PROVE  RemoteInv'
<1>1. UNCHANGED <<tabs, panes, client, tag, left>>
  BY DEF Remote!reconnect_workspace, Remote!registry, Remote!connections
<1>2. CASE tabs # {}
  <2>1. PICK P : P = {p \in tabs : Remote!Waits(p)}
    OBVIOUS
  <2>2. PICK made : made = Remote!NoSessions(P)
    OBVIOUS
  <2>3. Remote!Begins(q, "reconnect", made, "connecting")
    BY <1>2, <2>1, <2>2 DEF Remote!reconnect_workspace
  <2>4. /\ DOMAIN made \subseteq tabs /\ made = [r \in DOMAIN made |-> made[r]]
        /\ \A r \in DOMAIN made : made[r] = None
    BY <2>1, <2>2, NoSessionsAre
  <2> QED BY <1>1, <2>3, <2>4, BeginsOnTabs DEF Adding, Closing, RemoteInv, RemoteTypes
<1>3. CASE tabs = {}
  <2>1. PICK p \in Panes :
          /\ Remote!New(p)
          /\ Remote!Begins(q, "reconnectEmpty", Remote!NoSessions({p}), "connecting")
    BY <1>3 DEF Remote!reconnect_workspace
  <2>2. PICK made : made = Remote!NoSessions({p})
    OBVIOUS
  <2> QED BY <1>1, <2>1, <2>2, BeginsANewTab DEF Adding
<1> QED BY <1>2, <1>3

\* The new window is no other session's, and its pane has none yet.
LEMMA OpensWindowStep ==
  ASSUME RemoteInv, NEW q \in Requests, NEW p \in Panes, Remote!OpensWindow(q, p)
  PROVE  RemoteInv'
<1>1. request[q].at = "starting" /\ p \in request[q].todo
      /\ \A x \in DOMAIN request[q].found : request[q].found[x] # p
  BY DEF Remote!OpensWindow, Remote!OpensAny, Remote!At
<1>2. Busy(q) /\ IsRequest(request[q]) /\ Suits(request[q]) /\ Windowed(q)
  BY <1>1, BusyRequest
<1>3. RemoteTypes /\ RequestTypes /\ RequestsFit
  BY DEF RemoteInv
<1>4. PICK w \in Remote!FreeWindows :
        /\ tag' = [x \in Remote!live \cup {w} |-> IF x = w THEN None ELSE tag[x]]
        /\ left' = left \ {w}
        /\ Remote!Becomes(q, [request[q] EXCEPT
             !.at = "tagging", !.window = w, !.todo = request[q].todo \ {p},
             !.made[p] = Remote!Session(w, request[q].client)])
  BY DEF Remote!OpensWindow, Remote!OpensAny, Remote!Least
<1>5. PICK m : m = [request[q].made EXCEPT ![p] = Remote!Session(w, request[q].client)]
  OBVIOUS
<1>6. PICK r :
        /\ r = [request[q] EXCEPT !.at = "tagging", !.window = w,
                                  !.todo = request[q].todo \ {p}, !.made = m]
        /\ Remote!Becomes(q, r)
  BY <1>4, <1>5
<1>7. request'[q] = r /\ OthersRest(q) /\ request' = [u \in Requests |-> request'[u]]
  BY <1>3, <1>6, Becoming
<1>8. /\ w \in Windows /\ w \notin Remote!live
      /\ \A s \in Panes : panes[s] # None => panes[s].window # w
      /\ \A u \in Requests : Busy(u) =>
           /\ w \notin DOMAIN request[u].found /\ w \notin request[u].due
           /\ \A s \in request[u].panes : request[u].made[s] # None =>
                request[u].made[s].window # w
  BY <1>3, FreeWindowsAreFree
<1>9. Remote!Session(w, request[q].client) \in RemoteSession /\ w \in 0 .. MaxWindows /\ w # 0
  BY <1>2, <1>8, MaxWindowsAssumption DEF Remote!Session, RemoteSession, IsRequest, Windows
<1>10. /\ m \in [request[q].panes -> RemoteSession \cup {None}] /\ m[p].window = w
       /\ m[p] # None /\ \A s \in request[q].panes \ {p} : m[s] = request[q].made[s]
  BY <1>1, <1>2, <1>5, <1>9, NoSessionAssumption DEF IsRequest, Remote!Session, RemoteSession
<1>11. /\ r.at = "tagging" /\ r.op = request[q].op /\ r.panes = request[q].panes
       /\ r.todo = request[q].todo \ {p} /\ r.client = request[q].client
       /\ r.keep = request[q].keep /\ r.found = request[q].found /\ r.due = request[q].due
       /\ r.window = w /\ r.made = m
       /\ r = [at |-> r.at, op |-> r.op, panes |-> r.panes, todo |-> r.todo,
               client |-> r.client, keep |-> r.keep, found |-> r.found, due |-> r.due,
               window |-> r.window, made |-> r.made]
  BY <1>2, <1>6 DEF IsRequest
<1>12. IsRequest(r)
  BY <1>2, <1>9, <1>10, <1>11 DEF IsRequest
<1>13. Suits(r)
  BY <1>1, <1>2, <1>9, <1>10, <1>11 DEF Suits, Closing, Adding, IsRequest
<1>14. UNCHANGED <<tabs, panes, both, client>> /\ left' = left \ {w}
  BY <1>4 DEF Remote!OpensWindow, Remote!OpensAny, Remote!registry, Remote!connections
<1>15. /\ Remote!live' = Remote!live \cup {w} /\ tag'[w] = None
       /\ \A x \in Remote!live : tag'[x] = tag[x]
  <2>1. tag' = [x \in Remote!live \cup {w} |-> IF x = w THEN None ELSE tag[x]]
    BY <1>4
  <2>2. Remote!live' = Remote!live \cup {w}
    BY <2>1 DEF Remote!live
  <2> QED BY <1>8, <2>1, <2>2
<1>16. tag' \in [Remote!live' -> Panes \cup {None}]
  BY <1>3, <1>4, <1>15 DEF RemoteTypes
<1>17. /\ Busy(q)' /\ (Adds(q)' <=> Adds(q)) /\ ~Opened(q) /\ Opened(q)'
       /\ (request'[q].op = "closeTab" <=> request[q].op = "closeTab")
  BY <1>1, <1>7, <1>11 DEF Busy, Remote!Idle, Adds, Opened
<1>18. /\ \A u \in Requests \ {q} : request'[u] = request[u]
       /\ \A u \in Requests : Busy(u)' <=> Busy(u)
  BY <1>2, <1>7, <1>17 DEF OthersRest, Busy
<1>19. \A u \in Requests : \A s : Uses(u, s)' <=> Uses(u, s)
  BY <1>7, <1>11, <1>18 DEF Uses
<1>20. None \notin Panes
  BY NoSessionAssumption
<1> USE <1>1, <1>2, <1>8, <1>11, <1>14, <1>15, <1>17, <1>18, <1>19, <1>20
<1>21. RemoteTypes'
  BY <1>3, <1>16 DEF RemoteTypes
<1>22. RequestTypes'
  BY <1>3, <1>7, <1>12 DEF RequestTypes
<1>23. RequestsSuit'
  BY <1>7, <1>13 DEF RemoteInv, RequestsSuit
<1>24. UsesAlone'
  BY DEF RemoteInv, UsesAlone
<1>25. PanesOfRequests'
  BY <1>7 DEF RemoteInv, PanesOfRequests, Adds
<1>26. NewWindowsDiffer'
  <2>1. \A u \in Requests : Opened(u) => request[u].window # w
    BY <1>3 DEF RequestsFit, Windowed, NewWindow, OpenedFor, Opened, Busy, Remote!Idle
  <2> QED BY <1>7, <2>1 DEF RemoteInv, NewWindowsDiffer, Opened
<1>27. UntaggedWindows'
  BY <1>7 DEF RemoteInv, UntaggedWindows
<1>28. TaggedWindows'
  BY <1>7 DEF RemoteInv, TaggedWindows, Adds
<1>29. LeftWindows'
  BY DEF RemoteInv, LeftWindows
<1>30. OneWindow'
  BY DEF RemoteInv, OneWindow
<1>31. ShownWindows'
  BY DEF RemoteInv, ShownWindows
<1>32. ASSUME NEW u \in Requests \ {q}, Busy(u) PROVE Windowed(u)'
  <2>1. request'[u] = request[u] /\ Windowed(u) /\ IsRequest(request[u])
    BY <1>3, <1>32 DEF RequestsFit, RequestTypes
  <2>2. NothingYet(u)' /\ NoWindow(u)' /\ DueWindows(u)'
    BY <1>32, <2>1 DEF Windowed, NothingYet, NoWindow, DueWindows, Adds, IsRequest
  <2>3. MadeWindows(u)'
    BY <1>32, <2>1 DEF Windowed, MadeWindows
  <2>4. NewWindow(u)'
    BY <1>32, <2>1 DEF Windowed, NewWindow, Opened, OpenedFor, IsRequest
  <2>5. WindowToTag(u)'
    BY <1>7, <1>32, <2>1 DEF Windowed, WindowToTag, NewWindow, Opened, OpenedFor
  <2>6. FoundWindows(u)'
    BY <1>32, <2>1 DEF Windowed, FoundWindows, IsRequest
  <2> QED BY <2>2, <2>3, <2>4, <2>5, <2>6 DEF Windowed
<1>33. Windowed(q)'
  <2>1. NothingYet(q)' /\ NoWindow(q)' /\ DueWindows(q)'
    BY <1>7 DEF Windowed, NothingYet, NoWindow, DueWindows, Adds, IsRequest
  <2>2. MadeWindows(q)'
    BY <1>7, <1>10 DEF Windowed, MadeWindows
  <2>3. NewWindow(q)'
    <3>1. \A x \in Remote!live : p \notin both => tag[x] # p
      BY DEF Windowed, FoundWindows
    <3>2. \A s \in request[q].panes : OpenedFor(q, s)' <=> s = p
      BY <1>7, <1>10 DEF OpenedFor
    <3>3. p \in request[q].panes /\ p \in Panes
      BY DEF IsRequest
    <3> QED BY <1>7, <3>1, <3>2, <3>3 DEF NewWindow
  <2>4. WindowToTag(q)'
    BY <1>7 DEF WindowToTag
  <2>5. FoundWindows(q)'
    BY <1>7 DEF Windowed, FoundWindows, IsRequest
  <2> QED BY <2>1, <2>2, <2>3, <2>4, <2>5 DEF Windowed
<1>34. RequestsFit'
  BY <1>32, <1>33 DEF RequestsFit
<1> QED BY <1>21, <1>22, <1>23, <1>24, <1>25, <1>26, <1>27, <1>28, <1>29, <1>30, <1>31,
           <1>34 DEF RemoteInv

\* The window gets the tag of the pane it was opened for.
LEMMA TagsWindowStep ==
  ASSUME RemoteInv, NEW q \in Requests, Remote!TagsWindow(q)
  PROVE  RemoteInv'
<1>1. request[q].at = "tagging" /\ request[q].window \in Remote!live
  BY DEF Remote!TagsWindow, Remote!At
<1>2. Busy(q) /\ IsRequest(request[q]) /\ Suits(request[q]) /\ Windowed(q)
  BY <1>1, BusyRequest
<1>3. RemoteTypes /\ RequestTypes /\ RequestsFit
  BY DEF RemoteInv
<1>4. PICK w : w = request[q].window
  OBVIOUS
<1>5. PICK p : p = CHOOSE s \in request[q].panes : /\ request[q].made[s] # None
                                                  /\ request[q].made[s].window = w
  OBVIOUS
<1>6. /\ p \in request[q].panes /\ OpenedFor(q, p)
      /\ \A s \in request[q].panes : OpenedFor(q, s) => s = p
      /\ \A x \in Remote!live : p \notin both /\ tag[x] = p => x = w
  <2>1. Opened(q) /\ NewWindow(q)
    BY <1>1, <1>2 DEF Opened, Windowed
  <2>2. p \in request[q].panes /\ OpenedFor(q, p)
    BY <1>4, <1>5, <2>1 DEF NewWindow, OpenedFor
  <2> QED BY <1>4, <2>1, <2>2 DEF NewWindow
<1>7. tag' = [tag EXCEPT ![w] = p]
  BY <1>4, <1>5 DEF Remote!TagsWindow
<1>8. /\ Remote!live' = Remote!live /\ w \in Remote!live /\ tag'[w] = p /\ tag[w] = None
      /\ \A x \in Remote!live \ {w} : tag'[x] = tag[x]
  <2>1. Remote!live' = Remote!live
    BY <1>7 DEF Remote!live
  <2>2. DOMAIN tag = Remote!live
    BY DEF Remote!live
  <2>3. tag[w] = None
    BY <1>1, <1>2, <1>4 DEF Windowed, WindowToTag
  <2> QED BY <1>1, <1>4, <1>7, <2>1, <2>2, <2>3
<1>9. PICK r : r = [request[q] EXCEPT !.at = "sizing"] /\ Remote!Becomes(q, r)
  BY DEF Remote!TagsWindow, Remote!Goes
<1>10. request'[q] = r /\ OthersRest(q) /\ request' = [u \in Requests |-> request'[u]]
  BY <1>3, <1>9, Becoming
<1>11. /\ r.at = "sizing" /\ r.op = request[q].op /\ r.panes = request[q].panes
       /\ r.todo = request[q].todo /\ r.client = request[q].client
       /\ r.keep = request[q].keep /\ r.found = request[q].found /\ r.due = request[q].due
       /\ r.window = w /\ r.made = request[q].made
       /\ r = [at |-> r.at, op |-> r.op, panes |-> r.panes, todo |-> r.todo,
               client |-> r.client, keep |-> r.keep, found |-> r.found, due |-> r.due,
               window |-> r.window, made |-> r.made]
  BY <1>2, <1>4, <1>9 DEF IsRequest
<1>12. IsRequest(r)
  BY <1>2, <1>4, <1>11 DEF IsRequest
<1>13. Suits(r)
  BY <1>1, <1>2, <1>4, <1>11 DEF Suits, Closing, Adding
<1>14. UNCHANGED <<tabs, panes, both, client, left>>
  BY DEF Remote!TagsWindow, Remote!registry, Remote!connections, Remote!history
<1>15. p \in Panes /\ Uses(q, p) /\ p \notin request[q].todo /\ None \notin Panes
  BY <1>1, <1>2, <1>6, NoSessionAssumption DEF IsRequest, Uses, Suits, OpenedFor
<1>16. tag' \in [Remote!live' -> Panes \cup {None}]
  BY <1>3, <1>7, <1>8, <1>15 DEF RemoteTypes
<1>17. /\ Busy(q)' /\ (Adds(q)' <=> Adds(q)) /\ Opened(q) /\ Opened(q)'
       /\ (request'[q].op = "closeTab" <=> request[q].op = "closeTab")
  BY <1>1, <1>10, <1>11 DEF Busy, Remote!Idle, Adds, Opened
<1>18. /\ \A u \in Requests \ {q} : request'[u] = request[u]
       /\ \A u \in Requests : Busy(u)' <=> Busy(u)
  BY <1>2, <1>10, <1>17 DEF OthersRest, Busy
<1>19. \A u \in Requests : \A s : Uses(u, s)' <=> Uses(u, s)
  BY <1>10, <1>11, <1>18 DEF Uses
<1>20. \A u \in Requests \ {q} : (Uses(u, p) => p \in both)
                                 /\ (Opened(u) => request[u].window # w)
  BY <1>4, <1>15, <1>17 DEF RemoteInv, UsesAlone, NewWindowsDiffer
<1>21. w \notin left /\ \A u \in Requests : Busy(u) => w \notin request[u].due
  BY <1>1, <1>2, <1>4 DEF Windowed, WindowToTag
<1> USE <1>1, <1>2, <1>4, <1>8, <1>11, <1>14, <1>15, <1>17, <1>18, <1>19, <1>20, <1>21
<1>22. RemoteTypes'
  BY <1>3, <1>16 DEF RemoteTypes
<1>23. RequestTypes'
  BY <1>3, <1>10, <1>12 DEF RequestTypes
<1>24. RequestsSuit'
  BY <1>10, <1>13 DEF RemoteInv, RequestsSuit
<1>25. UsesAlone'
  BY DEF RemoteInv, UsesAlone
<1>26. PanesOfRequests'
  BY <1>10 DEF RemoteInv, PanesOfRequests, Adds
<1>27. NewWindowsDiffer'
  BY <1>10 DEF RemoteInv, NewWindowsDiffer, Opened
<1>28. UntaggedWindows'
  BY <1>10 DEF RemoteInv, UntaggedWindows
<1>29. TaggedWindows'
  BY <1>10 DEF RemoteInv, TaggedWindows, PanesOfRequests, Adds
<1>30. LeftWindows'
  BY DEF RemoteInv, LeftWindows
<1>31. OneWindow'
  BY <1>6 DEF RemoteInv, OneWindow
<1>32. ShownWindows'
  BY <1>3 DEF RemoteInv, ShownWindows
<1>33. ASSUME NEW u \in Requests \ {q}, Busy(u) PROVE Windowed(u)'
  <2>1. request'[u] = request[u] /\ Windowed(u) /\ IsRequest(request[u])
    BY <1>3, <1>33 DEF RequestsFit, RequestTypes
  <2>2. \A s \in request[u].panes : s \in Panes /\ (s = p => p \in both)
    BY <1>33, <2>1 DEF Uses, IsRequest
  <2>3. NothingYet(u)'
    <3>1. Adds(u) => \A s \in request[u].panes : s # p
      BY <1>33, <2>2 DEF RemoteInv, PanesOfRequests, Uses
    <3>2. Adds(u)' = Adds(u) /\ request[u].todo \subseteq request[u].panes
      BY <2>1 DEF Adds, IsRequest
    <3>3. \A s, x : s # p /\ x \in Remote!live /\ tag[x] # s => tag'[x] # s
      BY <1>8
    <3> QED BY <2>1, <3>1, <3>2, <3>3 DEF Windowed, NothingYet
  <2>4. NoWindow(u)' /\ DueWindows(u)'
    BY <1>33, <2>1, <2>2 DEF Windowed, NoWindow, DueWindows
  <2>5. MadeWindows(u)'
    BY <1>33, <2>1, <2>2 DEF Windowed, MadeWindows, Opened
  <2>6. NewWindow(u)'
    BY <1>33, <2>1, <2>2 DEF Windowed, NewWindow, Opened, OpenedFor
  <2>7. WindowToTag(u)'
    BY <1>10, <1>33, <2>1, <2>2 DEF Windowed, WindowToTag, Opened
  <2>8. FoundWindows(u)'
    BY <1>33, <2>1, <2>2 DEF Windowed, FoundWindows, IsRequest
  <2> QED BY <2>3, <2>4, <2>5, <2>6, <2>7, <2>8 DEF Windowed
<1>34. Windowed(q)'
  <2>1. NothingYet(q)' /\ NoWindow(q)' /\ DueWindows(q)' /\ WindowToTag(q)'
    BY <1>10 DEF Windowed, NothingYet, NoWindow, DueWindows, WindowToTag, Adds
  <2>2. MadeWindows(q)'
    BY <1>6, <1>10 DEF Windowed, MadeWindows, OpenedFor
  <2>3. NewWindow(q)'
    BY <1>6, <1>10 DEF Windowed, NewWindow, OpenedFor
  <2>4. FoundWindows(q)'
    BY <1>10 DEF Windowed, FoundWindows
  <2> QED BY <2>1, <2>2, <2>3, <2>4 DEF Windowed
<1>35. RequestsFit'
  BY <1>33, <1>34 DEF RequestsFit
<1> QED BY <1>22, <1>23, <1>24, <1>25, <1>26, <1>27, <1>28, <1>29, <1>30, <1>31, <1>32,
           <1>35 DEF RemoteInv

\* A request that ends: what it leaves to nobody is left, and nothing else.
LEMMA EndsWell ==
  ASSUME RemoteInv, NEW q \in Requests, Busy(q), Remote!Becomes(q, Remote!Idle),
         WindowsClose, UNCHANGED both, client' \in Nat, tabs' \subseteq Panes,
         panes' \in [Panes -> RemoteSession \cup {None}],
         \A p \in tabs' \ tabs : Uses(q, p) /\ Adds(q),
         \A p \in tabs \ tabs' : Uses(q, p),
         \A p \in Panes : panes'[p] # None /\ panes'[p].window \in Remote!live =>
           tag[panes'[p].window] = p,
         left \subseteq left',
         \A w \in left' \ left :
           /\ w \in Remote!live
           /\ \/ tag[w] = None /\ Opened(q) /\ w = request[q].window
              \/ Uses(q, tag[w]) /\ tag[w] \notin tabs',
         request[q].at = "tagging" /\ request[q].window \in Remote!live' =>
           request[q].window \in left',
         \A p \in Panes \ (both \cup tabs'), w \in Remote!live' :
           Uses(q, p) /\ tag[w] = p => w \in left'
  PROVE  RemoteInv'
<1>1. RemoteTypes /\ RequestTypes
  BY DEF RemoteInv
<1>2. /\ request'[q] = Remote!Idle /\ OthersRest(q)
      /\ request' = [u \in Requests |-> request'[u]]
  BY <1>1, Becoming
<1>3. \A u \in Requests \ {q} : request'[u] = request[u] /\ (Busy(u)' <=> Busy(u))
                                /\ \A p : Uses(u, p)' <=> Uses(u, p)
  BY <1>2 DEF OthersRest, Busy, Uses
<1>4. ~Busy(q)' /\ ~Opened(q)' /\ \A p : ~Uses(q, p)'
  BY <1>2 DEF Busy, Uses, Opened, Remote!Idle
<1>5. \A p : Uses(q, p) => p \in Panes /\ \A u \in Requests \ {q} : Uses(u, p) => p \in both
  BY <1>1 DEF RemoteInv, UsesAlone, Uses, RequestTypes, IsRequest
<1>6. \A w \in Remote!live' : w \in Remote!live /\ tag'[w] = tag[w]
  BY DEF WindowsClose
<1>7. None \notin Panes
  BY NoSessionAssumption
<1> USE <1>3, <1>4, <1>5, <1>6, <1>7
<1>8. RemoteTypes'
  BY <1>1 DEF RemoteTypes, WindowsClose
<1>9. RequestTypes'
  BY <1>1, <1>2 DEF RequestTypes
<1>10. RequestsSuit'
  BY DEF RemoteInv, RequestsSuit
<1>11. UsesAlone'
  BY DEF RemoteInv, UsesAlone
<1>12. PanesOfRequests'
  <2> SUFFICES ASSUME NEW u \in Requests, NEW p \in Panes, Uses(u, p)'
               PROVE  /\ Adds(u)' => p \notin tabs' /\ p \notin both'
                      /\ request'[u].op = "closeTab" => p \notin tabs'
                      /\ p \in both' \cup tabs' \/ Adds(u)' \/ request'[u].op = "closeTab"
    BY DEF PanesOfRequests
  <2>1. u # q /\ Uses(u, p) /\ request'[u] = request[u]
    OBVIOUS
  <2>2. Uses(q, p) => p \in both /\ ~Adds(u) /\ ~Adds(q)
    BY <2>1 DEF RemoteInv, PanesOfRequests
  <2> QED BY <2>1, <2>2 DEF RemoteInv, PanesOfRequests, Adds
<1>13. NewWindowsDiffer'
  BY DEF RemoteInv, NewWindowsDiffer, Opened
<1>14. UntaggedWindows'
  BY DEF RemoteInv, UntaggedWindows
<1>15. TaggedWindows'
  BY DEF RemoteInv, TaggedWindows, Adds
<1>16. LeftWindows'
  <2> SUFFICES ASSUME NEW w \in left' \cap Remote!live', tag[w] \notin both
               PROVE  tag[w] \notin tabs' /\ \A u \in Requests : ~Uses(u, tag[w])'
    BY DEF LeftWindows
  <2>1. CASE w \in left
    BY <2>1 DEF RemoteInv, LeftWindows
  <2>2. CASE w \notin left
    <3>1. tag[w] \in Panes => Uses(q, tag[w]) /\ tag[w] \notin tabs'
      BY <2>2
    <3>2. tag[w] \notin Panes => tag[w] \notin tabs' /\ \A u \in Requests : ~Uses(u, tag[w])
      BY <1>1 DEF Uses, RequestTypes, IsRequest
    <3> QED BY <3>1, <3>2
  <2> QED BY <2>1, <2>2
<1>17. OneWindow'
  BY DEF RemoteInv, OneWindow
<1>18. ShownWindows'
  BY DEF ShownWindows
<1>19. RequestsFit'
  <2>1. SharedGrows
    BY DEF SharedGrows
  <2>2. ASSUME NEW u \in Requests \ {q}, Busy(u), request[u].at = "tagging"
        PROVE  request[u].window \notin left'
    <3>1. /\ request[u].window \in Remote!live => tag[request[u].window] = None
          /\ request[u].window \notin left
      BY <2>2 DEF RemoteInv, RequestsFit, Windowed, WindowToTag
    <3>2. Opened(q) => request[q].window # request[u].window
      BY <2>2 DEF RemoteInv, NewWindowsDiffer, Opened
    <3> QED BY <3>1, <3>2
  <2>3. \A u \in Requests \ {q} : Busy(u)' => Windowed(u)'
    BY <1>2, <2>1, <2>2, OthersStayFit
  <2> QED BY <2>3 DEF RequestsFit
<1> QED BY <1>8, <1>9, <1>10, <1>11, <1>12, <1>13, <1>14, <1>15, <1>16, <1>17, <1>18,
           <1>19 DEF RemoteInv

\* What a request is about, for the steps that end it.
LEMMA EndingRequest ==
  ASSUME RemoteInv, NEW q \in Requests, request[q].at # "idle"
  PROVE  /\ Busy(q) /\ RemoteTypes /\ IsRequest(request[q]) /\ Suits(request[q])
         /\ Windowed(q) /\ \A p : Uses(q, p) <=> p \in request[q].panes
         /\ \A p \in request[q].panes :
              /\ p \in Panes /\ (Adds(q) => p \notin tabs /\ p \notin both)
              /\ request[q].op = "closeTab" => p \notin tabs
              /\ p \in both \cup tabs \/ Adds(q) \/ request[q].op = "closeTab"
              /\ p \notin both => \A w, x \in Remote!live : tag[w] = p /\ tag[x] = p => w = x
<1>1. Busy(q) /\ IsRequest(request[q]) /\ Suits(request[q]) /\ Windowed(q)
  BY BusyRequest
<1>2. \A p : Uses(q, p) <=> p \in request[q].panes
  BY <1>1 DEF Uses
<1>3. \A p \in request[q].panes : p \in Panes
  BY <1>1 DEF IsRequest
<1>4. RemoteTypes /\ PanesOfRequests /\ OneWindow
  BY DEF RemoteInv
<1> QED BY <1>1, <1>2, <1>3, <1>4 DEF PanesOfRequests, OneWindow

LEMMA FailsStep ==
  ASSUME RemoteInv, NEW q \in Requests, Remote!Fails(q)
  PROVE  RemoteInv'
<1>1. /\ request[q].at \in {"connecting", "listing", "starting", "tagging", "sizing"}
      /\ request[q].at = "starting" => request[q].todo # {}
  BY DEF Remote!Fails, Remote!CutShort
<1>2. /\ Remote!Becomes(q, Remote!Idle) /\ UNCHANGED <<tabs, panes, both, client, tag>>
      /\ left' = left \cup (({request[q].window} \cap Remote!live) \ Remote!Tagged(tabs))
  BY DEF Remote!Fails, Remote!registry, Remote!connections
<1>3. /\ Busy(q) /\ RemoteTypes /\ IsRequest(request[q]) /\ Suits(request[q])
      /\ Windowed(q) /\ \A p : Uses(q, p) <=> p \in request[q].panes
      /\ \A p \in request[q].panes :
           /\ p \in Panes /\ (Adds(q) => p \notin tabs /\ p \notin both)
           /\ p \in both \cup tabs \/ Adds(q) \/ request[q].op = "closeTab"
  BY <1>1, EndingRequest
<1>4. WindowsClose /\ Remote!live' = Remote!live
  BY <1>2, <1>3, SameWindows
<1>5. \A w \in left' \ left : /\ w \in Remote!live /\ w = request[q].window
                              /\ tag[w] \notin tabs
  BY <1>2 DEF Remote!Tagged
<1>6. ASSUME NEW w \in left' \ left
      PROVE  \/ tag[w] = None /\ Opened(q) /\ w = request[q].window
             \/ Uses(q, tag[w]) /\ tag[w] \notin tabs'
  <2>1. w \in Remote!live /\ w = request[q].window /\ tag[w] \notin tabs /\ w # 0
    BY <1>3, <1>5, <1>6 DEF RemoteTypes, Windows
  <2>2. Opened(q)
    BY <1>1, <1>3, <2>1 DEF Suits, Opened
  <2>3. CASE request[q].at = "tagging"
    BY <1>3, <2>1, <2>2, <2>3 DEF Windowed, WindowToTag
  <2>4. CASE request[q].at # "tagging"
    <3>1. PICK p \in request[q].panes : OpenedFor(q, p)
      BY <1>3, <2>2 DEF Windowed, NewWindow
    <3>2. tag[w] = p
      BY <1>3, <2>1, <2>4, <3>1 DEF Windowed, MadeWindows, OpenedFor
    <3> QED BY <1>2, <1>3, <2>1, <3>2
  <2> QED BY <2>3, <2>4
<1>7. request[q].at = "tagging" /\ request[q].window \in Remote!live =>
        request[q].window \in left'
  <2>1. None \notin tabs
    BY <1>3, NoSessionAssumption DEF RemoteTypes
  <2> QED BY <1>2, <1>3, <2>1 DEF Windowed, WindowToTag, Remote!Tagged
<1>8. ASSUME NEW p \in Panes \ (both \cup tabs), NEW w \in Remote!live, Uses(q, p), tag[w] = p
      PROVE  w \in left'
  <2>1. Adds(q) /\ \A s \in request[q].panes : s = p
    BY <1>1, <1>3, <1>8 DEF Suits, Closing, Adding, Adds
  <2>2. Opened(q)
    <3>1. p \notin request[q].todo
      BY <1>3, <1>8, <2>1 DEF Windowed, NothingYet
    <3> QED BY <1>1, <1>3, <1>8, <2>1, <3>1 DEF Suits, Opened, IsRequest
  <2>3. w = request[q].window
    BY <1>3, <1>8, <2>1, <2>2 DEF Windowed, NewWindow
  <2> QED BY <1>2, <1>8, <2>3 DEF Remote!Tagged
<1> QED BY <1>2, <1>3, <1>4, <1>5, <1>6, <1>7, <1>8, EndsWell
    DEF RemoteTypes, RemoteInv, ShownWindows

LEMMA InstallsStep ==
  ASSUME RemoteInv, NEW q \in Requests, Remote!Installs(q)
  PROVE  RemoteInv'
<1>1. request[q].at = "installing"
  BY DEF Remote!Installs, Remote!At
<1>2. PICK adds : adds = IF Adds(q) THEN request[q].panes ELSE {}
  OBVIOUS
<1>3. PICK P \in SUBSET request[q].panes :
        /\ \A p \in P : request[q].made[p] # None
        /\ panes' = [p \in Panes |-> IF p \in P THEN request[q].made[p] ELSE panes[p]]
  BY DEF Remote!Installs, Remote!Shows, Remote!Made
<1>4. PICK W : Remote!Close(W)
  BY DEF Remote!Installs
<1>5. /\ Remote!Becomes(q, Remote!Idle) /\ UNCHANGED <<both, client, left>>
      /\ tabs' = tabs \cup adds
  BY <1>2 DEF Remote!Installs, Remote!connections, Remote!history, Adds, Adding
<1>6. /\ Busy(q) /\ RemoteTypes /\ IsRequest(request[q]) /\ Suits(request[q])
      /\ Windowed(q) /\ \A p : Uses(q, p) <=> p \in request[q].panes
      /\ \A p \in request[q].panes :
           p \in Panes /\ (p \in both \cup tabs \/ Adds(q) \/ request[q].op = "closeTab")
  BY <1>1, EndingRequest
<1>7. WindowsClose
  BY <1>4, <1>6, ClosingWindows
<1>8. panes' \in [Panes -> RemoteSession \cup {None}]
  BY <1>3, <1>6 DEF RemoteTypes, IsRequest
<1>9. ASSUME NEW p \in Panes, panes'[p] # None, panes'[p].window \in Remote!live
      PROVE  tag[panes'[p].window] = p
  <2>1. CASE p \in P
    <3>1. panes'[p] = request[q].made[p] /\ p \in request[q].panes
      BY <1>3, <2>1
    <3> QED BY <1>1, <1>6, <1>9, <3>1 DEF Windowed, MadeWindows
  <2>2. CASE p \notin P
    <3>1. panes'[p] = panes[p]
      BY <1>3, <2>2
    <3> QED BY <1>9, <3>1 DEF RemoteInv, ShownWindows
  <2> QED BY <2>1, <2>2
<1>10. /\ tabs' \subseteq Panes /\ \A p \in tabs' \ tabs : Uses(q, p) /\ Adds(q)
       /\ \A p \in Panes \ (both \cup tabs') : ~Uses(q, p)
  BY <1>1, <1>2, <1>5, <1>6 DEF RemoteTypes, Suits, Closing
<1> QED BY <1>1, <1>5, <1>6, <1>7, <1>8, <1>9, <1>10, EndsWell DEF RemoteTypes

LEMMA RefusesTabStep ==
  ASSUME RemoteInv, NEW q \in Requests, Remote!RefusesTab(q)
  PROVE  RemoteInv'
<1>1. request[q].at = "installing" /\ request[q].op = "create" /\ Adds(q)
  BY DEF Remote!RefusesTab, Remote!At, Adds, Adding
<1>2. PICK killed :
        /\ Remote!Close(killed)
        /\ left' = left \cup (Remote!Tagged(request[q].panes) \ killed)
  BY DEF Remote!RefusesTab
<1>3. Remote!Becomes(q, Remote!Idle) /\ UNCHANGED <<tabs, panes, both, client>>
  BY DEF Remote!RefusesTab, Remote!registry, Remote!connections
<1>4. /\ Busy(q) /\ RemoteTypes /\ \A p : Uses(q, p) <=> p \in request[q].panes
      /\ \A p \in request[q].panes : p \in Panes /\ p \notin tabs
  BY <1>1, EndingRequest
<1>5. WindowsClose /\ Remote!live' = Remote!live \ killed
  BY <1>2, <1>4, ClosingWindows
<1>6. /\ \A w \in left' \ left : w \in Remote!live /\ tag[w] \in request[q].panes
      /\ \A w \in Remote!live' : tag[w] \in request[q].panes => w \in left'
  BY <1>2, <1>5 DEF Remote!Tagged
<1> QED BY <1>1, <1>2, <1>3, <1>4, <1>5, <1>6, EndsWell DEF RemoteTypes, RemoteInv, ShownWindows

LEMMA TerminatesTabStep ==
  ASSUME RemoteInv, NEW q \in Requests, NEW p \in Panes, request[q].op = "closeTab",
         Remote!Terminates(q, p)
  PROVE  RemoteInv'
<1>1. request[q].at = "terminating" /\ p \in request[q].panes
  BY DEF Remote!Terminates, Remote!At
<1>2. PICK killed : killed = Remote!Killed(request[q].made[p])
  OBVIOUS
<1>3. /\ Remote!Close(killed) /\ Remote!Becomes(q, Remote!Idle)
      /\ left' = left \cup Remote!LeftBehind(killed, p)
      /\ UNCHANGED <<tabs, panes, both, client>>
  BY <1>2 DEF Remote!Terminates, Remote!registry, Remote!connections
<1>4. /\ Busy(q) /\ RemoteTypes /\ IsRequest(request[q]) /\ Suits(request[q])
      /\ Windowed(q) /\ (\A s : Uses(q, s) <=> s \in request[q].panes) /\ p \notin tabs
      /\ p \notin both => \A w, x \in Remote!live : tag[w] = p /\ tag[x] = p => w = x
  BY <1>1, EndingRequest
<1>5. \A s \in request[q].panes : s = p
  BY <1>1, <1>4 DEF Suits, Closing
<1>6. WindowsClose /\ Remote!live' = Remote!live \ killed
  BY <1>3, <1>4, ClosingWindows
<1>7. \A w \in left' \ left : w \in Remote!live /\ tag[w] = p
  BY <1>3 DEF Remote!LeftBehind, Remote!Tagged
<1>8. ASSUME NEW w \in Remote!live', tag[w] = p, p \notin both PROVE w \in left'
  <2>1. CASE killed \subseteq {0}
    BY <1>3, <1>6, <1>8, <2>1 DEF Remote!LeftBehind, Remote!Tagged, Remote!SignIn
  <2>2. CASE ~(killed \subseteq {0})
    <3>1. /\ request[q].made[p] # None /\ killed = {request[q].made[p].window}
          /\ request[q].made[p].window \in Remote!live
      BY <1>2, <2>2 DEF Remote!Killed, Remote!Ended, Remote!SignIn
    <3>2. tag[request[q].made[p].window] = p
      BY <1>1, <1>4, <3>1 DEF Windowed, MadeWindows
    <3> QED BY <1>4, <1>6, <1>8, <3>1, <3>2
  <2> QED BY <2>1, <2>2
<1> QED BY ZenonT(60), <1>1, <1>3, <1>4, <1>5, <1>6, <1>7, <1>8, EndsWell
    DEF RemoteTypes, RemoteInv, ShownWindows

LEMMA RemovesPaneStep ==
  ASSUME RemoteInv, NEW q \in Requests, NEW p \in Panes, Remote!RemovesPane(q, p)
  PROVE  RemoteInv'
<1>1. request[q].at = "removing" /\ p \in request[q].panes
  BY DEF Remote!RemovesPane, Remote!At
<1>2. /\ Remote!Becomes(q, Remote!Idle) /\ UNCHANGED <<both, client, tag>>
      /\ left' = left \cup Remote!LeftBehind({request[q].window}, p)
      /\ tabs' = tabs \ {p} /\ panes' = [panes EXCEPT ![p] = None]
  BY DEF Remote!RemovesPane, Remote!connections
<1>3. /\ Busy(q) /\ RemoteTypes /\ Suits(request[q]) /\ Windowed(q)
      /\ \A s : Uses(q, s) <=> s \in request[q].panes
  BY <1>1, EndingRequest
<1>4. \A s \in request[q].panes : s = p
  BY <1>1, <1>3 DEF Suits, Closing
<1>5. WindowsClose /\ Remote!live' = Remote!live
  BY <1>2, <1>3, SameWindows
<1>6. /\ panes' \in [Panes -> RemoteSession \cup {None}]
      /\ \A s \in Panes : panes'[s] = None \/ panes'[s] = panes[s]
  BY <1>2, <1>3 DEF RemoteTypes
<1>7. \A w \in left' \ left : w \in Remote!live /\ tag[w] = p
  BY <1>2 DEF Remote!LeftBehind, Remote!Tagged
<1>8. ASSUME NEW w \in Remote!live, tag[w] = p, p \notin both PROVE w \in left'
  <2>1. request[q].window = 0
    BY <1>1, <1>3, <1>8 DEF Windowed, NoWindow
  <2> QED BY <1>2, <1>8, <2>1 DEF Remote!LeftBehind, Remote!Tagged, Remote!SignIn
<1>9. /\ tabs' \subseteq tabs /\ p \notin tabs' /\ left \subseteq left'
      /\ \A s \in tabs \ tabs' : s = p
  BY <1>2
<1>10. Remote!Becomes(q, Remote!Idle) /\ UNCHANGED <<both, client>>
  BY <1>2
<1> QED BY <1>1, <1>3, <1>4, <1>5, <1>6, <1>7, <1>8, <1>9, <1>10, EndsWell
    DEF RemoteTypes, RemoteInv, ShownWindows

LEMMA close_remote_clientsStep ==
  ASSUME RemoteInv, NEW q \in Requests, Remote!close_remote_clients(q)
  PROVE  RemoteInv'
<1>1. request[q].at = "closing"
  BY DEF Remote!close_remote_clients, Remote!At
<1>2. /\ Remote!Becomes(q, Remote!Idle) /\ UNCHANGED <<tabs, panes, both, tag, left>>
      /\ client' = 0
  BY DEF Remote!close_remote_clients, Remote!registry, Remote!history
<1>3. /\ Busy(q) /\ RemoteTypes /\ Suits(request[q])
      /\ \A p : Uses(q, p) <=> p \in request[q].panes
      /\ \A p \in request[q].panes :
           p \in both \cup tabs \/ Adds(q) \/ request[q].op = "closeTab"
  BY <1>1, EndingRequest
<1>4. WindowsClose
  BY <1>2, <1>3, SameWindows
<1>5. \A p \in Panes \ (both \cup tabs') : ~Uses(q, p)
  BY <1>1, <1>2, <1>3 DEF Suits, Adds, Adding
<1> QED BY <1>1, <1>2, <1>3, <1>4, <1>5, EndsWell DEF RemoteTypes, RemoteInv, ShownWindows

\* Windows may close at any time.
LEMMA WindowsMayClose ==
  ASSUME RemoteInv, WindowsClose, UNCHANGED <<tabs, panes, client, request, left, both>>
  PROVE  RemoteInv'
<1>1. \A x \in Remote!live' : x \in Remote!live /\ tag'[x] = tag[x]
  BY DEF WindowsClose
<1>2. \A u : (Busy(u)' <=> Busy(u)) /\ (Adds(u)' <=> Adds(u)) /\ \A p : Uses(u, p)' <=> Uses(u, p)
  BY DEF Busy, Adds, Uses
<1> USE <1>1, <1>2
<1>3. RemoteTypes'
  BY DEF RemoteInv, RemoteTypes, WindowsClose
<1>4. RequestTypes' /\ RequestsSuit'
  BY DEF RemoteInv, RequestTypes, RequestsSuit
<1>5. UsesAlone' /\ PanesOfRequests'
  BY DEF RemoteInv, UsesAlone, PanesOfRequests
<1>6. NewWindowsDiffer'
  BY DEF RemoteInv, NewWindowsDiffer, Opened
<1>7. UntaggedWindows' /\ TaggedWindows'
  BY DEF RemoteInv, UntaggedWindows, TaggedWindows
<1>8. LeftWindows'
  BY DEF RemoteInv, LeftWindows
<1>9. OneWindow'
  BY DEF RemoteInv, OneWindow
<1>10. ShownWindows'
  BY DEF RemoteInv, ShownWindows
<1>11. RequestsFit'
  <2>1. ASSUME NEW u \in Requests, Busy(u) PROVE Windowed(u)'
    <3>1. Windowed(u)
      BY <2>1 DEF RemoteInv, RequestsFit
    <3>2. NothingYet(u)' /\ NoWindow(u)'
      BY <3>1 DEF Windowed, NothingYet, NoWindow
    <3>3. MadeWindows(u)'
      BY <3>1 DEF Windowed, MadeWindows
    <3>4. NewWindow(u)'
      BY <3>1 DEF Windowed, NewWindow, Opened, OpenedFor
    <3>5. WindowToTag(u)' /\ FoundWindows(u)'
      BY <3>1 DEF Windowed, WindowToTag, FoundWindows
    <3>6. DueWindows(u)'
      BY <3>1 DEF Windowed, DueWindows
    <3> QED BY <3>2, <3>3, <3>4, <3>5, <3>6 DEF Windowed
  <2> QED BY <2>1 DEF RequestsFit
<1> QED BY <1>3, <1>4, <1>5, <1>6, <1>7, <1>8, <1>9, <1>10, <1>11 DEF RemoteInv

LEMMA RemoteStays ==
  ASSUME RemoteInv, UNCHANGED <<tabs, panes, client, tag, request, left, both>>
  PROVE  RemoteInv'
<1>1. WindowsClose
  BY SameWindows DEF RemoteInv
<1> QED BY <1>1, WindowsMayClose

LEMMA ConnectionLostStep ==
  ASSUME RemoteInv, NEW c, Remote!ConnectionLost(c)
  PROVE  RemoteInv'
BY RemoteStays DEF Remote!ConnectionLost, Remote!registry, Remote!history

LEMMA ProgramEndsStep ==
  ASSUME RemoteInv, NEW w, Remote!ProgramEnds(w)
  PROVE  RemoteInv'
<1>1. UNCHANGED <<tabs, panes, client, request, left, both>>
  BY DEF Remote!ProgramEnds, Remote!registry, Remote!connections, Remote!history
<1>2. WindowsClose
  BY ClosingWindows DEF RemoteInv, Remote!ProgramEnds
<1> QED BY <1>1, <1>2, WindowsMayClose

\* All that no tab's pane will find is left.
LEMMA RestartsStep ==
  ASSUME RemoteInv, Remote!Restarts
  PROVE  RemoteInv'
<1>1. RemoteTypes /\ OneWindow /\ None \notin Panes
  BY NoSessionAssumption DEF RemoteInv
<1>2. /\ panes' = [p \in Panes |-> None] /\ client' = 0 /\ UNCHANGED <<tabs, tag, both>>
      /\ left' = Remote!live \ Remote!Tagged(tabs)
      /\ request' = [q \in Requests |-> Remote!Idle]
  BY DEF Remote!Restarts, Remote!NoSessions
<1>3. \A q \in Requests : request'[q] = Remote!Idle
  BY <1>2
<1>4. \A q \in Requests : ~Busy(q)' /\ ~Opened(q)' /\ \A p : ~Uses(q, p)'
  BY <1>3 DEF Busy, Uses, Opened, Remote!Idle
<1>5. Remote!live' = Remote!live
  BY <1>2 DEF Remote!live
<1>6. RemoteTypes'
  BY <1>1, <1>2, <1>5 DEF RemoteTypes
<1>7. RequestTypes' /\ RequestsSuit' /\ UsesAlone' /\ PanesOfRequests' /\ NewWindowsDiffer'
      /\ RequestsFit'
  BY <1>2, <1>3, <1>4 DEF RequestTypes, RequestsSuit, UsesAlone, PanesOfRequests,
     NewWindowsDiffer, RequestsFit
<1>8. UntaggedWindows' /\ TaggedWindows' /\ LeftWindows'
  BY <1>1, <1>2, <1>4, <1>5 DEF UntaggedWindows, TaggedWindows, LeftWindows, Remote!Tagged,
     RemoteTypes
<1>9. OneWindow' /\ ShownWindows'
  BY <1>1, <1>2, <1>4, <1>5 DEF OneWindow, ShownWindows
<1> QED BY <1>6, <1>7, <1>8, <1>9 DEF RemoteInv

LEMMA RemoteInit == Remote!Init => RemoteInv
<1> SUFFICES ASSUME Remote!Init PROVE RemoteInv
  OBVIOUS
<1>1. Remote!live = {} /\ tag \in [Remote!live -> Panes \cup {None}]
  BY DEF Remote!Init, Remote!live
<1>2. request = [q \in Requests |-> Remote!Idle] /\ tabs = {} /\ client = 0 /\ both = {}
      /\ panes = [p \in Panes |-> None]
  BY DEF Remote!Init, Remote!NoSessions
<1>3. \A q \in Requests : ~Busy(q) /\ ~Opened(q) /\ \A p : ~Uses(q, p)
  BY <1>2 DEF Busy, Uses, Opened, Remote!Idle
<1>4. RemoteTypes
  BY <1>1, <1>2 DEF RemoteTypes
<1>5. RequestTypes /\ RequestsSuit /\ UsesAlone /\ PanesOfRequests /\ NewWindowsDiffer
      /\ RequestsFit
  BY <1>2, <1>3 DEF RequestTypes, RequestsSuit, UsesAlone, PanesOfRequests, NewWindowsDiffer,
     RequestsFit
<1>6. UntaggedWindows /\ TaggedWindows /\ LeftWindows /\ OneWindow /\ ShownWindows
  BY <1>1 DEF UntaggedWindows, TaggedWindows, LeftWindows, OneWindow, ShownWindows
<1> QED BY <1>4, <1>5, <1>6 DEF RemoteInv

LEMMA RemoteStep == RemoteInv /\ [Remote!Next]_Remote!vars => RemoteInv'
<1> SUFFICES ASSUME RemoteInv, [Remote!Next]_Remote!vars PROVE RemoteInv'
  OBVIOUS
<1>1. ASSUME NEW q \in Requests, NEW p \in Panes,
             \/ Remote!create_workspace_tab(q, p) \/ Remote!reattach_pane(q, p)
             \/ Remote!finish_sign_in(q, p) \/ Remote!OpensWindow(q, p)
             \/ Remote!close_tab(q, p) \/ Remote!close_pane(q, p)
             \/ Remote!Terminates(q, p) \/ Remote!RemovesPane(q, p)
      PROVE  RemoteInv'
  BY <1>1, create_workspace_tabStep, reattach_paneStep, finish_sign_inStep, OpensWindowStep,
     close_tabStep, close_paneStep, TerminatesTabStep, TerminatesPaneStep, RemovesPaneStep
<1>2. ASSUME NEW q \in Requests,
             \/ Remote!reconnect_workspace(q) \/ Remote!UsesClient(q) \/ Remote!Connects(q)
             \/ Remote!InsertsClient(q) \/ Remote!SweepLists(q) \/ Remote!SweepEnds(q)
             \/ Remote!Lists(q) \/ Remote!TagsWindow(q) \/ Remote!Resizes(q)
             \/ Remote!Fails(q) \/ Remote!AsksToSignIn(q) \/ Remote!SessionsAreMade(q)
             \/ Remote!Installs(q) \/ Remote!RefusesTab(q) \/ Remote!disconnect_workspace(q)
             \/ Remote!close_remote_clients(q)
      PROVE  RemoteInv'
  BY <1>2, reconnect_workspaceStep, UsesClientStep, ConnectsStep, InsertsClientStep,
     SweepListsStep, SweepCutShortStep, SweepEndsStep, ListsStep, TagsWindowStep, ResizesStep,
     FailsStep, AsksToSignInStep, SessionsAreMadeStep, InstallsStep, RefusesTabStep,
     disconnect_workspaceStep, close_remote_clientsStep
<1>3. ASSUME NEW q \in Requests, NEW w \in 1 .. MaxWindows,
             Remote!SweepKills(q, w) \/ Remote!Attaches(q, w)
      PROVE  RemoteInv'
  BY <1>3, SweepKillsStep, AttachesStep DEF Windows
<1>4. ASSUME NEW c \in up, Remote!ConnectionLost(c) PROVE RemoteInv'
  BY <1>4, ConnectionLostStep
<1>5. ASSUME NEW w \in Remote!live, Remote!ProgramEnds(w) PROVE RemoteInv'
  BY <1>5, ProgramEndsStep
<1>6. CASE Remote!Restarts
  BY <1>6, RestartsStep
<1>7. CASE UNCHANGED Remote!vars
  BY <1>7, RemoteStays DEF Remote!vars, Remote!registry, Remote!connections, Remote!history
<1> QED BY <1>1, <1>2, <1>3, <1>4, <1>5, <1>6, <1>7 DEF Remote!Next

\* The variables of RemoteTerminals take its steps or keep their values.
LEMMA FollowsRemote == MCSpec => Remote!Spec
<1>1. MCInit => Remote!Init
  BY DEF MCInit
<1>2. ASSUME MCNext PROVE Remote!Next \/ UNCHANGED Remote!vars
  <2> USE DEF remoteVars, Remote!vars, Remote!registry, Remote!connections, Remote!history
  <2>1. CASE InstallNext
    BY <2>1 DEF InstallNext, OnInstall
  <2>2. CASE PageNext
    BY <2>2 DEF PageNext, OnPage
  <2>3. CASE CommandsNext
    BY <2>3 DEF CommandsNext, OnCommands
  <2>4. CASE RemoteNext
    <3>1. NextRequest \subseteq Requests /\ q1 \in Requests
      BY RequestsAssumption DEF NextRequest
    <3> QED BY <2>4, <3>1 DEF RemoteNext, OnRemote, Remote!Next, Remote!live
  <2>5. CASE BotsNext
    BY <2>5 DEF BotsNext, OnBots
  <2>6. CASE PasteNext
    BY <2>6 DEF PasteNext, OnPaste
  <2> QED BY <1>2, <2>1, <2>2, <2>3, <2>4, <2>5, <2>6 DEF MCNext
<1>3. UNCHANGED allVars => UNCHANGED Remote!vars
  BY DEF allVars, remoteVars, Remote!vars, Remote!registry, Remote!connections, Remote!history
<1> QED BY <1>1, <1>2, <1>3, PTL DEF MCSpec, Remote!Spec

\* spawn_ssh_sessions, sweep_closed_tab_windows, close_tab: when all is quiet a window that
\* runs on the host is the one its pane shows, or the only one it will find; the rest was out
\* of reach when its tab went.
THEOREM RemoteWindowsMatchTabsHolds == MCSpec => []RemoteWindowsMatchTabs
<1>1. RemoteInv => RemoteWindowsMatchTabs
  <2> SUFFICES ASSUME RemoteInv, \A q \in Requests : request[q] = Remote!Idle,
                      NEW w \in Remote!live \ (left \cup Remote!Tagged(both))
               PROVE  /\ tag[w] \in tabs
                      /\ IF Remote!Waits(tag[w]) \/ panes[tag[w]].window = Remote!SignIn
                         THEN \A x \in Remote!Tagged({tag[w]}) \ left : x = w
                         ELSE panes[tag[w]].window = w
    BY DEF RemoteWindowsMatchTabs, Remote!RemoteWindowsMatchTabs
  <2>1. tag[w] \in tabs \ both /\ tag[w] \in Panes
    BY DEF RemoteInv, RemoteTypes, UntaggedWindows, TaggedWindows, Busy, Uses, Remote!Tagged
  <2>2. \A x \in Remote!live : tag[x] = tag[w] => x = w
    BY <2>1 DEF RemoteInv, OneWindow
  <2>3. ASSUME ~Remote!Waits(tag[w]), panes[tag[w]].window # Remote!SignIn
        PROVE  panes[tag[w]].window = w
    <3>1. panes[tag[w]] # None /\ panes[tag[w]].window \in Remote!live
      BY <2>3 DEF Remote!Waits, Remote!Ended
    <3> QED BY <2>1, <2>2, <3>1 DEF RemoteInv, ShownWindows
  <2> QED BY <2>1, <2>2, <2>3 DEF Remote!Tagged
<1> QED BY <1>1, RemoteInit, RemoteStep, FollowsRemote, PTL DEF Remote!Spec
=============================================================================
