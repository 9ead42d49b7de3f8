----------------------------- MODULE BrowserPage -----------------------------
(***************************************************************************)
(* The address of one browser pane.  The page navigates on its own, the    *)
(* desktop reports that to the service, the service keeps the address and  *)
(* sends it back with its snapshots, and a snapshot with another address   *)
(* makes the desktop navigate the page (crates/desktop/src/browser.rs,     *)
(* session.rs, pipeline.rs, reconcile.rs;                                  *)
(* crates/session-service/src/registry/panes.rs, registry/streaming.rs).   *)
(*                                                                         *)
(* Everything the desktop does in one update of its state is one step.     *)
(* The title that is reported with the address is left out.                *)
(***************************************************************************)
EXTENDS Naturals, FiniteSets

CONSTANTS
  Urls,         \* addresses
  Blank,        \* the address the pane opens with
  None,         \* no address
  Polls,        \* cycles of poll_once: the poll loop's, a lane's follow-up
  MaxVisits,    \* bound: navigations of the page on its own
  MaxSubmits,   \* bound: addresses typed by the user
  MaxRevision   \* bound: changes of the snapshot

VARIABLES
  saved,    \* the service's snapshot: [url, revision]
  known,    \* the desktop's snapshot
  page,     \* the address the renderer shows
  load,     \* an address the renderer was asked to load
  shared,   \* BrowserShared: [url, dirty]
  view,     \* BrowserPaneView
  report,   \* the SetBrowserState call of flush_browser_state_updates
  submit,   \* the one of submit_browser_url
  poll,     \* GetUpdates calls
  visits,
  typed,    \* history: addresses typed by the user
  failed,   \* history: a report failed
  pulled    \* history: a snapshot changed the page

history == <<typed, failed, pulled>>
vars == <<saved, known, page, load, shared, view, report, submit, poll, visits,
          history>>

NoCall == [at |-> "none"]
Call(url) == [at |-> "sent", url |-> url]

(***************************************************************************)
(* The renderer                                                            *)
(***************************************************************************)
\* A link or a script leads to another page; a load under way may be dropped.
Visit(url) ==
  /\ visits < MaxVisits /\ url # page
  /\ visits' = visits + 1
  /\ page' = url /\ shared' = [url |-> url, dirty |-> TRUE]
  /\ load' \in {load, None}
  /\ UNCHANGED <<saved, known, view, report, submit, poll, history>>

\* on_address_change for a page the desktop asked for.
Loads ==
  /\ load # None
  /\ page' = load /\ load' = None
  /\ shared' = IF shared.url = load THEN shared ELSE [url |-> load, dirty |-> TRUE]
  /\ UNCHANGED <<saved, known, view, report, submit, poll, visits, history>>

(***************************************************************************)
(* The service                                                             *)
(***************************************************************************)
set_browser_state(url) ==
  /\ url # saved.url => saved.revision < MaxRevision
  /\ saved' = IF url = saved.url THEN saved
              ELSE [url |-> url, revision |-> saved.revision + 1]

\* The call runs and its answer arrives, or it fails, run or not.
ReportRuns ==
  /\ report.at = "sent"
  /\ \E answer \in {"ok", "error"} :
       /\ report' = [report EXCEPT !.at = answer]
       /\ failed' = (failed \/ answer = "error")
  /\ set_browser_state(report.url)
  /\ UNCHANGED <<known, page, load, shared, view, submit, poll, visits, typed, pulled>>

ReportFails ==
  /\ report.at = "sent" /\ report' = [report EXCEPT !.at = "error"]
  /\ failed' = TRUE
  /\ UNCHANGED <<saved, known, page, load, shared, view, submit, poll, visits, typed, pulled>>

SubmitRuns ==
  /\ submit.at = "sent" /\ submit' = [submit EXCEPT !.at = "ok"]
  /\ set_browser_state(submit.url)
  /\ UNCHANGED <<known, page, load, shared, view, report, poll, visits, history>>

SubmitFails ==
  /\ submit.at = "sent" /\ submit' = NoCall
  /\ UNCHANGED <<saved, known, page, load, shared, view, report, poll, visits, history>>

\* A snapshot is sent when the desktop has another revision.
PollRuns(p) ==
  /\ poll[p].at = "asked"
  /\ poll' = [poll EXCEPT ![p] = [at |-> "answered",
       snapshot |-> IF saved.revision = poll[p].revision THEN {} ELSE {saved}]]
  /\ UNCHANGED <<saved, known, page, load, shared, view, report, submit, visits, history>>

(***************************************************************************)
(* The desktop                                                             *)
(***************************************************************************)
\* A change that is forgotten when an earlier one is still being reported.
ObservedBetweenReports(v) ==
  IF ~shared.dirty \/ v.in_flight # None THEN v
  ELSE [v EXCEPT !.pending = IF v.synced_url = shared.url THEN None ELSE shared.url]

\* sync_browser_callback_state: the view, with what the page did meanwhile.
Observed(v) ==
  IF ~shared.dirty THEN v
  ELSE [v EXCEPT !.pending =
         IF v.in_flight # None
         THEN IF v.in_flight = shared.url THEN None ELSE shared.url
         ELSE IF v.synced_url = shared.url THEN None ELSE shared.url]

\* Whether `url` is only the renderer's own navigation coming back.
IsNavigationEcho(v, url) ==
  shared.url = url \/ v.synced_url = url \/ v.in_flight = url

\* ensure_browser_view with the snapshot's address, for a visible pane.
Navigates(v, url) == v.last_snapshot_url # url /\ ~IsNavigationEcho(v, url)
Ensured(v, url) ==
  [v EXCEPT !.last_snapshot_url = url,
            !.synced_url = IF Navigates(v, url) THEN url ELSE @]

\* flush_browser_state_updates: one report at a time.
Flushes(v) ==
  IF v.in_flight # None \/ v.pending = None
  THEN view' = v /\ UNCHANGED report
  ELSE /\ view' = [v EXCEPT !.pending = None, !.in_flight = v.pending]
       /\ report' = Call(v.pending)

pane_update_request(p) ==
  /\ poll[p] = NoCall
  /\ poll' = [poll EXCEPT ![p] = [at |-> "asked", revision |-> known.revision]]
  /\ UNCHANGED <<saved, known, page, load, shared, view, report, submit, visits, history>>

\* poll_once with its answer, or with an error.
apply_update_result(p) ==
  /\ poll[p] # NoCall /\ poll' = [poll EXCEPT ![p] = NoCall]
  /\ \E s \in {known} \cup IF poll[p].at = "answered" THEN poll[p].snapshot ELSE {},
        visible \in BOOLEAN :
       /\ known' = IF s.revision >= known.revision THEN s ELSE known
       /\ LET v == Observed(view)
          IN /\ Flushes(IF visible THEN Ensured(v, known'.url) ELSE v)
             /\ load' = IF visible /\ Navigates(v, known'.url) THEN known'.url ELSE load
             /\ pulled' = (pulled \/ (visible /\ Navigates(v, known'.url)))
  /\ shared' = [shared EXCEPT !.dirty = FALSE]
  /\ UNCHANGED <<saved, page, submit, visits, typed, failed>>

ReportEnds ==
  /\ report.at \in {"ok", "error"}
  /\ LET v == [view EXCEPT !.in_flight = None]
     IN IF report.at = "ok"
        THEN LET synced == [v EXCEPT !.synced_url = report.url,
                                     !.pending = IF @ = report.url THEN None ELSE @]
             IN IF synced.pending = None
                THEN view' = synced /\ report' = NoCall
                ELSE Flushes(synced)
        ELSE /\ view' = [v EXCEPT !.pending = IF @ = None THEN report.url ELSE @]
             /\ report' = NoCall
  /\ UNCHANGED <<saved, known, page, load, shared, submit, poll, visits, history>>

submit_browser_url(url) ==
  /\ submit = NoCall /\ Cardinality(typed) < MaxSubmits
  /\ typed' = typed \cup {url}
  /\ submit' = Call(url)
  /\ UNCHANGED <<saved, known, page, load, shared, view, report, poll, visits, failed, pulled>>

SubmitEnds ==
  /\ submit.at = "ok" /\ submit' = NoCall
  /\ load' = submit.url
  /\ UNCHANGED <<saved, known, page, shared, view, report, poll, visits, history>>

(***************************************************************************)
(* Behaviours                                                              *)
(***************************************************************************)
Init ==
  /\ saved = [url |-> Blank, revision |-> 0] /\ known = saved
  /\ page = Blank /\ load = None /\ shared = [url |-> Blank, dirty |-> FALSE]
  /\ view = [last_snapshot_url |-> Blank, synced_url |-> Blank,
             pending |-> None, in_flight |-> None]
  /\ report = NoCall /\ submit = NoCall /\ poll = [p \in Polls |-> NoCall]
  /\ visits = 0 /\ typed = {} /\ failed = FALSE /\ pulled = FALSE

Next ==
  \/ \E url \in Urls : Visit(url) \/ submit_browser_url(url)
  \/ Loads \/ ReportRuns \/ ReportFails \/ ReportEnds \/ SubmitRuns
  \/ SubmitFails \/ SubmitEnds
  \/ \E p \in Polls : pane_update_request(p) \/ PollRuns(p) \/ apply_update_result(p)

Spec == Init /\ [][Next]_vars

(***************************************************************************)
(* Properties                                                              *)
(***************************************************************************)
\* Nothing is on its way between page, desktop and service.
Quiet ==
  /\ load = None /\ ~shared.dirty /\ view.pending = None
  /\ report = NoCall /\ submit = NoCall
  /\ known = saved /\ view.last_snapshot_url = saved.url

\* Once nothing is on its way, the service has saved the address that the
\* page shows, however the page's own navigations and stale snapshots crossed
\* on the way: after a restart the pane opens what the user left
\* (flush_browser_state_updates).  Not so after a typed address, a failed
\* report or a stale snapshot that reloaded the page: each of them leaves
\* synced_url at an address the service does not have, and a page that goes
\* back there is not reported.
QuietPageIsSaved == Quiet => saved.url = page \/ typed # {} \/ failed \/ pulled

\* "Renderer navigation is persisted back through the snapshot. That echo
\* must not reload the document" (browser.rs): a snapshot never makes the
\* page load an address that the user did not type, if no report fails.
EchoNeverNavigates == [][pulled' => pulled \/ failed \/ known'.url \in typed]_vars
=============================================================================
