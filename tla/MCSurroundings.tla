--------------------------- MODULE MCSurroundings ---------------------------
(***************************************************************************)
(* What the service and the desktop have around them, side by side in one  *)
(* run: a behaviour follows an installation (UpdateInstall), a browser     *)
(* page (BrowserPage), its commands                                        *)
(* (BrowserCommands), the terminals of a remote workstation                *)
(* (RemoteTerminals), the agents of a bot (BotThreads) or a paste of files *)
(* (FilePaste).  `part` says which (with remote terminals and bots twice,  *)
(* under different bounds); the variables of the others keep their initial *)
(* values.                                                                 *)
(***************************************************************************)
EXTENDS UpdateInstall, Sequences, FiniteSetsExt, SequencesExt

CONSTANTS
  Urls, Polls, MaxVisits, MaxSubmits, MaxRevision,  \* of BrowserPage
  Callers, MaxRestarts,                             \* of BrowserCommands
  Panes, Threads, MaxShells, MaxLive,               \* of BotThreads
  Files, Places, tab1,                              \* of FilePaste
  Requests, MaxWindows, MaxClients,                 \* of RemoteTerminals
  None, Blank, url1, url2, call1, call2, p1, p2, q1, q2, f1, f2, Clip, Nowhere, h1, h2

ASSUME NoneAssumption == None \notin Urls /\ Blank \in Urls /\ None \notin {"ok", "error"}
ASSUME NowhereAssumption == Nowhere \notin Places \cup Panes
ASSUME MaxShellsAssumption == MaxShells \in Nat
ASSUME RequestsAssumption == {q1, q2} \subseteq Requests
ASSUME MaxWindowsAssumption == MaxWindows \in Nat /\ MaxClients \in Nat
ASSUME NoSessionAssumption ==
  None \notin Panes \cup [window : 0 .. MaxWindows, client : Nat, cut : BOOLEAN]

VARIABLES
  part,
  saved, known, page, load, shared, view, report, submit, poll, visits, typed, failed,
  pulled,
  queue, caller, slot, response, opened, deferred, cdp, posted, restarts, ran, skipped,
  withdrawn,
  tabs, panes, watched, client, up, tag, request, left, both,
  terminals, shell, mark, spec, running, home, agent, reports, nextShell, job, contested,
  unkilled,
  source, remote, place, expected, at, todo, late, offered, clip, staged, uploaded,
  reached, unheard, unclean

\* In every part but the installation names are interchangeable: the two
\* threads of a bot, and all the other pairs at once.
Pairs == <<url1, url2, call1, call2, p1, p2, f1, f2>>
Exchange(s) == [x \in Range(s) |-> LET i == SelectInSeq(s, LAMBDA y : y = x)
                                  IN  s[IF i % 2 = 1 THEN i + 1 ELSE i - 1]]
Keep(s) == [x \in Range(s) |-> x]
Swap == {a @@ b : a \in {Keep(Pairs), Exchange(Pairs)},
                  b \in {Keep(<<h1, h2>>), Exchange(<<h1, h2>>)}}

Page == INSTANCE BrowserPage
Commands == INSTANCE BrowserCommands WITH view <- opened
Remote == INSTANCE RemoteTerminals WITH shared <- both
Bots == INSTANCE BotThreads
  WITH Nobody <- Nowhere, tabs <- terminals, shared <- contested

\* Bounds of the bot parts: one pane with every operation, and either no kill
\* that fails or no third shell; or two panes, without exits of agents, new
\* homes and kills that fail.
BotBound ==
  IF part = "bot"
  THEN home[MaxShells] = Nowhere \/ unkilled = {}
  ELSE /\ unkilled = {} /\ reports = {}
       /\ \A t \in Threads : job[t].op # "home"

Paste == INSTANCE FilePaste

pageVars == <<saved, known, page, load, shared, view, report, submit, poll, visits,
              typed, failed, pulled>>
commandVars == <<queue, caller, slot, response, opened, deferred, cdp, posted,
                 restarts, ran, skipped, withdrawn>>
remoteVars == <<tabs, panes, watched, client, up, tag, request, left, both>>
botVars == <<terminals, shell, mark, spec, running, home, agent, reports, nextShell, job,
             contested, unkilled>>
pasteVars == <<source, remote, place, expected, at, todo, late, offered, clip, staged,
               uploaded, reached, unheard, unclean>>
allVars == <<part, vars, pageVars, commandVars, remoteVars, botVars, pasteVars>>

OnInstall(A) == /\ part = "install" /\ A
                /\ UNCHANGED <<part, pageVars, commandVars, remoteVars, botVars, pasteVars>>
OnPage(A) == /\ part = "page" /\ A
             /\ UNCHANGED <<part, vars, commandVars, remoteVars, botVars, pasteVars>>
OnCommands(A) == /\ part = "commands" /\ A
                 /\ UNCHANGED <<part, vars, pageVars, remoteVars, botVars, pasteVars>>
OnRemote(A) == /\ part \in {"remote", "overlap"} /\ A
               /\ UNCHANGED <<part, vars, pageVars, commandVars, botVars, pasteVars>>
OnBots(A) == /\ part \in {"bot", "bots"} /\ A
             /\ UNCHANGED <<part, vars, pageVars, commandVars, remoteVars, pasteVars>>
             /\ BotBound'
OnPaste(A) == /\ part = "paste" /\ A
              /\ UNCHANGED <<part, vars, pageVars, commandVars, remoteVars, botVars>>

\* The parts a behaviour does not follow start in one way.
MCInit ==
  /\ part \in {"install", "page", "commands", "remote", "overlap", "bot", "bots", "paste"}
  /\ Init /\ (part # "install" => platform = "linux" /\ app = 0 /\ links = {})
  /\ Page!Init /\ Commands!Init /\ Remote!Init /\ Bots!Init
  /\ Paste!Init /\ (part # "paste" => source = {Clip} /\ ~remote /\ place = tab1 /\ at = "offer")

InstallNext ==
  \/ OnInstall(Begins) \/ OnInstall(Checks) \/ OnInstall(Prepares)
  \/ OnInstall(DropsBackup) \/ OnInstall(Refuses)
  \/ OnInstall(MovesOld) \/ OnInstall(MovesNew) \/ OnInstall(Finishes)
  \/ OnInstall(ExchangeFails)
  \/ \E l \in Links : OnInstall(DropsLink(l)) \/ OnInstall(PlacesLink(l))
  \/ OnInstall(DropsNew) \/ OnInstall(DropNewFails)
  \/ OnInstall(Unlinks) \/ OnInstall(UnlinkFails)
  \/ OnInstall(Restores) \/ OnInstall(RestoreFails)
  \/ OnInstall(Relinks) \/ OnInstall(RelinkFails) \/ OnInstall(Dies)

PageNext ==
  \/ \E url \in Urls :
       OnPage(Page!Visit(url)) \/ OnPage(Page!submit_browser_url(url))
  \/ OnPage(Page!Loads) \/ OnPage(Page!ReportRuns) \/ OnPage(Page!ReportFails)
  \/ OnPage(Page!ReportEnds) \/ OnPage(Page!SubmitRuns) \/ OnPage(Page!SubmitFails)
  \/ OnPage(Page!SubmitEnds)
  \/ \E k \in Polls :
       \/ OnPage(Page!pane_update_request(k)) \/ OnPage(Page!PollRuns(k))
       \/ OnPage(Page!apply_update_result(k))

CommandsNext ==
  \/ \E c \in Callers :
       \/ \E kind \in Commands!Kinds : OnCommands(Commands!browser_command(c, kind))
       \/ OnCommands(Commands!Receives(c)) \/ OnCommands(Commands!TimesOut(c))
       \/ OnCommands(Commands!Withdraws(c))
  \/ \E k \in Polls :
       \/ OnCommands(Commands!take_browser_commands(k))
       \/ OnCommands(Commands!ResponseLost(k))
       \/ OnCommands(Commands!run_browser_commands(k))
  \/ \E r \in posted : \/ OnCommands(Commands!resolve_browser_command(r))
                       \/ OnCommands(Commands!ResultLost(r))
  \/ \E d \in cdp : OnCommands(Commands!PageAnswers(d))
  \/ OnCommands(Commands!poll_browser_commands) \/ OnCommands(Commands!PageOpens)
  \/ OnCommands(Commands!PageCloses) \/ OnCommands(Commands!ServiceRestarts)

\* A remote workstation with one request at a time and everything that can
\* happen, or with two that create, reattach and close and may overlap; which
\* idle thread serves a request makes no difference.
NextRequest == IF request[q1] = Remote!Idle THEN {q1}
               ELSE IF part = "overlap" THEN {q2} ELSE {}

RemoteNext ==
  \/ \E q \in NextRequest, p \in Panes :
       \/ OnRemote(Remote!create_workspace_tab(q, p)) \/ OnRemote(Remote!reattach_pane(q, p))
       \/ OnRemote(Remote!close_tab(q, p)) \/ OnRemote(Remote!close_pane(q, p))
       \/ OnRemote(Remote!finish_sign_in(q, p))
  \/ \E q \in Requests, p \in Panes :
       \/ OnRemote(Remote!OpensWindow(q, p)) \/ OnRemote(Remote!Terminates(q, p))
       \/ OnRemote(Remote!RemovesPane(q, p))
  \/ \E q \in Requests :
       \/ OnRemote(Remote!UsesClient(q)) \/ OnRemote(Remote!Connects(q))
       \/ OnRemote(Remote!InsertsClient(q)) \/ OnRemote(Remote!SweepLists(q))
       \/ OnRemote(Remote!SweepEnds(q)) \/ OnRemote(Remote!Lists(q))
       \/ OnRemote(Remote!TagsWindow(q)) \/ OnRemote(Remote!Resizes(q))
       \/ OnRemote(Remote!Fails(q)) \/ OnRemote(Remote!SessionsAreMade(q))
       \/ OnRemote(Remote!Installs(q)) \/ OnRemote(Remote!RefusesTab(q))
       \/ \E w \in 1 .. MaxWindows : OnRemote(Remote!SweepKills(q, w)) \/ OnRemote(Remote!Attaches(q, w))
  \/ \E c \in up : OnRemote(Remote!ConnectionLost(c))
  \/ /\ part = "remote"
     /\ \/ OnRemote(Remote!reconnect_workspace(q1)) \/ OnRemote(Remote!disconnect_workspace(q1))
        \/ OnRemote(Remote!close_remote_clients(q1)) \/ OnRemote(Remote!AsksToSignIn(q1))
        \/ \E w \in DOMAIN tag : OnRemote(Remote!ProgramEnds(w))
        \/ OnRemote(Remote!Restarts)

PanesOfPart == IF part = "bot" THEN Panes \cap {p1} ELSE Panes

BotsNext ==
  \/ \E t \in Threads, p \in PanesOfPart :
       \/ OnBots(Bots!OpenSpawns(t, p)) \/ OnBots(Bots!ActivateBotPane(t, p))
       \/ OnBots(Bots!CloseForgets(t, p)) \/ OnBots(Bots!CloseFindsNone(t, p))
       \/ OnBots(Bots!RestartBegins(t, p)) \/ OnBots(Bots!RelaunchForgets(t, p))
       \/ OnBots(Bots!AgentBegins(t, p))
  \/ \E t \in Threads, S \in SUBSET PanesOfPart : OnBots(Bots!CloseBegins(t, S))
  \/ \E t \in Threads :
       \/ OnBots(Bots!OpenCommits(t)) \/ OnBots(Bots!OpenRefused(t))
       \/ OnBots(Bots!Discards(t)) \/ OnBots(Bots!StartsAgent(t)) \/ OnBots(Bots!Evicts(t))
       \/ OnBots(Bots!CloseKills(t)) \/ OnBots(Bots!CloseKillFails(t))
       \/ OnBots(Bots!CloseRemoves(t)) \/ OnBots(Bots!CloseIsLate(t))
       \/ OnBots(Bots!RelaunchMarks(t)) \/ OnBots(Bots!RelaunchKills(t))
       \/ OnBots(Bots!RelaunchSpawns(t)) \/ OnBots(Bots!RelaunchFails(t))
       \/ OnBots(Bots!RelaunchInstalls(t)) \/ OnBots(Bots!RelaunchRefused(t))
       \/ OnBots(Bots!HomeBegins(t)) \/ OnBots(Bots!AgentRereads(t))
       \/ OnBots(Bots!WritesSpec(t)) \/ OnBots(Bots!WritesSpecFails(t))
       \/ OnBots(Bots!RenewBegins(t))
  \/ \E p \in PanesOfPart : OnBots(Bots!ReportBotSession(p))
  \/ \E s \in Bots!Shells : OnBots(Bots!AgentExits(s)) \/ OnBots(Bots!BotAgentExited(s))

PasteNext ==
  \/ OnPaste(Paste!WritesOffer) \/ OnPaste(Paste!WriteOfferFails)
  \/ OnPaste(Paste!paste_image) \/ OnPaste(Paste!PasteImageFails) \/ OnPaste(Paste!TimesOut)
  \/ OnPaste(Paste!PasteImageLate) \/ OnPaste(Paste!Unoffers)
  \/ OnPaste(Paste!write_paste_png) \/ OnPaste(Paste!WriteClipFails)
  \/ OnPaste(Paste!ValidateFails)
  \/ \E f \in source : \/ OnPaste(Paste!stage_remote_source(f)) \/ OnPaste(Paste!StageFails(f))
                       \/ OnPaste(Paste!Uploads(f)) \/ OnPaste(Paste!UploadFails(f))
  \/ OnPaste(Paste!BeginsUpload) \/ OnPaste(Paste!remove_staged_sources)
  \/ OnPaste(Paste!UnstageFails) \/ OnPaste(Paste!RemovesClip) \/ OnPaste(Paste!RemoveClipFails)
  \/ OnPaste(Paste!Revalidates) \/ OnPaste(Paste!RevalidationFails)
  \/ OnPaste(Paste!authorized_write_input) \/ OnPaste(Paste!InsertFails)
  \/ OnPaste(Paste!cleanup_aborted_transfer) \/ OnPaste(Paste!PaneMoves)

MCNext == InstallNext \/ PageNext \/ CommandsNext \/ RemoteNext \/ BotsNext
          \/ PasteNext

MCSpec == MCInit /\ [][MCNext]_allVars

\* When all is quiet the service has the page's address (BrowserPage).
QuietPageIsSaved == Page!QuietPageIsSaved
\* Every call of a browser command is told the truth (BrowserCommands).
AnswersAreTrue == Commands!AnswersAreTrue
\* The windows of a remote workstation are those of its tabs (RemoteTerminals).
RemoteWindowsMatchTabs == Remote!RemoteWindowsMatchTabs
\* No shell runs that no pane shows, with two exceptions (BotThreads).
ShellsAreShown == Bots!ShellsAreShown
\* A pane knows what is going on in it (BotThreads).
PanesKnowTheirAgents == Bots!PanesKnowTheirAgents
\* A paste arrives whole or not at all (FilePaste).
PastesArriveWhole == Paste!PastesArriveWhole
=============================================================================
