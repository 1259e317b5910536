------------------------------- MODULE Console -------------------------------
(***************************************************************************)
(* The terminal UI of wdm (internal/tui): one event loop whose Update      *)
(* method folds keys and messages into a model, and the commands it        *)
(* starts, each a goroutine that calls the engine and posts one message.   *)
(*                                                                         *)
(* Nothing stops the operator from starting a second command while one is  *)
(* running (only three handlers look at busy), so messages arrive in any   *)
(* order and long after the screen that asked for them is gone.  An        *)
(* operation that changes the host takes the runtime lock, plans, sends a  *)
(* question to the event loop and waits for its own reply channel.         *)
(*                                                                         *)
(* `menu' is what this operator uses of the program, picked at the start:  *)
(* it bounds a run to the entries of one task, and to the apps picked in   *)
(* the catalog or typed, and never changes.  Wording, the fields of the forms, progress and *)
(* the errors shown are left out.                                          *)
(***************************************************************************)
EXTENDS Integers, Sequences, FiniteSets, FiniteSetsExt

CONSTANTS
    AppOrder,       \* the apps of the catalog in the order the engine lists them
    Slots,          \* 1..n: at most n commands run at a time
    PortsOf,        \* the host ports the catalog gives each app
    HostPorts,      \* the ports a remap may name
    Sessions        \* what a session may be about: the entries and catalog apps
                    \* it uses, and the apps installed when it starts

VARIABLES
    menu,           \* the entries this operator uses
    m,              \* the model struct the event loop folds messages into
    cmds,           \* the command running in each slot
    reply,          \* the one-place reply channel of each slot's question
    agreed,         \* history: slots whose last question was answered yes
    owner,          \* the runtime lock: a slot, Nobody or Wedged
    managed,        \* the apps installed on the host
    launch,         \* how far the daily check of the launch has come
    exited          \* the program has returned from Run

vars == <<menu, m, cmds, reply, agreed, owner, managed, launch, exited>>

Apps == {AppOrder[i] : i \in DOMAIN AppOrder}
NoApp == "none"
Nobody == 0
Wedged == Cardinality(Slots) + 1      \* another process with a stale record

ASSUME ConsoleAssumption ==
    /\ IsFiniteSet(Slots) /\ Slots = 1..Cardinality(Slots) /\ Slots # {}
    /\ AppOrder \in Seq(Apps)
    /\ \A i, j \in DOMAIN AppOrder : AppOrder[i] = AppOrder[j] => i = j
    /\ \A session \in Sessions : session.installed \subseteq Apps

-----------------------------------------------------------------------------
(* The menus.                                                              *)

\* Dashboard entry |-> the screen it opens and the command it starts.
Dashboard ==
    [install       |-> <<"installCatalog", "catalogApps">>,
     update        |-> <<"updateApps", "apps">>,
     check         |-> <<"checkApps", "apps">>,
     stopAll       |-> <<"stopAll", "stopAll">>,
     backups       |-> <<"backupsApps", "apps">>,
     settings      |-> <<"settings", "settings">>,
     updateCatalog |-> <<"catalogUpdate", "catalogCheck">>,
     updateWdm     |-> <<"selfUpdate", "selfCheck">>,
     uninstall     |-> <<"uninstall", "uninstall">>]

\* Entry of the app screen |-> the screen it opens and the command it starts.
AppActions ==
    [restart     |-> <<"appActions", "restart">>,
     redeploy    |-> <<"appActions", "redeploy">>,
     resources   |-> <<"resources", "resources">>,
     editCompose |-> <<"appActions", "override">>,
     editEnv     |-> <<"appActions", "rewire">>,
     viewEnv     |-> <<"viewEnv", "viewEnv">>,
     validate    |-> <<"appActions", "validate">>]

\* Where Back leads from a screen; every other screen leads to the dashboard.
Parent(screen) ==
    CASE screen = "appActions" -> "checkApps"
      [] screen \in {"removeActions", "deleteName", "resources", "viewEnv"} -> "appActions"
      [] screen = "backupsList" -> "backupsApps"
      [] screen = "installForm" -> "installCatalog"
      [] screen = "portRemap" -> "installForm"
      [] OTHER -> "dashboard"

\* Finished operation |-> the screen that shows its result.
ResultScreen ==
    [install |-> "installResult", update |-> "updateResult", remove |-> "removeResult",
     delete |-> "deleteResult", restore |-> "restoreResult", stopAll |-> "stopAllResult",
     catalogUpdate |-> "catalogUpdateResult", selfUpdate |-> "selfUpdateResult",
     uninstall |-> "uninstallResult"]

Screens ==
    {"dashboard", "appActions", "removeActions", "deleteName", "installForm", "portRemap",
     "backupsList", "runtimeLock", "resources", "viewEnv"}
    \cup {Dashboard[e][1] : e \in DOMAIN Dashboard}
    \cup {ResultScreen[k] : k \in DOMAIN ResultScreen}

-----------------------------------------------------------------------------
(* Commands.                                                               *)

Loads == {"lockStatus", "apps", "status", "catalogApps", "catalogApp", "backups",
          "settings", "saveSettings", "catalogCheck", "selfCheck", "resources",
          "viewEnv", "validate", "override", "userEnv", "editor", "validateStack"}
Checks == {"catalogCheck", "selfCheck"}
AppOperations == {"update", "restart", "redeploy", "remove", "delete", "restore",
                  "reconfigure", "rewire"}
Operations == AppOperations \cup {"install", "stopAll", "uninstall",
                                  "catalogUpdate", "selfUpdate", "clear"}

\* Operations that may find nothing to do and end without a question.
Quiet == {"rewire", "stopAll"}

\* Operations whose error may come with a result to show.
Batch == {"stopAll", "selfUpdate", "uninstall"}

NoOverrides == [p \in {} |-> p]
NoConflict == [port |-> 0, own |-> FALSE]

\* The model Run starts with.
NewModel ==
    [screen |-> "dashboard", busy |-> FALSE, modal |-> 0, apps |-> <<>>, appCursor |-> 0,
     status |-> NoApp, typed |-> NoApp, backupsOf |-> NoApp, listed |-> NoApp,
     detail |-> NoApp, conflict |-> NoConflict,
     req |-> [app |-> NoApp, over |-> NoOverrides, own |-> TRUE],
     lockStatus |-> "fine", lockCursor |-> 0, ready |-> {}, resOf |-> NoApp]

\* What a command closes over; `arg' is the name typed for a delete and the
\* app whose list a restored snapshot was picked from.  `shares': its overrides
\* are the very map that m.req holds.
Command(kind, app, arg, over) ==
    [kind |-> kind, app |-> app, arg |-> arg, over |-> over,
     shares |-> FALSE, stage |-> "begin", asks |-> 1, out |-> "none", got |-> <<>>, port |-> 0]

NoCommand == [Command("lockStatus", NoApp, NoApp, NoOverrides) EXCEPT !.stage = "idle"]

Idle == {s \in Slots : cmds[s].stage = "idle"}

\* A handler's last step: the model it returns, busy, and the command the
\* event loop starts for it among those that are running.
StartAmong(running, next, command) ==
    /\ Idle # {}
    /\ LET s == Min(Idle) IN
         /\ m' = [next EXCEPT !.busy = TRUE]
         /\ cmds' = [running EXCEPT ![s] = command]
         /\ reply' = [reply EXCEPT ![s] = "none"]
         /\ agreed' = agreed \ {s}
    /\ UNCHANGED <<menu, owner, managed, launch, exited>>

Start(next, command) == StartAmong(cmds, next, command)

\* A handler that starts nothing.
Show(next) ==
    /\ m' = next
    /\ UNCHANGED <<menu, cmds, reply, agreed, owner, managed, launch, exited>>

\* The event loop runs until the program exits and stands still while the
\* editor has the terminal.
Looping == ~exited /\ \A s \in Slots : ~(cmds[s].kind = "editor" /\ cmds[s].stage = "begin")

\* Keys reach a screen's handler only while no question is shown.
Key(screen) == Looping /\ m.modal = 0 /\ m.screen = screen

OnApp(kind, app) == Command(kind, app, NoApp, NoOverrides)
Plain(kind) == OnApp(kind, NoApp)

-----------------------------------------------------------------------------
(* Keys.                                                                   *)

\* Bound: an operator who uses several catalog apps opens the catalog before the
\* first request and picks the apps in the catalog's order; with one app nothing
\* is bounded.
OneByOne == Cardinality(menu \cap Apps) > 1

\* selectDashboardAction: Backups also forgets the list shown before, and
\* the two checks forget their last answer.
SelectDashboardAction(e) ==
    /\ Key("dashboard") /\ e \in menu \cap DOMAIN Dashboard
    /\ OneByOne /\ e = "install" => m.req.app = NoApp
    /\ Start([m EXCEPT !.screen = Dashboard[e][1],
                       !.backupsOf = IF e = "backups" THEN NoApp ELSE @,
                       !.listed = IF e = "backups" THEN NoApp ELSE @,
                       !.ready = @ \ (Checks \cap {Dashboard[e][2]})],
             Plain(Dashboard[e][2]))

BoundedCursor(current, delta, length) ==
    IF length = 0 THEN 0 ELSE Max({0, Min({current + delta, length - 1})})

AppLists == {"checkApps", "updateApps", "backupsApps"}

MoveCursor(delta) ==
    /\ \E screen \in AppLists : Key(screen)
    /\ Show([m EXCEPT !.appCursor = BoundedCursor(@, delta, Len(m.apps))])

\* The app under the cursor: the code indexes m.apps without a check.
UnderCursor == m.apps[m.appCursor + 1]

SelectManagedApp ==
    /\ Key("checkApps") /\ m.apps # <<>>
    /\ Start([m EXCEPT !.screen = "appActions", !.status = NoApp], OnApp("status", UnderCursor))

SelectUpdateApp ==
    /\ Key("updateApps") /\ m.apps # <<>>
    /\ Start(m, OnApp("update", UnderCursor))

SelectBackupsApp ==
    /\ Key("backupsApps") /\ m.apps # <<>>
    /\ Start([m EXCEPT !.backupsOf = UnderCursor, !.screen = "backupsList", !.listed = NoApp],
             OnApp("backups", UnderCursor))

\* The request names the app picked last; the snapshot comes from the list
\* that arrived last.
SelectBackupSnapshot ==
    /\ Key("backupsList") /\ m.listed # NoApp
    /\ Start(m, Command("restore", m.backupsOf, m.listed, NoOverrides))

\* The app an action applies to: the one whose status is shown, else the one
\* under the cursor.
ActiveAppID ==
    IF m.status # NoApp THEN m.status
    ELSE IF m.appCursor < Len(m.apps) THEN UnderCursor ELSE NoApp

SelectAppAction(e) ==
    /\ Key("appActions") /\ e \in menu \cap DOMAIN AppActions
    /\ Start([m EXCEPT !.screen = AppActions[e][1],
                       !.resOf = IF e = "resources" THEN NoApp ELSE @],
             OnApp(AppActions[e][2], ActiveAppID))

RemoveEntry ==
    /\ Key("appActions") /\ menu \cap {"remove", "delete"} # {}
    /\ Show([m EXCEPT !.screen = "removeActions", !.typed = NoApp])

ReturnToDashboard ==
    /\ Key("appActions")
    /\ Show([m EXCEPT !.screen = "dashboard"])

SelectRemove ==
    /\ Key("removeActions") /\ "remove" \in menu
    /\ Start(m, OnApp("remove", ActiveAppID))

SelectDelete ==
    /\ Key("removeActions") /\ "delete" \in menu
    /\ Show([m EXCEPT !.screen = "deleteName", !.typed = NoApp])

TypeName(a) ==
    /\ Key("deleteName") /\ a \in menu
    /\ Show([m EXCEPT !.typed = a])

SubmitDelete ==
    /\ Key("deleteName")
    /\ Start(m, Command("delete", ActiveAppID, m.typed, NoOverrides))

SelectCatalogApp(a) ==
    /\ Key("installCatalog") /\ "catalogApps" \in m.ready /\ a \in menu
    /\ OneByOne => \A i, j \in DOMAIN AppOrder : AppOrder[i] = m.req.app /\ AppOrder[j] = a => i < j
    /\ Start([m EXCEPT !.detail = NoApp], OnApp("catalogApp", a))

\* A new request has no map of overrides yet: what still runs shares it no more.
SubmitInstall ==
    /\ Key("installForm") /\ ~m.busy /\ m.detail # NoApp
    /\ LET req == [app |-> m.detail, over |-> NoOverrides, own |-> TRUE]
       IN  StartAmong([s \in Slots |-> [cmds[s] EXCEPT !.shares = FALSE]],
                      [m EXCEPT !.req = req, !.conflict.own = FALSE],
                      Command("install", req.app, NoApp, req.over))

\* Mutant: the busy port is the key, though it was moved there.
CatalogKeys_Reported(over, port) == {port}

\* submitPortRemap looks the busy port up among the targets of the overrides:
\* a repeated conflict names the port it was moved to, and the override is
\* keyed by the catalog's.  The loop takes the first target it meets in a map,
\* whose order is random.
CatalogKeys(over, port) ==
    LET moved == {p \in DOMAIN over : over[p] = port}
    IN  IF moved = {} THEN {port} ELSE moved

Remapped(over, key, to) == [p \in DOMAIN over \cup {key} |-> IF p = key THEN to ELSE over[p]]

\* Mutant: the plan keeps the request's own map instead of a copy.
Sharing_Uncloned == {s \in Slots : cmds[s].shares /\ cmds[s].stage # "done"}

\* The installs that still read the map of the request on the screen:
\* planPorts works on a copy.
Sharing == {s \in Slots : cmds[s].shares /\ cmds[s].stage \in {"begin", "planning"}}

\* The installs under way after the map was written: a plan that had `copied'
\* it before goes on with what it read.
MapWritten(over, copied) ==
    [s \in Slots |-> IF s \in copied THEN [cmds[s] EXCEPT !.shares = FALSE]
                     ELSE IF s \in Sharing THEN [cmds[s] EXCEPT !.over = over]
                     ELSE cmds[s]]

\* The new port is written into the map that the installs of this request which
\* are still running were started with; Go may also end the program over a read
\* at the same time, which Quit covers.  `own' is history: the conflict was
\* raised by the very request, and so were all that were merged into it before.
SubmitPortRemap(to) ==
    /\ Key("portRemap") /\ ~m.busy /\ m.conflict.port # 0
    /\ \E key \in CatalogKeys(m.req.over, m.conflict.port), copied \in SUBSET Sharing :
         LET req == [m.req EXCEPT !.over = Remapped(@, key, to), !.own = @ /\ m.conflict.own]
         IN  /\ \A s \in copied : cmds[s].stage = "planning"
             /\ StartAmong(MapWritten(req.over, copied), [m EXCEPT !.req = req, !.conflict.own = FALSE],
                           [Command("install", req.app, NoApp, req.over) EXCEPT !.shares = TRUE])

\* Both updates are offered only for a verified newer release.
SelectCatalogUpdate ==
    /\ Key("catalogUpdate") /\ "catalogCheck" \in m.ready
    /\ Start(m, Plain("catalogUpdate"))

SelectSelfUpdate ==
    /\ Key("selfUpdate") /\ "selfCheck" \in m.ready
    /\ Start(m, Plain("selfUpdate"))

\* The request joins the app shown with the service of the settings that
\* arrived last.
SubmitReconfigure ==
    /\ Key("resources") /\ m.resOf # NoApp
    /\ Start(m, Command("reconfigure", ActiveAppID, m.resOf, NoOverrides))

SaveSettings ==
    /\ Key("settings") /\ "settings" \in m.ready
    /\ Start(m, Plain("saveSettings"))

RuntimeLockActions ==
    IF m.lockStatus = "stale" THEN <<"clear", "return">> ELSE <<"return">>

MoveLockCursor(delta) ==
    /\ Key("runtimeLock")
    /\ Show([m EXCEPT !.lockCursor = BoundedCursor(@, delta, Len(RuntimeLockActions))])

SelectRuntimeLock ==
    /\ Key("runtimeLock")
    /\ IF RuntimeLockActions[m.lockCursor + 1] = "clear"
       THEN Start(m, Plain("clear"))
       ELSE Show([m EXCEPT !.screen = "dashboard"])

\* Back leaves a prompt for a port only while nothing was submitted.
Back ==
    /\ Looping /\ m.modal = 0 /\ m.screen # "dashboard"
    /\ ~(m.screen = "portRemap" /\ m.busy)
    /\ Show([m EXCEPT !.screen = Parent(@),
                      !.conflict = IF m.screen = "portRemap" THEN NoConflict ELSE @,
                      !.resOf = IF m.screen = "resources" THEN NoApp ELSE @])

\* The program returns from Run whatever is running: the process ends, the
\* model and the commands with it, and the kernel drops the lock.
Exit ==
    /\ exited' = TRUE
    /\ m' = NewModel
    /\ cmds' = [s \in Slots |-> NoCommand]
    /\ reply' = [s \in Slots |-> "none"]
    /\ agreed' = {}
    /\ owner' = IF owner \in Slots THEN Nobody ELSE owner
    /\ launch' = "off"

Quit ==
    /\ Looping
    /\ Exit
    /\ UNCHANGED <<menu, managed>>

\* Mutant: one reply channel for the bridge instead of one for each question.
AnswerTo_Shared(s, yes) ==
    [t \in Slots |-> IF cmds[t].stage = "asking" THEN (IF yes THEN "yes" ELSE "no") ELSE reply[t]]

\* answerConfirmation puts the answer in the channel of the question shown.
AnswerTo(s, yes) == [reply EXCEPT ![s] = IF yes THEN "yes" ELSE "no"]

\* updateConfirmation: y, or any of n, esc and b.
Answer(yes) ==
    /\ Looping /\ m.modal # 0
    /\ reply' = AnswerTo(m.modal, yes)
    /\ agreed' = IF yes THEN agreed \cup {m.modal} ELSE agreed
    /\ m' = [m EXCEPT !.modal = 0]
    /\ UNCHANGED <<menu, cmds, owner, managed, launch, exited>>

-----------------------------------------------------------------------------
(* The engine, as the commands use it.                                     *)

Stage(s, kinds, stage) == cmds[s].stage = stage /\ cmds[s].kind \in kinds

Finish(s, out) == cmds' = [cmds EXCEPT ![s].stage = "done", ![s].out = out, ![s].asks = 1]

\* Mutant: an operation that the operator declines keeps the lock.
Release_KeptOnDecline(s) == owner' = IF owner = s /\ reply[s] # "no" THEN Nobody ELSE owner

Release(s) == owner' = IF owner = s THEN Nobody ELSE owner

\* The managed apps in the order the engine lists them: one sequence.
Listings ==
    LET place(a) == CHOOSE i \in DOMAIN AppOrder : AppOrder[i] = a
    IN  {list \in [1..Cardinality(managed) -> managed] :
           \A i, j \in DOMAIN list : i < j => place(list[i]) < place(list[j])}

\* A read-only call answers with what it finds now; the message that carries
\* the answer is handled later.
Read(s) ==
    /\ Stage(s, Loads, "begin")
    /\ \E out \in {"ok", "nothing", "error"}, list \in Listings :
         /\ out = "nothing" => cmds[s].kind \in Checks \cup {"resources"}
         /\ cmds' = [cmds EXCEPT
            ![s].stage = "done",
            ![s].out = IF out = "ok" /\ cmds[s].kind = "lockStatus" /\ owner = Wedged
                       THEN "stale" ELSE out,
            ![s].got = IF cmds[s].kind = "apps" /\ out = "ok" THEN list ELSE <<>>]
    /\ UNCHANGED <<menu, m, reply, agreed, owner, managed, launch, exited>>

\* Mutant: the typed name is not compared with the app.
RequestValid_AnyName(c) == c.kind \in AppOperations \cup {"install"} => c.app # NoApp

\* The request is checked before the lock is taken.
RequestValid(c) ==
    /\ c.kind \in AppOperations \cup {"install"} => c.app # NoApp
    /\ c.kind = "delete" => c.arg = c.app

\* acquireRuntimeLock does not wait: a held lock refuses the operation.
Acquire(s) ==
    /\ Stage(s, Operations \ {"clear"}, "begin")
    /\ \/ /\ RequestValid(cmds[s]) /\ owner = Nobody
          /\ owner' = s
          /\ \E asks \in IF cmds[s].kind = "update" THEN {1, 2} ELSE {1} :
               cmds' = [cmds EXCEPT ![s].stage = "planning", ![s].asks = asks]
       \/ /\ ~RequestValid(cmds[s]) \/ owner # Nobody
          /\ Finish(s, "error")
          /\ UNCHANGED owner
    /\ UNCHANGED <<menu, m, reply, agreed, managed, launch, exited>>

\* ClearStaleRuntimeLock takes no lock: it probes, asks only about a stale
\* holder and refuses a live one.
ProbeToClear(s) ==
    /\ Stage(s, {"clear"}, "begin")
    /\ CASE owner = Wedged -> cmds' = [cmds EXCEPT ![s].stage = "planning"]
         [] owner = Nobody -> Finish(s, "ok")
         [] OTHER -> Finish(s, "error")
    /\ UNCHANGED <<menu, m, reply, agreed, owner, managed, launch, exited>>

\* What an operation needs to find: the app it names, for a restore the snapshot
\* in that app's own directory, and for an install only ports that its app binds
\* among the overrides (applyPortOverrides).
Admissible(c) ==
    /\ c.kind = "install" => c.app \notin managed /\ DOMAIN c.over \subseteq PortsOf[c.app]
    /\ c.kind \in AppOperations => c.app \in managed
    /\ c.kind = "restore" => c.arg = c.app

EffectivePort(c, p) == IF p \in DOMAIN c.over THEN c.over[p] ELSE p

\* Confirm: a fresh channel, and the request becomes the question shown,
\* whatever was shown before.
Ask(s) ==
    /\ Stage(s, Operations, "planning") /\ Admissible(cmds[s])
    /\ cmds' = [cmds EXCEPT ![s].stage = "asking", ![s].asks = @ - 1]
    /\ reply' = [reply EXCEPT ![s] = "none"]
    /\ agreed' = agreed \ {s}
    /\ m' = [m EXCEPT !.modal = s]
    /\ UNCHANGED <<menu, owner, managed, launch, exited>>

\* Planning ends without a question: it failed, an install met a busy port,
\* or there is nothing to do.
PlanEnds(s) ==
    /\ Stage(s, Operations, "planning")
    /\ \/ Finish(s, "error")
       \/ cmds[s].kind \in Quiet /\ Admissible(cmds[s]) /\ Finish(s, "ok")
       \/ /\ cmds[s].kind = "install" /\ Admissible(cmds[s])
          /\ \E p \in PortsOf[cmds[s].app] :
               cmds' = [cmds EXCEPT ![s].stage = "done", ![s].out = "conflict",
                                    ![s].port = EffectivePort(cmds[s], p)]
    /\ Release(s)
    /\ UNCHANGED <<menu, m, reply, agreed, managed, launch, exited>>

\* The operation takes the answer from its channel; an update that may touch
\* the database asks a second time before it deploys.
TakeReply(s) ==
    /\ Stage(s, Operations, "asking") /\ reply[s] # "none"
    /\ reply' = [reply EXCEPT ![s] = "none"]
    /\ IF reply[s] = "no"
       THEN Finish(s, "declined") /\ Release(s)
       ELSE /\ cmds' = [cmds EXCEPT ![s].stage = IF cmds[s].asks = 0 THEN "working" ELSE "planning"]
            /\ UNCHANGED owner
    /\ UNCHANGED <<menu, m, agreed, managed, launch, exited>>

\* An error may come with a result: a batch that failed in part, a binary
\* that was rolled back.
Work(s) ==
    /\ Stage(s, Operations \ {"clear"}, "working")
    /\ \E out \in {"ok", "partial", "error"} :
         /\ out = "partial" => cmds[s].kind \in Batch
         /\ Finish(s, out)
         /\ managed' = CASE out = "ok" /\ cmds[s].kind = "install" -> managed \cup {cmds[s].app}
                         [] out = "ok" /\ cmds[s].kind = "delete" -> managed \ {cmds[s].app}
                         [] OTHER -> managed
    /\ Release(s)
    /\ agreed' = agreed \ {s}
    /\ UNCHANGED <<menu, m, reply, launch, exited>>

\* The stale holder is probed again: the lock is broken only if it still holds it.
WorkClear(s) ==
    /\ Stage(s, {"clear"}, "working")
    /\ \/ Finish(s, "error") /\ UNCHANGED owner
       \/ owner \in {Wedged, Nobody} /\ Finish(s, "ok") /\ owner' = Nobody
    /\ UNCHANGED <<menu, m, reply, agreed, managed, launch, exited>>

\* The other process ends by itself.
OtherReleases ==
    /\ ~exited /\ owner = Wedged
    /\ owner' = Nobody
    /\ UNCHANGED <<menu, m, cmds, reply, agreed, managed, launch, exited>>

-----------------------------------------------------------------------------
(* The message a command ends with, folded into the model.                 *)

\* Mutant: the cursor keeps its place in a shorter list.
AppsLoaded_NoClamp(x, c) == [x EXCEPT !.apps = c.got]

AppsLoaded(x, c) ==
    [x EXCEPT !.apps = c.got, !.appCursor = Min({@, IF c.got = <<>> THEN 0 ELSE Len(c.got) - 1})]

\* The status screen is forced, whatever the operator is looking at.
AppStatusLoaded(x, c) ==
    [x EXCEPT !.status = IF c.out = "ok" THEN c.app ELSE NoApp, !.screen = "appActions"]

CatalogAppLoaded(x, c) ==
    [x EXCEPT !.detail = IF c.out = "ok" THEN c.app ELSE NoApp,
              !.screen = IF c.out = "ok" THEN "installForm" ELSE @]

\* A load whose answer is only kept or forgotten.
AnswerKept(x, c) ==
    [x EXCEPT !.ready = IF c.out = "ok" THEN @ \cup {c.kind} ELSE @ \ {c.kind}]

RuntimeLockStatusLoaded(x, c) ==
    LET next == [x EXCEPT !.lockStatus = IF c.out = "stale" THEN "stale" ELSE "fine"]
    IN  IF c.out = "ok" THEN next
        ELSE [next EXCEPT !.screen = "runtimeLock", !.lockCursor = 0]

\* Mutant: the cursor stays where it was when the list of actions shrinks.
RuntimeLockCleared_KeepsCursor(x, c) ==
    IF c.out # "ok" THEN x
    ELSE [x EXCEPT !.lockStatus = "fine", !.screen = "runtimeLock"]

\* The handler adopts a status also beside an error: the engine sends either the
\* one or the other.
RuntimeLockCleared(x, c) ==
    IF c.out # "ok" THEN x
    ELSE [x EXCEPT !.lockStatus = "fine", !.screen = "runtimeLock", !.lockCursor = 0]

\* The status in the result of a restart or redeploy: the engine fills it in
\* last, and returns no error after it.
ReportedStatus(c) == IF c.out = "ok" THEN c.app ELSE NoApp

\* applyRecreateResult: a status that is reported is adopted, error or not.
RecreateFinished(x, c) ==
    IF ReportedStatus(c) = NoApp THEN x ELSE [x EXCEPT !.status = ReportedStatus(c)]

\* applyInstallFinished: a busy port opens the prompt for another one.
InstallFinished(x, c) ==
    CASE c.out = "conflict" ->
           [x EXCEPT !.screen = "portRemap",
                     !.conflict = [port |-> c.port,
                                   own |-> c.app = x.req.app /\ c.over = x.req.over]]
      [] c.out = "ok" -> [x EXCEPT !.screen = "installResult"]
      [] OTHER -> x

\* An operation with a result screen shows it on success, a batch also when
\* an error comes with a result.
ShowResult(x, c) ==
    IF c.kind \in DOMAIN ResultScreen /\ (c.out = "ok" \/ (c.out = "partial" /\ c.kind \in Batch))
    THEN [x EXCEPT !.screen = ResultScreen[c.kind]]
    ELSE x

NotBusy(c) == [m EXCEPT !.busy = FALSE]

\* Every handler clears busy, and the handlers differ by message.
Settled(c) ==
    LET x == NotBusy(c) IN
    CASE c.kind = "apps" -> AppsLoaded(x, c)
      [] c.kind = "status" -> AppStatusLoaded(x, c)
      [] c.kind = "catalogApp" -> CatalogAppLoaded(x, c)
      [] c.kind \in Checks \cup {"catalogApps", "settings"} -> AnswerKept(x, c)
      [] c.kind = "backups" -> [x EXCEPT !.listed = IF c.out = "ok" THEN c.app ELSE NoApp]
      [] c.kind = "resources" -> [x EXCEPT !.resOf = IF c.out = "ok" THEN c.app ELSE NoApp]
      [] c.kind = "lockStatus" -> RuntimeLockStatusLoaded(x, c)
      [] c.kind = "clear" -> RuntimeLockCleared(x, c)
      [] c.kind \in {"restart", "redeploy"} -> RecreateFinished(x, c)
      [] c.kind = "install" -> InstallFinished(x, c)
      [] OTHER -> ShowResult(x, c)

\* Editing goes on from message to message and stays busy until the last:
\* a declined rewire still opens the editor.
NextInChain(c) ==
    CASE c.kind = "rewire" /\ c.out \in {"ok", "declined"} -> "userEnv"
      [] c.kind \in {"userEnv", "override"} /\ c.out = "ok" -> "editor"
      [] c.kind = "editor" /\ c.out = "ok" -> "validateStack"
      [] OTHER -> "end"

DeliverChained(s) ==
    LET next == NextInChain(cmds[s]) IN
    /\ Looping /\ cmds[s].stage = "done" /\ next # "end"
    /\ cmds' = [cmds EXCEPT ![s] = OnApp(next, cmds[s].app)]
    /\ UNCHANGED <<menu, m, reply, agreed, owner, managed, launch, exited>>

\* A successful uninstall ends the program after its result is shown.
Deliver(s) ==
    LET c == cmds[s] IN
    /\ Looping /\ c.stage = "done" /\ NextInChain(c) = "end"
    /\ IF c.kind = "uninstall" /\ c.out = "ok"
       THEN Exit
       ELSE /\ m' = Settled(c)
            /\ cmds' = [cmds EXCEPT ![s] = NoCommand]
            /\ UNCHANGED <<reply, agreed, owner, launch, exited>>
    /\ UNCHANGED <<menu, managed>>

\* The daily check of the launch: a gate read from disk, two bounded checks,
\* and a record only when both succeeded.
LaunchCheck ==
    /\ Looping
    /\ \/ launch = "due" /\ launch' \in {"off", "checking"}
       \/ launch = "checking" /\ launch' \in {"off", "recording"}
       \/ launch = "recording" /\ launch' = "off"
    /\ UNCHANGED <<menu, m, cmds, reply, agreed, owner, managed, exited>>

-----------------------------------------------------------------------------
Init ==
    /\ \E session \in Sessions : menu = session.uses /\ managed = session.installed
    /\ m = NewModel
    /\ cmds = [[s \in Slots |-> NoCommand] EXCEPT ![1] = Plain("lockStatus")]
    /\ reply = [s \in Slots |-> "none"]
    /\ agreed = {}
    /\ owner \in {Nobody} \cup (IF "clear" \in menu THEN {Wedged} ELSE {})
    /\ launch = IF "launch" \in menu THEN "due" ELSE "off"
    /\ exited = FALSE

KeyPressed ==
    \/ \E e \in DOMAIN Dashboard : SelectDashboardAction(e)
    \/ \E e \in DOMAIN AppActions : SelectAppAction(e)
    \/ \E delta \in {1, -1} : MoveCursor(delta) \/ MoveLockCursor(delta)
    \/ \E a \in Apps : SelectCatalogApp(a) \/ TypeName(a)
    \/ \E to \in HostPorts : SubmitPortRemap(to)
    \/ SelectManagedApp \/ SelectUpdateApp \/ SelectBackupsApp \/ SelectBackupSnapshot
    \/ RemoveEntry \/ ReturnToDashboard \/ SelectRemove \/ SelectDelete \/ SubmitDelete
    \/ SubmitInstall \/ SubmitReconfigure \/ SaveSettings \/ SelectRuntimeLock
    \/ SelectCatalogUpdate \/ SelectSelfUpdate
    \/ Back \/ Quit

CommandStep(s) ==
    \/ Read(s) \/ Acquire(s) \/ ProbeToClear(s) \/ Ask(s) \/ PlanEnds(s)
    \/ TakeReply(s) \/ Work(s) \/ WorkClear(s) \/ DeliverChained(s) \/ Deliver(s)

Next ==
    \/ KeyPressed
    \/ \E yes \in BOOLEAN : Answer(yes)
    \/ \E s \in Slots : CommandStep(s)
    \/ LaunchCheck
    \/ OtherReleases

\* Goroutines and the event loop run; the operator answers what is asked.
Fairness ==
    /\ \A s \in Slots : WF_vars(CommandStep(s))
    /\ WF_vars(\E yes \in BOOLEAN : Answer(yes))

Spec == Init /\ [][Next]_vars /\ Fairness

-----------------------------------------------------------------------------
AllPorts == HostPorts \cup UNION {PortsOf[a] : a \in Apps}
Requests == [app : Apps \cup {NoApp}, own : BOOLEAN,
             over : UNION {[D -> HostPorts] : D \in SUBSET AllPorts}]

\* The model, the commands and the lock keep to the values the code can give
\* them, and the cursors the code indexes lists with never point past a list
\* that a late message replaced with a shorter one.
TypeOK ==
    /\ m.screen \in Screens /\ m.busy \in BOOLEAN /\ m.modal \in Slots \cup {0}
    /\ {m.status, m.typed, m.backupsOf, m.listed, m.detail, m.resOf} \subseteq Apps \cup {NoApp}
    /\ m.req \in Requests
    /\ \A s \in Slots : cmds[s].kind \in Loads \cup Operations
    /\ \A s \in Slots : cmds[s].stage \in {"idle", "begin", "planning", "asking", "working", "done"}
    /\ m.appCursor \in 0..Max({0, Len(m.apps) - 1}) /\ m.lockCursor \in 0..(Len(RuntimeLockActions) - 1)
    /\ owner \in Slots \cup {Nobody, Wedged} /\ managed \subseteq Apps

\* Consent: an operation touches containers, volumes or the binary only after
\* the operator answered yes to its own last question, however many questions
\* other commands have put on the screen meanwhile (Confirm's own channel,
\* bridge.go).  And in a session that never clears the lock, every question
\* that waits for an answer is on the screen: the runtime lock is what keeps two
\* operations from asking at once and the later from hiding the earlier.
Consent ==
    \A s \in Slots :
        /\ cmds[s].stage = "working" => s \in agreed
        /\ "clear" \notin menu /\ ~exited /\ cmds[s].stage = "asking" /\ reply[s] = "none" => m.modal = s

\* DeletesOnlyTyped: an app leaves the host only through a delete the operator
\* agreed to and typed that very name for, although a late status message can
\* change the app a delete is aimed at between typing and Enter.
DeletesOnlyTyped ==
    [][\A a \in managed \ managed' : \E s \in Slots :
          /\ cmds[s].kind = "delete" /\ cmds[s].stage = "working"
          /\ cmds[s].arg = a /\ s \in agreed]_vars

\* RequestsKeepTheirApp: the overrides an install carries belong to the app it
\* names, although different messages set the two.  An install that asks or works
\* moves only ports its own app binds, whatever conflict of another app was
\* merged into its request and although the screen goes on writing into the map
\* it was started with (planPorts copies it before it is checked).  And as long
\* as the conflicts answered are those of the request itself, it is never one
\* that the engine refuses for its keys: they are the ports the catalog gives its
\* app, also after a port it was moved to was found busy in turn (submitPortRemap).
RequestsKeepTheirApp ==
    /\ \A s \in Slots : cmds[s].kind = "install" /\ cmds[s].stage \in {"asking", "working"}
                             => DOMAIN cmds[s].over \subseteq PortsOf[cmds[s].app]
    /\ m.req.own => DOMAIN m.req.over \subseteq UNION {PortsOf[a] : a \in Apps \cap {m.req.app}}

\* CommandsEnd: a busy screen becomes usable again, along every chain of
\* messages and whatever fails in it; and an operation that took the runtime
\* lock gives it back, whatever it is answered, in a session that never clears
\* the lock.
CommandsEnd ==
    /\ m.busy ~> (~m.busy \/ exited)
    /\ \A s \in Slots : (owner = s /\ "clear" \notin menu) ~> (owner # s)
=============================================================================
