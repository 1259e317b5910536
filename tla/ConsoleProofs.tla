---------------------------- MODULE ConsoleProofs ----------------------------
(***************************************************************************)
(* Proofs about Console for any catalog of apps, any number of commands in *)
(* flight, any ports and any sessions.  The invariant follows a question   *)
(* from the operation that asks it to the answer it takes, and a request   *)
(* from the keys that made it to the message that ends it.                 *)
(***************************************************************************)
EXTENDS Console, FiniteSetTheorems, SequenceTheorems, WellFoundedInduction, TLAPS

MaybeApp == Apps \cup {NoApp}
Overs == UNION {[D -> HostPorts] : D \in SUBSET AllPorts}
Stages == {"idle", "begin", "planning", "asking", "working", "done"}

\* The fields of the model struct.
Models ==
    [screen : Screens, busy : BOOLEAN, modal : Slots \cup {0}, apps : Seq(Apps), appCursor : Nat,
     status : MaybeApp, typed : MaybeApp, backupsOf : MaybeApp, listed : MaybeApp,
     detail : MaybeApp, conflict : [port : AllPorts \cup {0}, own : BOOLEAN], req : Requests,
     lockStatus : {"fine", "stale"}, lockCursor : {0, 1}, ready : SUBSET Loads, resOf : MaybeApp]

\* What a command carries.
Commands ==
    [kind : Loads \cup Operations, app : MaybeApp, arg : MaybeApp, over : Overs, shares : BOOLEAN, stage : Stages,
     asks : {0, 1, 2}, out : {"none", "ok", "nothing", "error", "stale", "conflict", "declined", "partial"},
     got : Seq(Apps), port : AllPorts \cup {0}]

Types ==
    /\ m \in Models
    /\ cmds \in [Slots -> Commands]
    /\ reply \in [Slots -> {"none", "yes", "no"}]
    /\ agreed \subseteq Slots
    /\ owner \in Slots \cup {Nobody, Wedged}
    /\ managed \subseteq Apps
    /\ exited \in BOOLEAN

\* A cursor points into the list it moves in, or at its start.
CursorsInside ==
    /\ m.appCursor = 0 \/ m.appCursor < Len(m.apps)
    /\ m.lockStatus = "fine" => m.lockCursor = 0
    /\ \A s \in Slots : cmds[s].kind = "lockStatus" /\ cmds[s].stage # "idle" =>
         s = 1 /\ m.lockStatus = "fine"

\* From the question to the answer: who has asked and was told yes is agreed to.
Answered ==
    \A s \in Slots :
        /\ cmds[s].stage = "working" => s \in agreed
        /\ cmds[s].stage = "asking" /\ reply[s] = "yes" => s \in agreed

InOperation(s) == cmds[s].stage \in {"planning", "asking", "working"}

\* An operation under way has the lock, and is then the only one: nobody else
\* holds it, so nobody else's question takes the place of its own.
OneAtATime ==
    "clear" \notin menu =>
        /\ owner # Wedged /\ m.lockStatus = "fine"
        /\ \A s \in Slots :
             /\ cmds[s].kind # "clear" /\ cmds[s].out # "stale"
             /\ InOperation(s) => owner = s
             /\ ~exited /\ cmds[s].stage = "asking" /\ reply[s] = "none" => m.modal = s

\* An operation that has not begun to work has a question left, and what was
\* compared before it asked stays as it was.
Compared ==
    \A s \in Slots :
        /\ cmds[s].stage \in {"begin", "planning"} => cmds[s].asks # 0
        /\ cmds[s].kind = "delete" /\ InOperation(s) => cmds[s].arg = cmds[s].app
        /\ cmds[s].kind = "install" /\ InOperation(s) => cmds[s].app # NoApp

\* A port that app `a' would bind under the overrides `over'.
BoundBy(a, over, port) ==
    a \in Apps /\ \E p \in PortsOf[a] : port = IF p \in DOMAIN over THEN over[p] ELSE p

\* A conflict ends the install that met it and names a port of its request, until
\* another request is submitted.
ConflictsOwn ==
    /\ \A s \in Slots : cmds[s].out = "conflict" =>
         cmds[s].stage = "done" /\ BoundBy(cmds[s].app, cmds[s].over, cmds[s].port)
    /\ m.conflict.own => BoundBy(m.req.app, m.req.over, m.conflict.port)

Inv == Types /\ CursorsInside /\ Answered /\ OneAtATime /\ Compared /\ ConflictsOwn /\ RequestsKeepTheirApp

-----------------------------------------------------------------------------
(* The operators of the model.                                             *)

Less == {ss \in Nat \X Nat : ss[1] < ss[2]}

\* A set of natural numbers that is not empty has a least element.
LEMMA MinProperties ==
    ASSUME NEW S, S \subseteq Nat, S # {}
    PROVE  Min(S) \in S /\ \A y \in S : Min(S) <= y
<1>1. Less = OpToRel(<, Nat)
  BY Zenon DEF Less, OpToRel
<1>2. IsWellFoundedOn(Less, Nat)
  BY NatLessThanWellFounded, <1>1, Zenon
<1>3. PICK x \in S : \A y \in S : <<y, x>> \notin Less
  BY <1>2, WFMin
<1>4. \A x1, y \in Nat : y < x1 => <<y, x1>> \in Less
  BY SMT DEF Less
<1>5. \A y \in S : ~(y < x)
  BY <1>3, <1>4, Zenon
<1>6. \A y \in S : x <= y
  BY <1>5
<1>7. QED
  BY <1>6 DEF Min

\* The slots are numbers from 1, none of them Nobody or Wedged.
LEMMA SlotNumbers ==
    /\ Slots \subseteq Nat \ {0} /\ 1 \in Slots
    /\ Nobody \notin Slots /\ Wedged \notin Slots /\ Wedged # Nobody
<1>1. Cardinality(Slots) \in Nat
  BY ConsoleAssumption, FS_CardinalityType
<1>2. QED
  BY <1>1, ConsoleAssumption DEF Nobody, Wedged

\* A moved cursor stays inside its list.
LEMMA CursorBounded ==
    ASSUME NEW c \in Nat, NEW d \in {1, -1}, NEW n \in Nat
    PROVE  /\ BoundedCursor(c, d, n) \in Nat
           /\ n = 0 => BoundedCursor(c, d, n) = 0
           /\ n > 0 => BoundedCursor(c, d, n) < n
<1>1. CASE n = 0
  BY <1>1 DEF BoundedCursor
<1>2. CASE n > 0
  <2> DEFINE lo == IF c + d <= n - 1 THEN c + d ELSE n - 1
             hi == IF lo >= 0 THEN lo ELSE 0
  <2>1. Min({c + d, n - 1}) = lo
    BY <1>2 DEF Min
  <2>2. Max({0, lo}) = hi
    <3>1. lo \in Int
      BY <1>2
    <3>2. QED
      BY <3>1 DEF Max
  <2>3. n # 0 => BoundedCursor(c, d, n) = Max({0, Min({c + d, n - 1})})
    BY Zenon DEF BoundedCursor
  <2>4. BoundedCursor(c, d, n) = hi
    BY <1>2, <2>1, <2>2, <2>3
  <2>5. QED
    BY <1>2, <2>4
<1>3. QED
  BY <1>1, <1>2

\* The listing of the managed apps holds apps of the catalog.
LEMMA ListingsType ==
    ASSUME Types, NEW list \in Listings
    PROVE  list \in Seq(Apps)
<1>1. IsFiniteSet(DOMAIN AppOrder)
  <2>1. Len(AppOrder) \in Nat /\ DOMAIN AppOrder = 1..Len(AppOrder)
    BY ConsoleAssumption, LenProperties
  <2>2. QED
    BY <2>1, FS_Interval
<1>2. IsFiniteSet(Apps)
  <2> DEFINE f == [i \in DOMAIN AppOrder |-> AppOrder[i]]
  <2>1. f \in Surjection(DOMAIN AppOrder, Apps)
    BY DEF Surjection, Apps
  <2>2. QED
    BY <1>1, <2>1, FS_Surjection
<1>3. Cardinality(managed) \in Nat
  BY <1>2, FS_Subset, FS_CardinalityType DEF Types
<1>4. list \in [1..Cardinality(managed) -> Apps]
  BY DEF Listings, Types
<1>5. QED
  BY <1>3, <1>4, SeqDef

LEMMA NoOverridesType == NoOverrides \in Overs /\ DOMAIN NoOverrides = {}
<1>1. NoOverrides \in [{} -> HostPorts] /\ DOMAIN NoOverrides = {}
  BY DEF NoOverrides
<1>2. QED
  BY <1>1 DEF Overs

\* What the entries of the two menus start and show.
LEMMA MenuTypes ==
    /\ \A e \in DOMAIN Dashboard : /\ Dashboard[e][1] \in Screens
                                   /\ Dashboard[e][2] \in (Loads \cup Operations) \ {"lockStatus", "clear"}
    /\ \A e \in DOMAIN AppActions : /\ AppActions[e][1] \in Screens
                                    /\ AppActions[e][2] \in (Loads \cup Operations) \ {"lockStatus", "clear"}
<1>1. \A e \in DOMAIN Dashboard : Dashboard[e][1] \in Screens
  BY DEF Screens
<1>2. \A e \in DOMAIN Dashboard : Dashboard[e][2] \in (Loads \cup Operations) \ {"lockStatus", "clear"}
  BY DEF Dashboard, Loads, Operations
<1>3. \A e \in DOMAIN AppActions : /\ AppActions[e][1] \in Screens
                                   /\ AppActions[e][2] \in (Loads \cup Operations) \ {"lockStatus", "clear"}
  BY DEF AppActions, Loads, Operations, AppOperations, Screens
<1>4. QED
  BY <1>1, <1>2, <1>3

-----------------------------------------------------------------------------
(* Keys.                                                                   *)

LEMMA ScreenNames ==
    {"dashboard", "appActions", "removeActions", "deleteName", "installForm", "portRemap",
     "backupsList", "runtimeLock", "resources", "viewEnv", "checkApps", "installResult"} \subseteq Screens
  <1>1. Dashboard["check"][1] = "checkApps" /\ "check" \in DOMAIN Dashboard
    BY DEF Dashboard
  <1>2. ResultScreen["install"] = "installResult" /\ "install" \in DOMAIN ResultScreen
    BY DEF ResultScreen
  <1>3. QED
    BY <1>1, <1>2 DEF Screens

LEMMA NoAppType == NoApp \in MaybeApp
  BY DEF MaybeApp

\* A model a handler may return: the question and the state of the lock shown
\* are those of before, the cursors point into their lists, and a conflict and
\* the overrides go with the request.
Sound(x) ==
    /\ x \in Models /\ x.modal = m.modal
    /\ x.appCursor = 0 \/ x.appCursor < Len(x.apps)
    /\ x.lockStatus = "fine" => x.lockCursor = 0
    /\ x.conflict.own => BoundBy(x.req.app, x.req.over, x.conflict.port)
    /\ x.req.own => DOMAIN x.req.over \subseteq UNION {PortsOf[a] : a \in Apps \cap {x.req.app}}

\* A command a key may start.
Startable(c) ==
    /\ c \in Commands /\ c.stage = "begin" /\ c.asks # 0 /\ c.out = "none" /\ c.kind # "lockStatus"
    /\ c.kind = "clear" => "clear" \in menu

\* A command that is running, after a key: only an install that has not asked
\* yet may find other overrides.
Undisturbed(d, c) ==
    /\ d.kind = c.kind /\ d.app = c.app /\ d.arg = c.arg /\ d.stage = c.stage
    /\ d.asks = c.asks /\ d.out = c.out /\ d.port = c.port
    /\ d.over = c.over \/ c.stage \in {"begin", "planning"}

LEMMA InvSound == Inv => Sound(m)
  BY DEF Inv, Types, CursorsInside, ConflictsOwn, RequestsKeepTheirApp, Sound

\* A handler that starts nothing keeps the invariant.
LEMMA ShowKeeps ==
    ASSUME Inv, NEW x, Sound(x), x.lockStatus = m.lockStatus, Show(x)
    PROVE  Inv'
<1> USE DEF Inv, Show, Sound
<1>1. Types'
  BY DEF Types
<1>2. CursorsInside'
  BY DEF CursorsInside
<1>3. Answered'
  BY DEF Answered
<1>4. OneAtATime'
  BY DEF OneAtATime, InOperation
<1>5. Compared'
  BY DEF Compared, InOperation
<1>6. ConflictsOwn'
  BY DEF ConflictsOwn, BoundBy
<1>7. RequestsKeepTheirApp'
  BY DEF RequestsKeepTheirApp
<1>8. QED
  BY <1>1, <1>2, <1>3, <1>4, <1>5, <1>6, <1>7

\* So does one that starts a command: the slot it takes was idle.
LEMMA StartAmongKeeps ==
    ASSUME Inv, NEW x, Sound(x), x.lockStatus = m.lockStatus, NEW c, Startable(c),
           NEW running \in [Slots -> Commands], \A s \in Slots : Undisturbed(running[s], cmds[s]),
           StartAmong(running, x, c)
    PROVE  Inv'
<1> DEFINE i == Min(Idle)
<1>1. i \in Slots /\ cmds[i].stage = "idle"
  <2>1. Idle \subseteq Nat /\ Idle # {}
    BY SlotNumbers DEF Idle, StartAmong
  <2>2. i \in Idle
    BY <2>1, MinProperties
  <2>3. QED
    BY <2>2 DEF Idle
<1>2. /\ m' = [x EXCEPT !.busy = TRUE]
      /\ cmds' = [running EXCEPT ![i] = c]
      /\ reply' = [reply EXCEPT ![i] = "none"]
      /\ agreed' = agreed \ {i}
      /\ UNCHANGED <<menu, owner, managed, launch, exited>>
  BY DEF StartAmong
<1> HIDE DEF i
<1>3. /\ m' \in Models /\ m'.modal = x.modal /\ m'.lockStatus = x.lockStatus /\ m'.lockCursor = x.lockCursor
      /\ m'.appCursor = x.appCursor /\ m'.apps = x.apps /\ m'.conflict = x.conflict /\ m'.req = x.req
  BY <1>2 DEF Sound, Models
<1>4. cmds' \in [Slots -> Commands] /\ cmds'[i] = c /\ \A s \in Slots \ {i} : Undisturbed(cmds'[s], cmds[s])
  BY <1>1, <1>2 DEF Startable
<1>5. reply' \in [Slots -> {"none", "yes", "no"}] /\ \A s \in Slots \ {i} : reply'[s] = reply[s]
  BY <1>1, <1>2 DEF Inv, Types
<1>6. Types'
  BY <1>2, <1>3, <1>4, <1>5 DEF Inv, Types
<1>7. CursorsInside'
  BY <1>1, <1>2, <1>3, <1>4 DEF Inv, CursorsInside, Sound, Startable, Undisturbed
<1>8. Answered'
  BY <1>1, <1>2, <1>4, <1>5 DEF Inv, Answered, Startable, Undisturbed
<1>9. OneAtATime'
  BY <1>1, <1>2, <1>3, <1>4, <1>5 DEF Inv, OneAtATime, InOperation, Startable, Sound, Undisturbed
<1>10. Compared'
  BY <1>1, <1>2, <1>4 DEF Inv, Compared, InOperation, Startable, Undisturbed
<1>11. ConflictsOwn'
  BY <1>1, <1>2, <1>3, <1>4 DEF Inv, ConflictsOwn, BoundBy, Sound, Startable, Undisturbed
<1>12. RequestsKeepTheirApp'
  BY <1>1, <1>2, <1>3, <1>4 DEF Inv, RequestsKeepTheirApp, Sound, Startable, Undisturbed
<1>13. QED
  BY <1>6, <1>7, <1>8, <1>9, <1>10, <1>11, <1>12 DEF Inv

LEMMA StartKeeps ==
    ASSUME Inv, NEW x, Sound(x), x.lockStatus = m.lockStatus, NEW c, Startable(c), Start(x, c)
    PROVE  Inv'
<1>1. cmds \in [Slots -> Commands] /\ \A s \in Slots : Undisturbed(cmds[s], cmds[s])
  BY DEF Inv, Types, Undisturbed
<1>2. StartAmong(cmds, x, c)
  BY DEF Start
<1>3. QED
  BY <1>1, <1>2, StartAmongKeeps

\* What a handler's command closes over makes it startable.
LEMMA CommandStartable ==
    ASSUME NEW kind \in (Loads \cup Operations) \ {"lockStatus"}, NEW app \in MaybeApp,
           NEW arg \in MaybeApp, NEW over \in Overs, kind = "clear" => "clear" \in menu
    PROVE  Startable(Command(kind, app, arg, over))
<1>1. <<>> \in Seq(Apps)
  BY EmptySeq
<1>2. Command(kind, app, arg, over) \in Commands
  BY <1>1 DEF Command, Commands, Stages
<1>3. QED
  BY <1>2 DEF Command, Startable

LEMMA OnAppStartable ==
    ASSUME NEW kind \in (Loads \cup Operations) \ {"lockStatus"}, NEW app \in MaybeApp,
           kind = "clear" => "clear" \in menu
    PROVE  Startable(OnApp(kind, app))
  BY CommandStartable, NoOverridesType DEF OnApp, MaybeApp

LEMMA PlainStartable ==
    ASSUME NEW kind \in (Loads \cup Operations) \ {"lockStatus"}, kind = "clear" => "clear" \in menu
    PROVE  Startable(Plain(kind))
  BY OnAppStartable DEF Plain, MaybeApp

LEMMA UnderCursorApp ==
    ASSUME Inv, m.appCursor < Len(m.apps)
    PROVE  UnderCursor \in Apps
<1>1. m.apps \in Seq(Apps) /\ m.appCursor \in Nat
  BY DEF Inv, Types, Models
<1>2. m.appCursor + 1 \in 1..Len(m.apps)
  BY <1>1, LenProperties
<1>3. QED
  BY <1>1, <1>2, ElementOfSeq DEF UnderCursor

LEMMA SomeUnderCursor ==
    ASSUME Inv, m.apps # <<>>
    PROVE  UnderCursor \in Apps
<1>1. m.apps \in Seq(Apps) /\ m.appCursor \in Nat
  BY DEF Inv, Types, Models
<1>2. Len(m.apps) > 0
  BY <1>1, EmptySeq, LenProperties
<1>3. m.appCursor < Len(m.apps)
  BY <1>1, <1>2 DEF Inv, CursorsInside
<1>4. QED
  BY <1>3, UnderCursorApp

LEMMA ActiveAppType == ASSUME Inv PROVE ActiveAppID \in MaybeApp
<1>1. m.status \in MaybeApp
  BY DEF Inv, Types, Models
<1>2. QED
  BY <1>1, UnderCursorApp DEF ActiveAppID, MaybeApp

\* A screen, and where a model differs in what is neither a question, a lock,
\* a cursor nor a request.
LEMMA ScreenKeeps ==
    ASSUME Inv, NEW screen \in Screens
    PROVE  /\ Sound([m EXCEPT !.screen = screen])
           /\ [m EXCEPT !.screen = screen].lockStatus = m.lockStatus
  BY InvSound DEF Sound, Models

LEMMA DashboardKeeps == ASSUME Inv, NEW e \in DOMAIN Dashboard, SelectDashboardAction(e) PROVE Inv'
<1> DEFINE screen == Dashboard[e][1]
           of == IF e = "backups" THEN NoApp ELSE m.backupsOf
           list == IF e = "backups" THEN NoApp ELSE m.listed
           kept == m.ready \ (Checks \cap {Dashboard[e][2]})
           x == [m EXCEPT !.screen = screen, !.backupsOf = of, !.listed = list, !.ready = kept]
<1>1. Start(x, Plain(Dashboard[e][2]))
  BY DEF SelectDashboardAction
<1>2. Dashboard[e][1] \in Screens /\ Startable(Plain(Dashboard[e][2]))
  BY MenuTypes, PlainStartable
<1>3. Sound(x) /\ x.lockStatus = m.lockStatus
  <2>1. screen \in Screens /\ of \in MaybeApp /\ list \in MaybeApp /\ kept \in SUBSET Loads
    BY <1>2 DEF Inv, Types, Models, MaybeApp
  <2> HIDE DEF screen, of, list, kept
  <2>2. QED
    BY <2>1, InvSound DEF Sound, Models
<1>4. QED
  BY <1>1, <1>2, <1>3, StartKeeps

LEMMA AppActionKeeps == ASSUME Inv, NEW e \in DOMAIN AppActions, SelectAppAction(e) PROVE Inv'
<1> DEFINE screen == AppActions[e][1]
           of == IF e = "resources" THEN NoApp ELSE m.resOf
           x == [m EXCEPT !.screen = screen, !.resOf = of]
<1>1. Start(x, OnApp(AppActions[e][2], ActiveAppID))
  BY DEF SelectAppAction
<1>2. AppActions[e][1] \in Screens /\ Startable(OnApp(AppActions[e][2], ActiveAppID))
  BY MenuTypes, OnAppStartable, ActiveAppType
<1>3. Sound(x) /\ x.lockStatus = m.lockStatus
  <2>1. screen \in Screens /\ of \in MaybeApp
    BY <1>2 DEF Inv, Types, Models, MaybeApp
  <2> HIDE DEF screen, of
  <2>2. QED
    BY <2>1, InvSound DEF Sound, Models
<1>4. QED
  BY <1>1, <1>2, <1>3, StartKeeps

LEMMA CursorKeeps == ASSUME Inv, NEW d \in {1, -1}, MoveCursor(d) PROVE Inv'
<1> DEFINE n == BoundedCursor(m.appCursor, d, Len(m.apps))
           x == [m EXCEPT !.appCursor = n]
<1>1. Show(x)
  BY DEF MoveCursor
<1>2. n \in Nat /\ (n = 0 \/ n < Len(m.apps))
  <2>1. m.apps \in Seq(Apps) /\ m.appCursor \in Nat
    BY DEF Inv, Types, Models
  <2>2. Len(m.apps) \in Nat
    BY <2>1, LenProperties
  <2>3. /\ n \in Nat
        /\ Len(m.apps) = 0 => n = 0
        /\ Len(m.apps) > 0 => n < Len(m.apps)
    BY <2>1, <2>2, CursorBounded, Zenon
  <2>4. QED
    BY <2>2, <2>3
<1>3. Sound(x) /\ x.lockStatus = m.lockStatus
  <2> HIDE DEF n
  <2>1. QED
    BY <1>2, InvSound DEF Sound, Models
<1>4. QED
  BY <1>1, <1>3, ShowKeeps

LEMMA LockCursorKeeps == ASSUME Inv, NEW d \in {1, -1}, MoveLockCursor(d) PROVE Inv'
<1> DEFINE n == BoundedCursor(m.lockCursor, d, Len(RuntimeLockActions))
           x == [m EXCEPT !.lockCursor = n]
<1>1. Show(x)
  BY DEF MoveLockCursor
<1>2. n \in {0, 1} /\ (m.lockStatus = "fine" => n = 0)
  <2>1. m.lockCursor \in Nat /\ m.lockStatus \in {"fine", "stale"}
    BY DEF Inv, Types, Models
  <2>2. Len(RuntimeLockActions) = IF m.lockStatus = "stale" THEN 2 ELSE 1
    BY DEF RuntimeLockActions
  <2>3. Len(RuntimeLockActions) \in Nat
    BY <2>2
  <2>4. n \in Nat /\ (Len(RuntimeLockActions) > 0 => n < Len(RuntimeLockActions))
    BY <2>1, <2>3, CursorBounded, Zenon
  <2>5. QED
    BY <2>1, <2>2, <2>4
<1>3. Sound(x) /\ x.lockStatus = m.lockStatus
  <2> HIDE DEF n
  <2>1. QED
    BY <1>2, InvSound DEF Sound, Models
<1>4. QED
  BY <1>1, <1>3, ShowKeeps

\* The keys that pick one of the managed apps or one of the snapshots shown.
LEMMA PickKeeps ==
    ASSUME Inv, SelectManagedApp \/ SelectUpdateApp \/ SelectBackupsApp \/ SelectBackupSnapshot
    PROVE  Inv'
<1>1. CASE SelectManagedApp
  <2> DEFINE x == [m EXCEPT !.screen = "appActions", !.status = NoApp]
  <2>1. Start(x, OnApp("status", UnderCursor)) /\ UnderCursor \in Apps
    BY <1>1, SomeUnderCursor DEF SelectManagedApp
  <2>2. Startable(OnApp("status", UnderCursor))
    BY <2>1, OnAppStartable DEF Loads, MaybeApp
  <2>3. Sound(x) /\ x.lockStatus = m.lockStatus
    <3>1. "appActions" \in Screens
      BY ScreenNames
    <3>2. QED
      BY <3>1, InvSound, NoAppType DEF Sound, Models
  <2>4. QED
    BY <2>1, <2>2, <2>3, StartKeeps
<1>2. CASE SelectUpdateApp
  <2>1. Start(m, OnApp("update", UnderCursor)) /\ UnderCursor \in Apps
    BY <1>2, SomeUnderCursor DEF SelectUpdateApp
  <2>2. Startable(OnApp("update", UnderCursor))
    BY <2>1, OnAppStartable DEF Operations, AppOperations, MaybeApp
  <2>3. QED
    BY <2>1, <2>2, InvSound, StartKeeps
<1>3. CASE SelectBackupsApp
  <2> DEFINE a == UnderCursor
             x == [m EXCEPT !.backupsOf = a, !.screen = "backupsList", !.listed = NoApp]
  <2>1. Start(x, OnApp("backups", UnderCursor)) /\ a \in Apps
    BY <1>3, SomeUnderCursor DEF SelectBackupsApp
  <2>2. Startable(OnApp("backups", UnderCursor))
    BY <2>1, OnAppStartable DEF Loads, MaybeApp
  <2>3. Sound(x) /\ x.lockStatus = m.lockStatus
    <3>1. "backupsList" \in Screens /\ a \in MaybeApp
      BY <2>1, ScreenNames DEF MaybeApp
    <3> HIDE DEF a
    <3>2. QED
      BY <3>1, InvSound, NoAppType DEF Sound, Models
  <2>4. QED
    BY <2>1, <2>2, <2>3, StartKeeps
<1>4. CASE SelectBackupSnapshot
  <2> DEFINE c == Command("restore", m.backupsOf, m.listed, NoOverrides)
  <2>1. Start(m, c) /\ m.backupsOf \in MaybeApp /\ m.listed \in MaybeApp
    BY <1>4 DEF SelectBackupSnapshot, Inv, Types, Models
  <2>2. Startable(c)
    BY <2>1, CommandStartable, NoOverridesType DEF Operations, AppOperations
  <2>3. QED
    BY <2>1, <2>2, InvSound, StartKeeps
<1>5. QED
  BY <1>1, <1>2, <1>3, <1>4

\* The keys of the screens that remove or delete an app.
LEMMA RemoveKeeps ==
    ASSUME Inv, RemoveEntry \/ ReturnToDashboard \/ SelectRemove \/ SelectDelete \/ SubmitDelete
                \/ \E a \in Apps : TypeName(a)
    PROVE  Inv'
<1>1. CASE RemoveEntry
  <2> DEFINE x == [m EXCEPT !.screen = "removeActions", !.typed = NoApp]
  <2>1. Show(x) /\ "removeActions" \in Screens
    BY <1>1, ScreenNames DEF RemoveEntry
  <2>2. Sound(x) /\ x.lockStatus = m.lockStatus
    BY <2>1, InvSound, NoAppType DEF Sound, Models
  <2>3. QED
    BY <2>1, <2>2, ShowKeeps
<1>2. CASE ReturnToDashboard
  <2>1. Show([m EXCEPT !.screen = "dashboard"]) /\ "dashboard" \in Screens
    BY <1>2 DEF ReturnToDashboard, Screens
  <2>2. QED
    BY <2>1, ScreenKeeps, ShowKeeps
<1>3. CASE SelectRemove
  <2>1. Start(m, OnApp("remove", ActiveAppID)) /\ Startable(OnApp("remove", ActiveAppID))
    BY <1>3, OnAppStartable, ActiveAppType DEF SelectRemove, Operations, AppOperations
  <2>2. QED
    BY <2>1, InvSound, StartKeeps
<1>4. CASE SelectDelete
  <2> DEFINE x == [m EXCEPT !.screen = "deleteName", !.typed = NoApp]
  <2>1. Show(x) /\ "deleteName" \in Screens
    BY <1>4, ScreenNames DEF SelectDelete
  <2>2. Sound(x) /\ x.lockStatus = m.lockStatus
    BY <2>1, InvSound, NoAppType DEF Sound, Models
  <2>3. QED
    BY <2>1, <2>2, ShowKeeps
<1>5. CASE SubmitDelete
  <2> DEFINE c == Command("delete", ActiveAppID, m.typed, NoOverrides)
  <2>1. Start(m, c) /\ m.typed \in MaybeApp
    BY <1>5 DEF SubmitDelete, Inv, Types, Models
  <2>2. Startable(c)
    BY <2>1, CommandStartable, ActiveAppType, NoOverridesType DEF Operations, AppOperations
  <2>3. QED
    BY <2>1, <2>2, InvSound, StartKeeps
<1>6. ASSUME NEW a \in Apps, TypeName(a) PROVE Inv'
  <2> DEFINE x == [m EXCEPT !.typed = a]
  <2>1. Show(x) /\ Sound(x) /\ x.lockStatus = m.lockStatus
    BY <1>6, InvSound DEF TypeName, Sound, Models, MaybeApp
  <2>2. QED
    BY <2>1, ShowKeeps
<1>7. QED
  BY <1>1, <1>2, <1>3, <1>4, <1>5, <1>6

\* The keys that start a request which names no app, or only the one shown.
LEMMA RequestKeeps ==
    ASSUME Inv, SelectCatalogUpdate \/ SelectSelfUpdate \/ SaveSettings \/ SubmitReconfigure
                \/ \E a \in Apps : SelectCatalogApp(a)
    PROVE  Inv'
<1>1. CASE SelectCatalogUpdate \/ SelectSelfUpdate \/ SaveSettings
  <2>1. PICK kind \in {"catalogUpdate", "selfUpdate", "saveSettings"} : Start(m, Plain(kind))
    BY <1>1 DEF SelectCatalogUpdate, SelectSelfUpdate, SaveSettings
  <2>2. Startable(Plain(kind))
    BY <2>1, PlainStartable DEF Loads, Operations
  <2>3. QED
    BY <2>1, <2>2, InvSound, StartKeeps
<1>2. CASE SubmitReconfigure
  <2> DEFINE c == Command("reconfigure", ActiveAppID, m.resOf, NoOverrides)
  <2>1. Start(m, c) /\ m.resOf \in MaybeApp
    BY <1>2 DEF SubmitReconfigure, Inv, Types, Models
  <2>2. Startable(c)
    BY <2>1, CommandStartable, ActiveAppType, NoOverridesType DEF Operations, AppOperations
  <2>3. QED
    BY <2>1, <2>2, InvSound, StartKeeps
<1>3. ASSUME NEW a \in Apps, SelectCatalogApp(a) PROVE Inv'
  <2> DEFINE x == [m EXCEPT !.detail = NoApp]
  <2>1. Start(x, OnApp("catalogApp", a)) /\ Startable(OnApp("catalogApp", a))
    BY <1>3, OnAppStartable DEF SelectCatalogApp, Loads, MaybeApp
  <2>2. Sound(x) /\ x.lockStatus = m.lockStatus
    BY InvSound DEF Sound, Models, MaybeApp
  <2>3. QED
    BY <2>1, <2>2, StartKeeps
<1>4. QED
  BY <1>1, <1>2, <1>3

\* The overrides of a request whose conflict is its own stay keyed by the ports
\* the catalog gives its app, whichever key the loop meets first.
LEMMA RemappedKeys ==
    ASSUME NEW a, NEW over \in Overs, NEW port \in AllPorts, NEW to \in HostPorts,
           NEW key \in CatalogKeys(over, port)
    PROVE  /\ Remapped(over, key, to) \in Overs
           /\ BoundBy(a, over, port) /\ DOMAIN over \subseteq PortsOf[a] =>
                DOMAIN Remapped(over, key, to) \subseteq PortsOf[a]
<1>1. PICK D \in SUBSET AllPorts : over \in [D -> HostPorts]
  BY DEF Overs
<1>2. key \in D \/ (key = port /\ \A p \in D : over[p] # port)
  BY <1>1 DEF CatalogKeys
<1>3. Remapped(over, key, to) = [p \in DOMAIN over \cup {key} |-> IF p = key THEN to ELSE over[p]]
  BY DEF Remapped
<1>4. Remapped(over, key, to) \in [D \cup {key} -> HostPorts] /\ D \cup {key} \in SUBSET AllPorts
  BY <1>1, <1>2, <1>3
<1>5. Remapped(over, key, to) \in Overs
  BY <1>4 DEF Overs
<1>6. ASSUME BoundBy(a, over, port), DOMAIN over \subseteq PortsOf[a]
      PROVE  DOMAIN Remapped(over, key, to) \subseteq PortsOf[a]
  <2>1. PICK p \in PortsOf[a] : port = IF p \in DOMAIN over THEN over[p] ELSE p
    BY <1>6 DEF BoundBy
  <2>2. key \in PortsOf[a]
    BY <1>1, <1>2, <1>6, <2>1
  <2>3. QED
    BY <1>1, <1>4, <1>6, <2>2
<1>7. QED
  BY <1>5, <1>6

LEMMA InstallKeeps == ASSUME Inv, SubmitInstall PROVE Inv'
<1> DEFINE req == [app |-> m.detail, over |-> NoOverrides, own |-> TRUE]
           conf == [m.conflict EXCEPT !.own = FALSE]
           x == [m EXCEPT !.req = req, !.conflict = conf]
           c == Command("install", req.app, NoApp, req.over)
           running == [s \in Slots |-> [cmds[s] EXCEPT !.shares = FALSE]]
<1>1. StartAmong(running, x, c)
  BY DEF SubmitInstall
<1>r. running \in [Slots -> Commands] /\ \A s \in Slots : Undisturbed(running[s], cmds[s])
  <2>1. ASSUME NEW d \in Commands PROVE LET e == [d EXCEPT !.shares = FALSE] IN e \in Commands /\ Undisturbed(e, d)
    BY DEF Commands, Undisturbed
  <2>2. QED
    BY <2>1 DEF Inv, Types
<1>2. req \in Requests /\ req.app = m.detail /\ req.over = NoOverrides /\ m.detail \in MaybeApp
  BY NoOverridesType DEF Inv, Types, Models, Requests, MaybeApp, Overs
<1>3. Startable(c)
  BY <1>2, CommandStartable, NoOverridesType, NoAppType DEF Operations
<1>4. conf \in [port : AllPorts \cup {0}, own : BOOLEAN] /\ conf.own = FALSE
  BY DEF Inv, Types, Models
<1>5. DOMAIN req.over = {}
  BY <1>2, NoOverridesType
<1>6. Sound(x) /\ x.lockStatus = m.lockStatus
  <2> HIDE DEF req, conf
  <2>1. QED
    BY <1>2, <1>4, <1>5, InvSound DEF Sound, Models
<1> HIDE DEF running, x, c
<1>7. QED
  BY <1>1, <1>r, <1>3, <1>6, StartAmongKeeps

\* Overrides that are written into a shared map reach only installs that have
\* not asked.
LEMMA MapWrittenKeeps ==
    ASSUME Inv, NEW over \in Overs, NEW copied \in SUBSET Sharing
    PROVE  /\ MapWritten(over, copied) \in [Slots -> Commands]
           /\ \A s \in Slots : Undisturbed(MapWritten(over, copied)[s], cmds[s])
<1>1. ASSUME NEW d \in Commands
      PROVE  /\ [d EXCEPT !.shares = FALSE] \in Commands /\ Undisturbed([d EXCEPT !.shares = FALSE], d)
             /\ [d EXCEPT !.over = over] \in Commands
             /\ d.stage \in {"begin", "planning"} => Undisturbed([d EXCEPT !.over = over], d)
             /\ Undisturbed(d, d)
  BY DEF Commands, Undisturbed
<1>2. cmds \in [Slots -> Commands]
  BY DEF Inv, Types
<1>3. ASSUME NEW s \in Slots
      PROVE  MapWritten(over, copied)[s] \in Commands /\ Undisturbed(MapWritten(over, copied)[s], cmds[s])
  <2>1. CASE s \in copied
    BY <1>1, <1>2, <2>1 DEF MapWritten
  <2>2. CASE s \notin copied /\ s \in Sharing
    BY <1>1, <1>2, <2>2 DEF MapWritten, Sharing
  <2>3. CASE s \notin copied /\ s \notin Sharing
    BY <1>1, <1>2, <2>3 DEF MapWritten
  <2>4. QED
    BY <2>1, <2>2, <2>3
<1>4. QED
  BY <1>3 DEF MapWritten

LEMMA RemapKeeps == ASSUME Inv, NEW to \in HostPorts, SubmitPortRemap(to) PROVE Inv'
<1>p. PICK key \in CatalogKeys(m.req.over, m.conflict.port), copied \in SUBSET Sharing :
         LET r == [m.req EXCEPT !.over = Remapped(@, key, to), !.own = @ /\ m.conflict.own]
         IN  StartAmong(MapWritten(r.over, copied), [m EXCEPT !.req = r, !.conflict.own = FALSE],
                        [Command("install", r.app, NoApp, r.over) EXCEPT !.shares = TRUE])
  BY DEF SubmitPortRemap
<1> DEFINE over == Remapped(m.req.over, key, to)
           own == m.req.own /\ m.conflict.own
           req == [m.req EXCEPT !.over = over, !.own = own]
           conf == [m.conflict EXCEPT !.own = FALSE]
           x == [m EXCEPT !.req = req, !.conflict = conf]
           b == Command("install", req.app, NoApp, req.over)
           c == [b EXCEPT !.shares = TRUE]
<1>1. StartAmong(MapWritten(req.over, copied), x, c) /\ m.conflict.port # 0
  BY <1>p DEF SubmitPortRemap
<1>2. /\ m.req \in Requests /\ m.req.app \in MaybeApp /\ m.req.over \in Overs
      /\ m.conflict \in [port : AllPorts \cup {0}, own : BOOLEAN]
  BY DEF Inv, Types, Models, Requests, MaybeApp, Overs
<1>3. m.conflict.port \in AllPorts /\ m.conflict.own \in BOOLEAN
  BY <1>1, <1>2
<1>4. over \in Overs
  BY <1>2, <1>3, RemappedKeys
<1>5. own => DOMAIN over \subseteq UNION {PortsOf[a] : a \in Apps \cap {m.req.app}}
  <2>1. SUFFICES ASSUME own
                 PROVE  DOMAIN over \subseteq UNION {PortsOf[a] : a \in Apps \cap {m.req.app}}
    OBVIOUS
  <2>2. BoundBy(m.req.app, m.req.over, m.conflict.port)
    BY <2>1 DEF Inv, ConflictsOwn
  <2>3. m.req.app \in Apps
    BY <2>2 DEF BoundBy
  <2>4. DOMAIN m.req.over \subseteq PortsOf[m.req.app]
    BY <2>1, <2>3 DEF Inv, RequestsKeepTheirApp
  <2>5. DOMAIN over \subseteq PortsOf[m.req.app]
    BY <1>2, <1>3, <2>2, <2>4, RemappedKeys
  <2>6. QED
    BY <2>3, <2>5
<1>o. own \in BOOLEAN
  BY <1>2, <1>3 DEF Requests
<1> HIDE DEF over, own
<1>6. req \in Requests /\ req.app = m.req.app /\ req.over = over /\ req.own = own
  BY <1>2, <1>o, <1>4 DEF Requests, Overs
<1>7. Startable(c)
  <2>1. Startable(b)
    BY <1>2, <1>4, <1>6, CommandStartable, NoAppType DEF Operations
  <2> HIDE DEF b
  <2>2. QED
    BY <2>1 DEF Startable, Commands
<1>m. /\ MapWritten(req.over, copied) \in [Slots -> Commands]
      /\ \A s \in Slots : Undisturbed(MapWritten(req.over, copied)[s], cmds[s])
  BY <1>4, <1>6, MapWrittenKeeps
<1>8. conf \in [port : AllPorts \cup {0}, own : BOOLEAN] /\ conf.own = FALSE
  BY <1>2
<1>9. Sound(x) /\ x.lockStatus = m.lockStatus
  <2> HIDE DEF req, conf
  <2>1. QED
    BY <1>5, <1>6, <1>8, InvSound DEF Sound, Models
<1> HIDE DEF req, conf, x, b, c
<1>10. QED
  BY <1>1, <1>7, <1>9, <1>m, StartAmongKeeps

\* The list offers to clear only a lock that was found stale.
LEMMA RuntimeLockKeeps == ASSUME Inv, SelectRuntimeLock PROVE Inv'
<1>1. CASE RuntimeLockActions[m.lockCursor + 1] = "clear"
  <2>1. Start(m, Plain("clear"))
    BY <1>1 DEF SelectRuntimeLock
  <2>2. m.lockStatus = "stale"
    BY <1>1 DEF RuntimeLockActions, Inv, Types, CursorsInside, Models
  <2>3. "clear" \in menu
    BY <2>2 DEF Inv, OneAtATime
  <2>4. Startable(Plain("clear"))
    BY <2>3, PlainStartable DEF Operations
  <2>5. QED
    BY <2>1, <2>4, InvSound, StartKeeps
<1>2. CASE RuntimeLockActions[m.lockCursor + 1] # "clear"
  <2>1. Show([m EXCEPT !.screen = "dashboard"]) /\ "dashboard" \in Screens
    BY <1>2, ScreenNames DEF SelectRuntimeLock
  <2>2. QED
    BY <2>1, ScreenKeeps, ShowKeeps
<1>3. QED
  BY <1>1, <1>2

LEMMA BackKeeps == ASSUME Inv, Back PROVE Inv'
<1> DEFINE screen == Parent(m.screen)
           conf == IF m.screen = "portRemap" THEN NoConflict ELSE m.conflict
           of == IF m.screen = "resources" THEN NoApp ELSE m.resOf
           x == [m EXCEPT !.screen = screen, !.conflict = conf, !.resOf = of]
<1>1. Show(x)
  BY DEF Back
<1>2. screen \in Screens
  <2>1. {"dashboard", "appActions", "checkApps", "backupsApps", "installCatalog", "installForm"} \subseteq Screens
    <3>1. /\ Dashboard["backups"][1] = "backupsApps" /\ "backups" \in DOMAIN Dashboard
          /\ Dashboard["install"][1] = "installCatalog" /\ "install" \in DOMAIN Dashboard
      BY DEF Dashboard
    <3>2. {"backupsApps", "installCatalog"} \subseteq Screens
      BY <3>1 DEF Screens
    <3>3. QED
      BY <3>2, ScreenNames
  <2>2. screen \in {"dashboard", "appActions", "checkApps", "backupsApps", "installCatalog", "installForm"}
    BY DEF Parent
  <2>3. QED
    BY <2>1, <2>2
<1>3. of \in MaybeApp /\ conf \in [port : AllPorts \cup {0}, own : BOOLEAN] /\ (conf.own => conf = m.conflict)
  BY NoAppType DEF Inv, Types, Models, NoConflict
<1>4. Sound(x) /\ x.lockStatus = m.lockStatus
  <2> HIDE DEF screen, conf, of
  <2>1. QED
    BY <1>2, <1>3, InvSound DEF Sound, Models
<1>5. QED
  BY <1>1, <1>4, ShowKeeps

LEMMA NoCommandType == NoCommand \in Commands /\ NoCommand.stage = "idle" /\ NoCommand.kind = "lockStatus" /\ NoCommand.out = "none"
  BY NoOverridesType, NoAppType, EmptySeq DEF NoCommand, Command, Commands, Stages, Loads

LEMMA NewModelType ==
    /\ NewModel \in Models /\ NewModel.appCursor = 0 /\ NewModel.lockStatus = "fine"
    /\ NewModel.lockCursor = 0 /\ ~NewModel.conflict.own /\ DOMAIN NewModel.req.over = {} /\ NewModel.modal = 0
<1> DEFINE req == [app |-> NoApp, over |-> NoOverrides, own |-> TRUE]
<1>1. req \in Requests /\ DOMAIN req.over = {}
  BY NoOverridesType DEF Requests, Overs
<1>2. NewModel.req = req /\ NewModel.conflict = NoConflict
  BY DEF NewModel
<1>3. NewModel \in Models
  <2> HIDE DEF req
  <2>1. "dashboard" \in Screens /\ <<>> \in Seq(Apps) /\ NoConflict \in [port : AllPorts \cup {0}, own : BOOLEAN]
    BY ScreenNames, EmptySeq DEF NoConflict
  <2>2. QED
    BY <1>1, <1>2, <2>1, NoAppType DEF NewModel, Models
<1>4. QED
  BY <1>1, <1>2, <1>3 DEF NewModel, NoConflict

\* The program ends: nothing is left that could be wrong.
LEMMA ExitKeeps == ASSUME Inv, Exit, UNCHANGED <<menu, managed>> PROVE Inv'
<1>1. /\ exited' = TRUE /\ m' = NewModel /\ agreed' = {}
      /\ \A s \in Slots : cmds'[s] = NoCommand /\ reply'[s] = "none"
      /\ owner' \in {Nobody, owner} /\ (owner \notin Slots => owner' = owner)
  BY DEF Exit
<1>2. Types'
  <2>1. cmds' \in [Slots -> Commands] /\ reply' \in [Slots -> {"none", "yes", "no"}]
    BY NoCommandType DEF Exit
  <2>2. QED
    BY <1>1, <2>1, NewModelType DEF Inv, Types
<1>3. CursorsInside' /\ Answered' /\ Compared' /\ ConflictsOwn' /\ RequestsKeepTheirApp'
  BY <1>1, NoCommandType, NewModelType
     DEF CursorsInside, Answered, Compared, InOperation, ConflictsOwn, RequestsKeepTheirApp
<1>4. OneAtATime'
  BY <1>1, NoCommandType, NewModelType, SlotNumbers DEF Inv, OneAtATime, InOperation
<1>5. QED
  BY <1>2, <1>3, <1>4 DEF Inv

\* The answer goes to the question shown, and only there.
LEMMA AnswerKeeps == ASSUME Inv, NEW yes \in BOOLEAN, Answer(yes) PROVE Inv'
<1>1. m.modal \in Slots /\ m \in Models
  BY DEF Answer, Inv, Types, Models
<1>2. /\ m' \in Models /\ m'.modal = 0 /\ m'.lockStatus = m.lockStatus /\ m'.lockCursor = m.lockCursor
      /\ m'.appCursor = m.appCursor /\ m'.apps = m.apps /\ m'.conflict = m.conflict /\ m'.req = m.req
  BY <1>1 DEF Answer, Models
<1>3. /\ reply' \in [Slots -> {"none", "yes", "no"}] /\ reply'[m.modal] \in {"yes", "no"}
      /\ \A s \in Slots \ {m.modal} : reply'[s] = reply[s]
      /\ yes => m.modal \in agreed'
      /\ reply'[m.modal] = "yes" => yes
      /\ agreed \subseteq agreed' /\ agreed' \subseteq Slots
  BY <1>1 DEF Answer, AnswerTo, Inv, Types
<1>4. UNCHANGED <<menu, cmds, owner, managed, launch, exited>>
  BY DEF Answer
<1>5. Types'
  BY <1>2, <1>3, <1>4 DEF Inv, Types
<1>6. CursorsInside' /\ Compared' /\ ConflictsOwn' /\ RequestsKeepTheirApp'
  BY <1>2, <1>4 DEF Inv, CursorsInside, Compared, InOperation, ConflictsOwn, BoundBy, RequestsKeepTheirApp
<1>7. Answered'
  BY <1>1, <1>3, <1>4 DEF Inv, Answered
<1>8. OneAtATime'
  BY <1>1, <1>2, <1>3, <1>4, SlotNumbers DEF Inv, OneAtATime, InOperation
<1>9. QED
  BY <1>5, <1>6, <1>7, <1>8 DEF Inv

-----------------------------------------------------------------------------
(* Commands.                                                               *)

\* A command that goes on keeps what it closed over.
Same(c, d) == c.kind = d.kind /\ c.app = d.app /\ c.arg = d.arg /\ c.over = d.over

\* A command that ends gives up the lock if it has it.
LEMMA FinishStep ==
    ASSUME Inv, NEW s \in Slots, NEW out \in {"ok", "error", "declined", "partial"}, Finish(s, out)
    PROVE  /\ cmds' \in [Slots -> Commands] /\ \A t \in Slots \ {s} : cmds'[t] = cmds[t]
           /\ cmds'[s].stage = "done" /\ cmds'[s].out = out /\ Same(cmds'[s], cmds[s])
<1>1. cmds \in [Slots -> Commands] /\ cmds[s] \in Commands
  BY DEF Inv, Types
<1>2. cmds' = [cmds EXCEPT ![s] = [cmds[s] EXCEPT !.stage = "done", !.out = out, !.asks = 1]]
  BY <1>1 DEF Finish, Commands
<1>3. /\ [cmds[s] EXCEPT !.stage = "done", !.out = out, !.asks = 1] \in Commands
      /\ [cmds[s] EXCEPT !.stage = "done", !.out = out, !.asks = 1].stage = "done"
      /\ [cmds[s] EXCEPT !.stage = "done", !.out = out, !.asks = 1].out = out
      /\ Same([cmds[s] EXCEPT !.stage = "done", !.out = out, !.asks = 1], cmds[s])
  BY <1>1 DEF Commands, Stages, Same
<1>4. QED
  BY <1>1, <1>2, <1>3

\* A step of one command that leaves the model and the others alone.
LEMMA EndKeeps ==
    ASSUME Inv, NEW s \in Slots, UNCHANGED <<menu, m, exited>>,
           cmds' \in [Slots -> Commands], \A t \in Slots \ {s} : cmds'[t] = cmds[t],
           cmds'[s].stage = "done", Same(cmds'[s], cmds[s]), cmds[s].stage # "idle",
           cmds'[s].out = "stale" => owner = Wedged,
           cmds'[s].out = "conflict" => BoundBy(cmds'[s].app, cmds'[s].over, cmds'[s].port),
           reply' \in [Slots -> {"none", "yes", "no"}], \A t \in Slots \ {s} : reply'[t] = reply[t],
           agreed' \in {agreed, agreed \ {s}},
           owner' \in {owner, Nobody}, owner' # owner => owner \in {s, Wedged},
           managed' \subseteq Apps
    PROVE  Inv'
<1>1. Types'
  BY SlotNumbers DEF Inv, Types
<1>2. CursorsInside'
  BY DEF Inv, CursorsInside, Same
<1>3. Answered'
  BY DEF Inv, Answered
<1>4. OneAtATime'
  BY SlotNumbers DEF Inv, OneAtATime, InOperation, Same
<1>5. Compared'
  BY DEF Inv, Compared, InOperation
<1>6. ConflictsOwn'
  BY DEF Inv, ConflictsOwn, BoundBy, Same
<1>7. RequestsKeepTheirApp'
  BY DEF Inv, RequestsKeepTheirApp
<1>8. QED
  BY <1>1, <1>2, <1>3, <1>4, <1>5, <1>6, <1>7 DEF Inv

LEMMA ReadKeeps == ASSUME Inv, NEW s \in Slots, Read(s) PROVE Inv'
<1>1. PICK out \in {"ok", "nothing", "error"}, list \in Listings :
        cmds' = [cmds EXCEPT
            ![s].stage = "done",
            ![s].out = IF out = "ok" /\ cmds[s].kind = "lockStatus" /\ owner = Wedged THEN "stale" ELSE out,
            ![s].got = IF cmds[s].kind = "apps" /\ out = "ok" THEN list ELSE <<>>]
  BY DEF Read
<1> DEFINE says == IF out = "ok" /\ cmds[s].kind = "lockStatus" /\ owner = Wedged THEN "stale" ELSE out
           got == IF cmds[s].kind = "apps" /\ out = "ok" THEN list ELSE <<>>
           d == [cmds[s] EXCEPT !.stage = "done", !.out = says, !.got = got]
<1>2. /\ cmds \in [Slots -> Commands] /\ cmds[s] \in Commands /\ got \in Seq(Apps)
      /\ says \in {"ok", "nothing", "error", "stale"} /\ (says = "stale" => owner = Wedged)
  BY <1>1, ListingsType, EmptySeq DEF Inv, Types
<1>3. cmds' = [cmds EXCEPT ![s] = d]
  BY <1>1, <1>2 DEF Commands
<1> HIDE DEF says, got
<1>4. d \in Commands /\ d.stage = "done" /\ d.out = says /\ Same(d, cmds[s])
  BY <1>2 DEF Commands, Stages, Same
<1> HIDE DEF d
<1>5. cmds' \in [Slots -> Commands] /\ cmds'[s] = d /\ \A t \in Slots \ {s} : cmds'[t] = cmds[t]
  BY <1>2, <1>3, <1>4
<1>6. cmds[s].stage # "idle" /\ UNCHANGED <<menu, m, reply, agreed, owner, managed, launch, exited>>
  BY DEF Read, Stage
<1>7. reply \in [Slots -> {"none", "yes", "no"}] /\ managed \subseteq Apps
  BY DEF Inv, Types
<1>8. QED
  BY <1>2, <1>4, <1>5, <1>6, <1>7, EndKeeps

LEMMA AcquireKeeps == ASSUME Inv, NEW s \in Slots, Acquire(s) PROVE Inv'
<1>0. /\ cmds \in [Slots -> Commands] /\ cmds[s] \in Commands /\ reply \in [Slots -> {"none", "yes", "no"}]
      /\ managed \subseteq Apps /\ UNCHANGED <<menu, m, reply, agreed, managed, launch, exited>>
      /\ cmds[s].stage = "begin" /\ cmds[s].kind \in Operations \ {"clear"}
  BY DEF Acquire, Stage, Inv, Types
<1>1. CASE RequestValid(cmds[s]) /\ owner = Nobody /\ owner' = s
  <2>1. PICK asks \in {1, 2} : cmds' = [cmds EXCEPT ![s].stage = "planning", ![s].asks = asks]
    BY <1>1, SlotNumbers DEF Acquire
  <2> DEFINE d == [cmds[s] EXCEPT !.stage = "planning", !.asks = asks]
  <2>2. cmds' = [cmds EXCEPT ![s] = d]
    BY <1>0, <2>1 DEF Commands
  <2>3. /\ d \in Commands /\ d.stage = "planning" /\ d.asks # 0 /\ d.out = cmds[s].out
        /\ d.port = cmds[s].port /\ Same(d, cmds[s])
    <3>1. asks \in {0, 1, 2} /\ asks # 0
      OBVIOUS
    <3>2. QED
      BY <1>0, <3>1 DEF Commands, Stages, Same
  <2> HIDE DEF d
  <2>4. cmds' \in [Slots -> Commands] /\ cmds'[s] = d /\ \A t \in Slots \ {s} : cmds'[t] = cmds[t]
    BY <1>0, <2>2, <2>3
  <2>5. Types'
    BY <1>0, <1>1, <2>4 DEF Inv, Types
  <2>6. CursorsInside' /\ Answered' /\ RequestsKeepTheirApp'
    BY <1>0, <2>3, <2>4 DEF Inv, CursorsInside, Answered, RequestsKeepTheirApp, Operations, AppOperations, Same
  <2>7. OneAtATime'
    BY <1>0, <1>1, <2>3, <2>4, SlotNumbers DEF Inv, OneAtATime, InOperation, Same
  <2>8. Compared'
    BY <1>0, <1>1, <2>3, <2>4 DEF Inv, Compared, InOperation, RequestValid, Same
  <2>9. ConflictsOwn'
    BY <1>0, <2>3, <2>4 DEF Inv, ConflictsOwn, BoundBy, Same
  <2>10. QED
    BY <2>5, <2>6, <2>7, <2>8, <2>9 DEF Inv
<1>2. CASE Finish(s, "error") /\ UNCHANGED owner
  BY <1>0, <1>2, FinishStep, EndKeeps
<1>3. QED
  BY <1>1, <1>2 DEF Acquire

LEMMA ProbeKeeps == ASSUME Inv, NEW s \in Slots, ProbeToClear(s) PROVE Inv'
<1>0. /\ cmds \in [Slots -> Commands] /\ cmds[s] \in Commands /\ reply \in [Slots -> {"none", "yes", "no"}]
      /\ managed \subseteq Apps /\ UNCHANGED <<menu, m, reply, agreed, owner, managed, launch, exited>>
      /\ cmds[s].stage = "begin" /\ cmds[s].kind = "clear"
  BY DEF ProbeToClear, Stage, Inv, Types
<1>1. CASE cmds' = [cmds EXCEPT ![s].stage = "planning"]
  <2> DEFINE d == [cmds[s] EXCEPT !.stage = "planning"]
  <2>1. cmds' = [cmds EXCEPT ![s] = d]
    BY <1>0, <1>1 DEF Commands
  <2>2. d \in Commands /\ d.stage = "planning" /\ d.asks # 0 /\ d.out = cmds[s].out /\ d.port = cmds[s].port /\ Same(d, cmds[s])
    BY <1>0 DEF Commands, Stages, Same, Inv, Compared
  <2> HIDE DEF d
  <2>3. cmds' \in [Slots -> Commands] /\ cmds'[s] = d /\ \A t \in Slots \ {s} : cmds'[t] = cmds[t]
    BY <1>0, <2>1, <2>2
  <2>4. Types'
    BY <1>0, <2>3 DEF Inv, Types
  <2>5. CursorsInside' /\ Answered' /\ RequestsKeepTheirApp' /\ Compared'
    BY <1>0, <2>2, <2>3 DEF Inv, CursorsInside, Answered, RequestsKeepTheirApp, Compared, InOperation, Same
  <2>6. OneAtATime'
    BY <1>0, <2>3 DEF Inv, OneAtATime
  <2>7. ConflictsOwn'
    BY <1>0, <2>2, <2>3 DEF Inv, ConflictsOwn, BoundBy, Same
  <2>8. QED
    BY <2>4, <2>5, <2>6, <2>7 DEF Inv
<1>2. CASE Finish(s, "ok")
  BY <1>0, <1>2, FinishStep, EndKeeps
<1>3. CASE Finish(s, "error")
  BY <1>0, <1>3, FinishStep, EndKeeps
<1>4. QED
  BY <1>1, <1>2, <1>3 DEF ProbeToClear

\* The question is put on the screen; only a session that clears the lock can
\* have another one waiting.
LEMMA AskKeeps == ASSUME Inv, NEW s \in Slots, Ask(s) PROVE Inv'
<1>0. /\ cmds \in [Slots -> Commands] /\ cmds[s] \in Commands /\ m \in Models
      /\ reply \in [Slots -> {"none", "yes", "no"}] /\ UNCHANGED <<menu, owner, managed, launch, exited>>
      /\ cmds[s].stage = "planning" /\ cmds[s].kind \in Operations /\ Admissible(cmds[s])
  BY DEF Ask, Stage, Inv, Types
<1> DEFINE left == cmds[s].asks - 1
           d == [cmds[s] EXCEPT !.stage = "asking", !.asks = left]
<1>1. cmds' = [cmds EXCEPT ![s] = d] /\ left \in {0, 1, 2}
  BY <1>0 DEF Ask, Commands, Inv, Compared
<1> HIDE DEF left
<1>2. /\ d.stage = "asking" /\ d.out = cmds[s].out /\ d.port = cmds[s].port /\ Same(d, cmds[s])
      /\ d \in Commands
  BY <1>0, <1>1 DEF Commands, Stages, Same
<1> HIDE DEF d
<1>3. cmds' \in [Slots -> Commands] /\ cmds'[s] = d /\ \A t \in Slots \ {s} : cmds'[t] = cmds[t]
  BY <1>0, <1>1, <1>2
<1>4. /\ m' \in Models /\ m'.modal = s /\ m'.lockStatus = m.lockStatus /\ m'.lockCursor = m.lockCursor
      /\ m'.appCursor = m.appCursor /\ m'.apps = m.apps /\ m'.conflict = m.conflict /\ m'.req = m.req
  BY <1>0 DEF Ask, Models
<1>5. /\ reply' \in [Slots -> {"none", "yes", "no"}] /\ reply'[s] = "none"
      /\ \A t \in Slots \ {s} : reply'[t] = reply[t]
      /\ agreed' = agreed \ {s}
  BY <1>0 DEF Ask
<1>6. Types'
  BY <1>0, <1>3, <1>4, <1>5 DEF Inv, Types
<1>7. CursorsInside'
  BY <1>0, <1>2, <1>3, <1>4 DEF Inv, CursorsInside, Same
<1>8. Answered'
  BY <1>2, <1>3, <1>5 DEF Inv, Answered
<1>9. OneAtATime'
  BY <1>0, <1>2, <1>3, <1>4, <1>5 DEF Inv, OneAtATime, InOperation, Same
<1>10. Compared'
  BY <1>0, <1>2, <1>3 DEF Inv, Compared, InOperation, Admissible, Same
<1>11. ConflictsOwn'
  BY <1>0, <1>2, <1>3, <1>4 DEF Inv, ConflictsOwn, BoundBy, Same
<1>12. RequestsKeepTheirApp'
  BY <1>0, <1>2, <1>3, <1>4 DEF Inv, RequestsKeepTheirApp, Admissible, Same
<1>13. QED
  BY <1>6, <1>7, <1>8, <1>9, <1>10, <1>11, <1>12 DEF Inv

LEMMA PlanEndsKeeps == ASSUME Inv, NEW s \in Slots, PlanEnds(s) PROVE Inv'
<1>0. /\ cmds \in [Slots -> Commands] /\ cmds[s] \in Commands /\ reply \in [Slots -> {"none", "yes", "no"}]
      /\ managed \subseteq Apps /\ UNCHANGED <<menu, m, reply, agreed, managed, launch, exited>>
      /\ cmds[s].stage = "planning" /\ cmds[s].kind \in Operations
      /\ owner' \in {owner, Nobody} /\ (owner' # owner => owner = s)
  BY DEF PlanEnds, Release, Stage, Inv, Types
<1>1. CASE Finish(s, "error")
  BY <1>0, <1>1, FinishStep, EndKeeps
<1>2. CASE Finish(s, "ok")
  BY <1>0, <1>2, FinishStep, EndKeeps
<1>3. ASSUME NEW p \in PortsOf[cmds[s].app], cmds[s].kind = "install",
             cmds' = [cmds EXCEPT ![s].stage = "done", ![s].out = "conflict",
                                  ![s].port = EffectivePort(cmds[s], p)]
      PROVE  Inv'
  <2> DEFINE port == EffectivePort(cmds[s], p)
             d == [cmds[s] EXCEPT !.stage = "done", !.out = "conflict", !.port = port]
  <2>1. cmds[s].app \in Apps
    BY <1>0, <1>3 DEF Inv, Compared, InOperation, Commands, MaybeApp
  <2>2. BoundBy(cmds[s].app, cmds[s].over, port)
    BY <1>3, <2>1 DEF BoundBy, EffectivePort
  <2>3. port \in AllPorts
    <3>1. PICK D \in SUBSET AllPorts : cmds[s].over \in [D -> HostPorts]
      BY <1>0 DEF Commands, Overs
    <3>2. p \in AllPorts
      BY <1>3, <2>1 DEF AllPorts
    <3>3. QED
      BY <3>1, <3>2 DEF EffectivePort, AllPorts
  <2>4. cmds' = [cmds EXCEPT ![s] = d]
    BY <1>0, <1>3 DEF Commands
  <2> HIDE DEF port
  <2>5. d \in Commands /\ d.stage = "done" /\ d.out = "conflict" /\ d.port = port /\ Same(d, cmds[s])
    BY <1>0, <2>3 DEF Commands, Stages, Same
  <2> HIDE DEF d
  <2>6. cmds' \in [Slots -> Commands] /\ cmds'[s] = d /\ \A t \in Slots \ {s} : cmds'[t] = cmds[t]
    BY <1>0, <2>4, <2>5
  <2>7. BoundBy(cmds'[s].app, cmds'[s].over, cmds'[s].port)
    BY <2>2, <2>5, <2>6 DEF Same
  <2>8. QED
    BY <1>0, <2>5, <2>6, <2>7, EndKeeps
<1>4. QED
  BY <1>1, <1>2, <1>3 DEF PlanEnds

\* A yes was given to this very question: the operation may work.
LEMMA TakeReplyKeeps == ASSUME Inv, NEW s \in Slots, TakeReply(s) PROVE Inv'
<1>0. /\ cmds \in [Slots -> Commands] /\ cmds[s] \in Commands /\ reply \in [Slots -> {"none", "yes", "no"}]
      /\ managed \subseteq Apps /\ UNCHANGED <<menu, m, agreed, managed, launch, exited>>
      /\ cmds[s].stage = "asking" /\ cmds[s].kind \in Operations /\ reply[s] \in {"yes", "no"}
      /\ reply' \in [Slots -> {"none", "yes", "no"}] /\ reply'[s] = "none"
      /\ \A t \in Slots \ {s} : reply'[t] = reply[t]
  BY DEF TakeReply, Stage, Inv, Types
<1>1. CASE reply[s] = "no"
  <2>1. Finish(s, "declined") /\ owner' \in {owner, Nobody} /\ (owner' # owner => owner = s)
    BY <1>1 DEF TakeReply, Release
  <2>2. QED
    BY <1>0, <2>1, FinishStep, EndKeeps
<1>2. CASE reply[s] = "yes"
  <2> DEFINE next == IF cmds[s].asks = 0 THEN "working" ELSE "planning"
             d == [cmds[s] EXCEPT !.stage = next]
  <2>1. cmds' = [cmds EXCEPT ![s].stage = next] /\ owner' = owner
    BY <1>2 DEF TakeReply
  <2>2. cmds' = [cmds EXCEPT ![s] = d] /\ next \in {"working", "planning"} /\ (next = "planning" => cmds[s].asks # 0)
    BY <1>0, <2>1 DEF Commands
  <2> HIDE DEF next
  <2>3. d \in Commands /\ d.stage = next /\ d.asks = cmds[s].asks /\ d.out = cmds[s].out /\ d.port = cmds[s].port /\ Same(d, cmds[s])
    BY <1>0, <2>2 DEF Commands, Stages, Same
  <2> HIDE DEF d
  <2>4. cmds' \in [Slots -> Commands] /\ cmds'[s] = d /\ \A t \in Slots \ {s} : cmds'[t] = cmds[t]
    BY <1>0, <2>2, <2>3
  <2>5. Types'
    BY <1>0, <2>1, <2>4 DEF Inv, Types
  <2>6. CursorsInside'
    BY <1>0, <2>3, <2>4 DEF Inv, CursorsInside, Same
  <2>7. Answered'
    BY <1>0, <1>2, <2>2, <2>3, <2>4 DEF Inv, Answered
  <2>8. OneAtATime'
    BY <1>0, <2>1, <2>2, <2>3, <2>4 DEF Inv, OneAtATime, InOperation, Same
  <2>9. Compared' /\ RequestsKeepTheirApp'
    BY <1>0, <2>2, <2>3, <2>4 DEF Inv, Compared, InOperation, RequestsKeepTheirApp, Same
  <2>10. ConflictsOwn'
    BY <1>0, <2>3, <2>4 DEF Inv, ConflictsOwn, BoundBy, Same
  <2>11. QED
    BY <2>5, <2>6, <2>7, <2>8, <2>9, <2>10 DEF Inv
<1>3. QED
  BY <1>0, <1>1, <1>2

LEMMA WorkKeeps == ASSUME Inv, NEW s \in Slots, Work(s) \/ WorkClear(s) PROVE Inv'
<1>0. /\ reply \in [Slots -> {"none", "yes", "no"}] /\ managed \subseteq Apps
      /\ UNCHANGED <<menu, m, reply, launch, exited>> /\ cmds[s].stage = "working"
      /\ agreed' \in {agreed, agreed \ {s}}
  BY DEF Work, WorkClear, Stage, Inv, Types
<1>1. CASE Work(s)
  <2>1. PICK out \in {"ok", "partial", "error"} : Finish(s, out)
    BY <1>1 DEF Work
  <2>2. owner' \in {owner, Nobody} /\ (owner' # owner => owner = s)
    BY <1>1 DEF Work, Release
  <2>3. managed' \subseteq Apps
    <3>1. managed' \in {managed, managed \cup {cmds[s].app}, managed \ {cmds[s].app}}
      BY <1>1 DEF Work
    <3>2. managed' = managed \cup {cmds[s].app} => managed' = managed \/ cmds[s].kind = "install"
      BY <1>1 DEF Work
    <3>3. cmds[s].kind = "install" => cmds[s].app \in Apps
      BY <1>0 DEF Inv, Types, Compared, InOperation, Commands, MaybeApp
    <3>4. QED
      BY <1>0, <3>1, <3>2, <3>3
  <2>4. QED
    BY <1>0, <2>1, <2>2, <2>3, FinishStep, EndKeeps
<1>2. CASE WorkClear(s)
  <2>1. PICK out \in {"ok", "error"} : Finish(s, out)
    BY <1>2 DEF WorkClear
  <2>2. owner' \in {owner, Nobody} /\ (owner' # owner => owner = Wedged) /\ managed' = managed
    BY <1>2 DEF WorkClear
  <2>3. QED
    BY <1>0, <2>1, <2>2, FinishStep, EndKeeps
<1>3. QED
  BY <1>1, <1>2

\* The next command of a chain takes the place of the one before it.
LEMMA ChainKeeps == ASSUME Inv, NEW s \in Slots, DeliverChained(s) PROVE Inv'
<1> DEFINE d == OnApp(NextInChain(cmds[s]), cmds[s].app)
<1>0. /\ cmds \in [Slots -> Commands] /\ cmds[s].app \in MaybeApp /\ cmds[s].stage = "done"
      /\ UNCHANGED <<menu, m, reply, agreed, owner, managed, launch, exited>>
      /\ NextInChain(cmds[s]) # "end" /\ cmds' = [cmds EXCEPT ![s] = d]
  BY DEF DeliverChained, Inv, Types, Commands
<1>1. NextInChain(cmds[s]) \in {"userEnv", "editor", "validateStack"}
  BY <1>0 DEF NextInChain
<1>2. Startable(d)
  BY <1>0, <1>1, OnAppStartable DEF Loads
<1>3. d.kind # "clear"
  BY <1>1 DEF OnApp, Command
<1> HIDE DEF d
<1>4. cmds' \in [Slots -> Commands] /\ cmds'[s] = d /\ \A t \in Slots \ {s} : cmds'[t] = cmds[t]
  BY <1>0, <1>2 DEF Startable
<1>5. Types'
  BY <1>0, <1>4 DEF Inv, Types
<1>6. CursorsInside' /\ Answered' /\ Compared' /\ RequestsKeepTheirApp'
  BY <1>0, <1>2, <1>4
     DEF Inv, CursorsInside, Answered, Compared, InOperation, RequestsKeepTheirApp, Startable
<1>7. OneAtATime' /\ ConflictsOwn'
  BY <1>0, <1>2, <1>3, <1>4 DEF Inv, OneAtATime, InOperation, ConflictsOwn, BoundBy, Startable
<1>8. QED
  BY <1>5, <1>6, <1>7 DEF Inv

\* Whatever a message does to the model, it leaves it sound, and only a load of
\* the lock's state or a cleared lock changes what is shown of the lock.
LEMMA SettledSound ==
    ASSUME Inv, NEW s \in Slots, NEW c, c = cmds[s], c.stage = "done"
    PROVE  /\ Sound(Settled(c))
           /\ c.kind # "lockStatus" => Settled(c).lockStatus \in {m.lockStatus, "fine"}
           /\ Settled(c).lockStatus = "stale" => m.lockStatus = "stale" \/ c.out = "stale"
<1> DEFINE x == NotBusy(c)
           Good(y) == Sound(y) /\ y.lockStatus = x.lockStatus
<1>0. c \in Commands
  BY DEF Inv, Types
<1>1. Sound(x) /\ x \in Models /\ x.lockStatus = m.lockStatus /\ x.modal = m.modal /\ x.lockStatus \in {"fine", "stale"}
  BY InvSound DEF Sound, Models, NotBusy
<1>2. NoApp \in MaybeApp /\ c.app \in MaybeApp /\ c.got \in Seq(Apps)
  BY <1>0, NoAppType DEF Commands
<1>c. \/ c.kind \in {"apps", "status", "catalogApp", "backups", "resources", "lockStatus", "clear", "install"}
      \/ c.kind \in Checks \cup {"catalogApps", "settings"} \/ c.kind \in {"restart", "redeploy"}
      \/ c.kind \notin {"apps", "status", "catalogApp", "backups", "resources", "lockStatus", "clear", "install",
                        "restart", "redeploy", "catalogApps", "settings"} \cup Checks
  OBVIOUS
<1>3. CASE c.kind = "apps"
  <2> DEFINE last == IF c.got = <<>> THEN 0 ELSE Len(c.got) - 1
             n == IF x.appCursor <= last THEN x.appCursor ELSE last
  <2>1. Settled(c) = [x EXCEPT !.apps = c.got, !.appCursor = Min({x.appCursor, last})]
    BY <1>3 DEF Settled, AppsLoaded, Checks
  <2>2. last \in Nat /\ x.appCursor \in Nat /\ (last = 0 \/ last < Len(c.got)) /\ Len(c.got) \in Nat
    BY <1>1, <1>2, LenProperties, EmptySeq DEF Models
  <2> HIDE DEF last
  <2>3. Min({x.appCursor, last}) = n /\ n \in Nat /\ (n = 0 \/ n < Len(c.got))
    BY <2>2 DEF Min
  <2> HIDE DEF n, x
  <2>4. Good(Settled(c))
    BY <1>1, <1>2, <2>1, <2>3 DEF Sound, Models
  <2>5. QED
    BY <1>1, <2>4
<1>4. CASE c.kind = "status"
  <2> DEFINE a == IF c.out = "ok" THEN c.app ELSE NoApp
  <2>1. Settled(c) = [x EXCEPT !.status = a, !.screen = "appActions"]
    BY <1>4 DEF Settled, AppStatusLoaded, Checks
  <2>2. a \in MaybeApp /\ "appActions" \in Screens
    BY <1>2, ScreenNames
  <2> HIDE DEF a, x
  <2>3. Good(Settled(c))
    BY <1>1, <2>1, <2>2 DEF Sound, Models
  <2>4. QED
    BY <1>1, <2>3
<1>5. CASE c.kind = "catalogApp"
  <2> DEFINE a == IF c.out = "ok" THEN c.app ELSE NoApp
             screen == IF c.out = "ok" THEN "installForm" ELSE x.screen
  <2>1. Settled(c) = [x EXCEPT !.detail = a, !.screen = screen]
    BY <1>5 DEF Settled, CatalogAppLoaded, Checks
  <2>2. a \in MaybeApp /\ screen \in Screens
    BY <1>1, <1>2, ScreenNames DEF Models
  <2> HIDE DEF a, screen, x
  <2>3. Good(Settled(c))
    BY <1>1, <2>1, <2>2 DEF Sound, Models
  <2>4. QED
    BY <1>1, <2>3
<1>6. CASE c.kind \in Checks \cup {"catalogApps", "settings"}
  <2> DEFINE r == IF c.out = "ok" THEN x.ready \cup {c.kind} ELSE x.ready \ {c.kind}
  <2>1. Settled(c) = [x EXCEPT !.ready = r]
    BY <1>6 DEF Settled, AnswerKept, Checks
  <2>2. r \in SUBSET Loads
    BY <1>1, <1>6 DEF Models, Loads, Checks
  <2> HIDE DEF r, x
  <2>3. Good(Settled(c))
    BY <1>1, <2>1, <2>2 DEF Sound, Models
  <2>4. QED
    BY <1>1, <2>3
<1>7. CASE c.kind \in {"backups", "resources"}
  <2> DEFINE a == IF c.out = "ok" THEN c.app ELSE NoApp
  <2>1. Settled(c) \in {[x EXCEPT !.listed = a], [x EXCEPT !.resOf = a]}
    BY <1>7 DEF Settled, Checks
  <2>2. a \in MaybeApp
    BY <1>2
  <2> HIDE DEF a, x
  <2>3. Good(Settled(c))
    BY <1>1, <2>1, <2>2 DEF Sound, Models
  <2>4. QED
    BY <1>1, <2>3
<1>8. CASE c.kind = "lockStatus"
  <2> DEFINE st == IF c.out = "stale" THEN "stale" ELSE "fine"
             y == [x EXCEPT !.lockStatus = st]
             z == [y EXCEPT !.screen = "runtimeLock", !.lockCursor = 0]
  <2>1. Settled(c) = IF c.out = "ok" THEN y ELSE z
    BY <1>8 DEF Settled, RuntimeLockStatusLoaded, Checks
  <2>2. m.lockStatus = "fine" /\ x.lockCursor = 0
    BY <1>1, <1>8 DEF Inv, CursorsInside, Sound
  <2>3. "runtimeLock" \in Screens /\ st \in {"fine", "stale"} /\ (st = "stale" => c.out = "stale")
    BY ScreenNames
  <2> HIDE DEF st, x
  <2>4. Sound(y) /\ y.lockStatus = st /\ y \in Models
    BY <1>1, <2>2, <2>3 DEF Sound, Models
  <2>5. Sound(z) /\ z.lockStatus = st
    BY <1>1, <2>2, <2>3 DEF Sound, Models
  <2>6. QED
    BY <1>8, <2>1, <2>3, <2>4, <2>5
<1>9. CASE c.kind = "clear"
  <2> DEFINE z == [x EXCEPT !.lockStatus = "fine", !.screen = "runtimeLock", !.lockCursor = 0]
  <2>1. Settled(c) = IF c.out # "ok" THEN x ELSE z
    BY <1>9 DEF Settled, RuntimeLockCleared, Checks
  <2>2. "runtimeLock" \in Screens
    BY ScreenNames
  <2> HIDE DEF x
  <2>3. Sound(z) /\ z.lockStatus = "fine"
    BY <1>1, <2>2 DEF Sound, Models
  <2>4. QED
    BY <1>1, <2>1, <2>3
<1>10. CASE c.kind \in {"restart", "redeploy"}
  <2>1. Settled(c) \in {x, [x EXCEPT !.status = c.app]}
    BY <1>10 DEF Settled, RecreateFinished, ReportedStatus, Checks
  <2> HIDE DEF x
  <2>2. Good(Settled(c))
    BY <1>1, <1>2, <2>1 DEF Sound, Models
  <2>3. QED
    BY <1>1, <2>2
<1>11. CASE c.kind = "install"
  <2> DEFINE conf == [port |-> c.port, own |-> c.app = x.req.app /\ c.over = x.req.over]
  <2>1. Settled(c) = InstallFinished(x, c)
    BY <1>11 DEF Settled, Checks
  <2>2. "portRemap" \in Screens /\ "installResult" \in Screens
    BY ScreenNames
  <2>3. CASE c.out = "conflict"
    <3>1. Settled(c) = [x EXCEPT !.screen = "portRemap", !.conflict = conf]
      BY <2>1, <2>3 DEF InstallFinished
    <3>2. conf \in [port : AllPorts \cup {0}, own : BOOLEAN]
      BY <1>0 DEF Commands
    <3>3. conf.own => BoundBy(x.req.app, x.req.over, conf.port)
      BY <2>3 DEF Inv, ConflictsOwn
    <3> HIDE DEF conf, x
    <3>4. Good(Settled(c))
      BY <1>1, <2>2, <3>1, <3>2, <3>3 DEF Sound, Models
    <3>5. QED
      BY <1>1, <3>4
  <2>4. CASE c.out # "conflict"
    <3>1. Settled(c) \in {x, [x EXCEPT !.screen = "installResult"]}
      BY <2>1, <2>4 DEF InstallFinished
    <3> HIDE DEF x
    <3>2. Good(Settled(c))
      BY <1>1, <2>2, <3>1 DEF Sound, Models
    <3>3. QED
      BY <1>1, <3>2
  <2>5. QED
    BY <2>3, <2>4
<1>12. CASE c.kind \notin {"apps", "status", "catalogApp", "backups", "resources", "lockStatus", "clear", "install",
                           "restart", "redeploy", "catalogApps", "settings"} \cup Checks
  <2>1. Settled(c) = ShowResult(x, c)
    BY <1>12 DEF Settled
  <2>2. Settled(c) = x \/ \E screen \in Screens : Settled(c) = [x EXCEPT !.screen = screen]
    BY <2>1 DEF ShowResult, Screens
  <2> HIDE DEF x
  <2>3. Good(Settled(c))
    BY <1>1, <2>2 DEF Sound, Models
  <2>4. QED
    BY <1>1, <2>3
<1>13. QED
  BY <1>c, <1>3, <1>4, <1>5, <1>6, <1>7, <1>8, <1>9, <1>10, <1>11, <1>12

LEMMA DeliverKeeps == ASSUME Inv, NEW s \in Slots, Deliver(s) PROVE Inv'
<1> DEFINE c == cmds[s]
<1>1. CASE c.kind = "uninstall" /\ c.out = "ok"
  BY <1>1, ExitKeeps DEF Deliver
<1>2. CASE ~(c.kind = "uninstall" /\ c.out = "ok")
  <2>0. /\ m' = Settled(c) /\ cmds' = [cmds EXCEPT ![s] = NoCommand] /\ c.stage = "done"
        /\ UNCHANGED <<menu, reply, agreed, owner, managed, launch, exited>>
    BY <1>2 DEF Deliver
  <2>1. /\ Sound(m') /\ (c.kind # "lockStatus" => m'.lockStatus \in {m.lockStatus, "fine"})
        /\ m'.lockStatus = "stale" => m.lockStatus = "stale" \/ c.out = "stale"
    BY <2>0, SettledSound
  <2>2. /\ cmds' \in [Slots -> Commands] /\ cmds'[s] = NoCommand
        /\ \A t \in Slots \ {s} : cmds'[t] = cmds[t]
    BY <2>0, NoCommandType DEF Inv, Types
  <2>3. Types'
    BY <2>0, <2>1, <2>2 DEF Inv, Types, Sound
  <2>4. CursorsInside'
    <3>1. ASSUME NEW t \in Slots, cmds'[t].kind = "lockStatus", cmds'[t].stage # "idle"
          PROVE  t = 1 /\ m'.lockStatus = "fine"
      <4>1. t # s /\ cmds'[t] = cmds[t]
        BY <2>2, <3>1, NoCommandType
      <4>2. t = 1 /\ m.lockStatus = "fine" /\ s # 1
        BY <3>1, <4>1 DEF Inv, CursorsInside
      <4>3. c.kind # "lockStatus"
        BY <2>0, <4>2 DEF Inv, CursorsInside
      <4>4. QED
        BY <2>1, <4>2, <4>3
    <3>2. QED
      BY <2>1, <3>1 DEF CursorsInside, Sound
  <2>5. Answered' /\ Compared'
    BY <2>0, <2>2, NoCommandType DEF Inv, Answered, Compared, InOperation
  <2>6. OneAtATime'
    <3>1. m'.modal = m.modal /\ m'.lockStatus \in {"fine", "stale"}
      BY <2>1 DEF Sound, Models
    <3>2. QED
      BY <2>0, <2>1, <2>2, <3>1, NoCommandType DEF Inv, OneAtATime, InOperation
  <2>7. ConflictsOwn'
    BY <2>0, <2>1, <2>2, NoCommandType DEF Inv, ConflictsOwn, BoundBy, Sound
  <2>8. RequestsKeepTheirApp'
    BY <2>0, <2>1, <2>2, NoCommandType DEF Inv, RequestsKeepTheirApp, Sound
  <2>9. QED
    BY <2>3, <2>4, <2>5, <2>6, <2>7, <2>8 DEF Inv
<1>3. QED
  BY <1>1, <1>2

-----------------------------------------------------------------------------
(* The specification.                                                      *)

LEMMA InitInv == Init => Inv
<1> SUFFICES ASSUME Init PROVE Inv
  OBVIOUS
<1>2. /\ Plain("lockStatus") \in Commands /\ Plain("lockStatus").kind = "lockStatus"
      /\ Plain("lockStatus").stage = "begin" /\ Plain("lockStatus").asks = 1 /\ Plain("lockStatus").out = "none"
  BY NoOverridesType, NoAppType, EmptySeq DEF Plain, OnApp, Command, Commands, Stages, Loads
<1>3. /\ cmds \in [Slots -> Commands] /\ cmds[1] = Plain("lockStatus")
      /\ \A s \in Slots \ {1} : cmds[s] = NoCommand
  BY <1>2, NoCommandType, SlotNumbers DEF Init
<1>4. managed \subseteq Apps
  BY ConsoleAssumption DEF Init
<1>5. /\ owner \in {Nobody, Wedged} /\ ("clear" \notin menu => owner = Nobody)
      /\ reply \in [Slots -> {"none", "yes", "no"}] /\ agreed = {} /\ exited = FALSE /\ m = NewModel
  BY DEF Init
<1>6. Types
  BY <1>3, <1>4, <1>5, NewModelType DEF Types
<1>7. CursorsInside /\ Answered /\ Compared /\ ConflictsOwn /\ RequestsKeepTheirApp
  BY <1>2, <1>3, <1>5, NewModelType, NoCommandType
     DEF CursorsInside, Answered, Compared, InOperation, ConflictsOwn, RequestsKeepTheirApp
<1>8. OneAtATime
  BY <1>2, <1>3, <1>5, NewModelType, NoCommandType, SlotNumbers DEF OneAtATime, InOperation
<1>9. QED
  BY <1>6, <1>7, <1>8 DEF Inv

LEMMA KeyKeeps == ASSUME Inv, KeyPressed PROVE Inv'
<1>1. CASE \E e \in DOMAIN Dashboard : SelectDashboardAction(e)
  BY <1>1, DashboardKeeps
<1>2. CASE \E e \in DOMAIN AppActions : SelectAppAction(e)
  BY <1>2, AppActionKeeps
<1>3. CASE \E delta \in {1, -1} : MoveCursor(delta) \/ MoveLockCursor(delta)
  BY <1>3, CursorKeeps, LockCursorKeeps
<1>4. CASE \E a \in Apps : SelectCatalogApp(a) \/ TypeName(a)
  BY <1>4, RequestKeeps, RemoveKeeps
<1>5. CASE \E to \in HostPorts : SubmitPortRemap(to)
  BY <1>5, RemapKeeps
<1>6. CASE SelectManagedApp \/ SelectUpdateApp \/ SelectBackupsApp \/ SelectBackupSnapshot
  BY <1>6, PickKeeps
<1>7. CASE RemoveEntry \/ ReturnToDashboard \/ SelectRemove \/ SelectDelete \/ SubmitDelete
  BY <1>7, RemoveKeeps
<1>8. CASE SubmitInstall
  BY <1>8, InstallKeeps
<1>9. CASE SubmitReconfigure \/ SaveSettings \/ SelectCatalogUpdate \/ SelectSelfUpdate
  BY <1>9, RequestKeeps
<1>10. CASE SelectRuntimeLock
  BY <1>10, RuntimeLockKeeps
<1>11. CASE Back
  BY <1>11, BackKeeps
<1>12. CASE Quit
  BY <1>12, ExitKeeps DEF Quit
<1>13. QED
  BY <1>1, <1>2, <1>3, <1>4, <1>5, <1>6, <1>7, <1>8, <1>9, <1>10, <1>11, <1>12 DEF KeyPressed

LEMMA CommandKeeps == ASSUME Inv, NEW s \in Slots, CommandStep(s) PROVE Inv'
  BY ReadKeeps, AcquireKeeps, ProbeKeeps, AskKeeps, PlanEndsKeeps, TakeReplyKeeps, WorkKeeps, ChainKeeps,
     DeliverKeeps DEF CommandStep

LEMMA NextInv == Inv /\ [Next]_vars => Inv'
<1> SUFFICES ASSUME Inv, [Next]_vars PROVE Inv'
  OBVIOUS
<1>1. ASSUME UNCHANGED <<menu, m, cmds, reply, agreed, managed, exited>>,
             owner' = owner \/ (owner = Wedged /\ owner' = Nobody)
      PROVE  Inv'
  BY <1>1, SlotNumbers
     DEF Inv, Types, CursorsInside, Answered, OneAtATime, InOperation, Compared, ConflictsOwn, BoundBy,
         RequestsKeepTheirApp
<1>2. CASE KeyPressed
  BY <1>2, KeyKeeps
<1>3. CASE \E yes \in BOOLEAN : Answer(yes)
  BY <1>3, AnswerKeeps
<1>4. CASE \E s \in Slots : CommandStep(s)
  BY <1>4, CommandKeeps
<1>5. CASE LaunchCheck
  BY <1>1, <1>5 DEF LaunchCheck
<1>6. CASE OtherReleases
  BY <1>1, <1>6 DEF OtherReleases
<1>7. CASE UNCHANGED vars
  BY <1>1, <1>7 DEF vars
<1>8. QED
  BY <1>2, <1>3, <1>4, <1>5, <1>6, <1>7 DEF Next

LEMMA Invariance == Spec => []Inv
  BY InitInv, NextInv, PTL DEF Spec

\* The model, the commands and the lock keep to their types, and no cursor
\* points past its list, however late a message replaces the list
\* (updateLoadMsg, updateStatusMsg).
THEOREM TypeCorrect == Spec => []TypeOK
<1>1. Inv => TypeOK
  <2> SUFFICES ASSUME Inv PROVE TypeOK
    OBVIOUS
  <2>1. m \in Models /\ cmds \in [Slots -> Commands]
    BY DEF Inv, Types
  <2>2. m.apps \in Seq(Apps) /\ m.appCursor \in Nat /\ Len(m.apps) \in Nat
    BY <2>1, LenProperties DEF Models
  <2>3. m.appCursor \in 0..Max({0, Len(m.apps) - 1})
    <3>1. Max({0, Len(m.apps) - 1}) = IF Len(m.apps) = 0 THEN 0 ELSE Len(m.apps) - 1
      BY <2>2 DEF Max
    <3>2. QED
      BY <2>2, <3>1 DEF Inv, CursorsInside
  <2>4. m.lockCursor \in 0..(Len(RuntimeLockActions) - 1)
    <3>1. Len(RuntimeLockActions) = IF m.lockStatus = "stale" THEN 2 ELSE 1
      BY DEF RuntimeLockActions
    <3>2. QED
      BY <2>1, <3>1 DEF Inv, CursorsInside, Models
  <2>5. /\ m.screen \in Screens /\ m.busy \in BOOLEAN /\ m.modal \in Slots \cup {0} /\ m.req \in Requests
        /\ {m.status, m.typed, m.backupsOf, m.listed, m.detail, m.resOf} \subseteq Apps \cup {NoApp}
    BY <2>1 DEF Models, MaybeApp
  <2>6. /\ \A s \in Slots : cmds[s].kind \in Loads \cup Operations
        /\ \A s \in Slots : cmds[s].stage \in {"idle", "begin", "planning", "asking", "working", "done"}
    BY <2>1 DEF Commands, Stages
  <2>7. QED
    BY <2>3, <2>4, <2>5, <2>6 DEF TypeOK, Inv, Types
<1>2. QED
  BY Invariance, <1>1, PTL

\* An operation works only after a yes to its own last question, and in a
\* session that never clears the lock a question that waits is on the screen
\* (Confirm's own channel, answerConfirmation, the runtime lock).
THEOREM ConsentGiven == Spec => []Consent
<1>1. Inv => Consent
  BY DEF Inv, Answered, OneAtATime, Consent
<1>2. QED
  BY Invariance, <1>1, PTL

\* An install asks and works with overrides of ports its own app binds, whatever
\* conflicts were merged into its request and although the screen writes into the
\* map it was started with (planPorts, applyPortOverrides); and a request all of
\* whose conflicts were its own is keyed by the catalog's ports (submitPortRemap).
THEOREM AppKept == Spec => []RequestsKeepTheirApp
<1>1. Inv => RequestsKeepTheirApp
  BY DEF Inv
<1>2. QED
  BY Invariance, <1>1, PTL

\* Only a delete that is at work takes an app off the host.
LEMMA LeavesByDelete ==
    ASSUME [Next]_vars, managed \ managed' # {}
    PROVE  \E s \in Slots : /\ cmds[s].stage = "working" /\ cmds[s].kind = "delete"
                            /\ managed' = managed \ {cmds[s].app}
<1>1. PICK s \in Slots : Work(s)
  <2>1. KeyPressed => managed' = managed
    BY DEF KeyPressed, SelectDashboardAction, SelectAppAction, MoveCursor, MoveLockCursor, SelectCatalogApp,
           TypeName, SubmitPortRemap, SelectManagedApp, SelectUpdateApp, SelectBackupsApp, SelectBackupSnapshot,
           RemoveEntry, ReturnToDashboard, SelectRemove, SelectDelete, SubmitDelete, SubmitInstall,
           SubmitReconfigure, SaveSettings, SelectRuntimeLock, SelectCatalogUpdate, SelectSelfUpdate, Back, Quit,
           Start, StartAmong, Show
  <2>2. \A s \in Slots : CommandStep(s) /\ ~Work(s) => managed' = managed
    BY DEF CommandStep, Read, Acquire, ProbeToClear, Ask, PlanEnds, TakeReply, WorkClear, DeliverChained, Deliver
  <2>3. (\E yes \in BOOLEAN : Answer(yes)) \/ LaunchCheck \/ OtherReleases \/ UNCHANGED vars => managed' = managed
    BY DEF Answer, LaunchCheck, OtherReleases, vars
  <2>4. QED
    BY <2>1, <2>2, <2>3 DEF Next
<1>2. PICK out \in {"ok", "partial", "error"} :
        managed' = CASE out = "ok" /\ cmds[s].kind = "install" -> managed \cup {cmds[s].app}
                     [] out = "ok" /\ cmds[s].kind = "delete" -> managed \ {cmds[s].app}
                     [] OTHER -> managed
  BY <1>1 DEF Work
<1>3. cmds[s].kind = "delete" /\ managed' = managed \ {cmds[s].app}
  BY <1>2
<1>4. QED
  BY <1>1, <1>3 DEF Work, Stage

\* An app leaves the host only through a delete that was agreed to and for
\* which its very name was typed (updateDeleteNameKey, validateDeleteRequest), although
\* a late status can change the app that a delete is aimed at.
THEOREM OnlyTypedDeleted == Spec => DeletesOnlyTyped
<1>1. Inv /\ [Next]_vars => [\A a \in managed \ managed' : \E s \in Slots :
          /\ cmds[s].kind = "delete" /\ cmds[s].stage = "working"
          /\ cmds[s].arg = a /\ s \in agreed]_vars
  <2> SUFFICES ASSUME Inv, [Next]_vars, NEW a \in managed \ managed'
               PROVE  \E s \in Slots : /\ cmds[s].kind = "delete" /\ cmds[s].stage = "working"
                                       /\ cmds[s].arg = a /\ s \in agreed
    OBVIOUS
  <2>1. PICK s \in Slots : /\ cmds[s].stage = "working" /\ cmds[s].kind = "delete"
                           /\ managed' = managed \ {cmds[s].app}
    BY LeavesByDelete
  <2>2. a = cmds[s].app
    BY <2>1
  <2>3. cmds[s].arg = cmds[s].app /\ s \in agreed
    BY <2>1 DEF Inv, Compared, InOperation, Answered
  <2>4. QED
    BY <2>1, <2>2, <2>3
<1>2. QED
  BY Invariance, <1>1, PTL DEF Spec, DeletesOnlyTyped
=============================================================================
