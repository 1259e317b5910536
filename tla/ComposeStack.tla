---------------------------- MODULE ComposeStack ----------------------------
(***************************************************************************)
(* One application's compose file over its life: planned and rendered by   *)
(* an install, re-rendered by an update, rewritten by the overlay          *)
(* migration (RewireStack), and put into effect by `compose up` or not, by *)
(* `compose restart`.  The catalog moves forward under the stack and other *)
(* processes take and free host ports between any two steps.               *)
(*                                                                         *)
(* The files, locks and rollbacks of these operations are the subject of   *)
(* StackLifecycle and ConfigTx; a failed operation here leaves the stack   *)
(* as it was.                                                              *)
(***************************************************************************)
EXTENDS PortPlan

CONSTANTS
    Apps,                 \* the application in each catalog version, in order
    Overrides,            \* the --port functions a user may pass
    InitiallyTaken,       \* what other processes may listen on at first
    DeniedPorts,          \* ports whose bind fails with EACCES on this host
    AutoPortMaxAttempts,  \* autoPortMaxAttempts, 64 in the code
    MaxMoves              \* bound on the changes other processes make

VARIABLES
    catalog,   \* the installed catalog version, an index of Apps
    taken,     \* host ports other processes listen on
    moves,     \* how often they changed
    pc,        \* step of a running install
    req,       \* its request: template drift, --port and --auto-port
    plan,      \* its plan: overrides, bound ports, attempts, compose, guidance
    disk,      \* docker-compose.yml of the stack
    running    \* the compose file the containers were created from

vars == <<catalog, taken, moves, pc, req, plan, disk, running>>

NoStack == [entries |-> {}, version |-> 0]
NoPlan  == [overrides |-> <<>>, bound |-> <<>>, attempt |-> 0,
            entries |-> {}, guidance |-> 0]
NoReq   == [drift |-> 0, overrides |-> <<>>, auto |-> FALSE]

App      == Apps[catalog]
Sockets  == [protocol : {"tcp", "udp"}, port : 1 .. MaxPort]

\* What the catalog's schema gives an application: its ports, its images by
\* release, the overlay, and the ports its two URL templates name.
PortDeclarations ==
    [service : STRING, host : Nat, container : Nat, hostRange : Seq(Nat),
     containerRange : Seq(Nat), protocol : {"tcp", "udp"}, public : BOOLEAN,
     spelled : BOOLEAN]
Applications ==
    [ports : Seq(PortDeclarations), images : Nat, wired : BOOLEAN,
     target : Nat, pangolin : Nat]

ASSUME StackAssumption ==
    /\ Apps \in Seq(Applications) /\ Len(Apps) > 0
    /\ \A ov \in Overrides : DOMAIN ov \subseteq Nat /\ ov \in [DOMAIN ov -> Nat]
    /\ InitiallyTaken \subseteq SUBSET Sockets
    /\ AutoPortMaxAttempts \in Nat /\ MaxMoves \in Nat

Socket(b) == [protocol |-> b.protocol, port |-> b.host]

\* A template that disagrees with its catalog in one port's interface; drift 0
\* is the template that agrees.
FlipIP(e) == [e EXCEPT !.ip = IF @ = "all" THEN "loopback" ELSE "all"]
Template(app, drift) ==
    IF drift = 0 THEN TemplateOf(app)
    ELSE (TemplateOf(app) \ {EntryOf(app.ports[drift])})
         \cup {FlipIP(EntryOf(app.ports[drift]))}

\* checkPortAvailable and classifyPortBindError.
Probe(b) == IF b.host \in DeniedPorts THEN "eacces"
            ELSE IF Socket(b) \in taken THEN "inuse" ELSE "free"

\* `docker compose up` starts every service or fails.
UpSucceeds(entries) == ~SelfConflict(entries) /\ Published(entries) \cap taken = {}

Init ==
    /\ catalog = 1
    /\ taken \in InitiallyTaken /\ moves = 0
    /\ pc = "idle"
    /\ req = NoReq /\ plan = NoPlan
    /\ disk = NoStack /\ running = NoStack

------------------------------------------------------------------------------
(* Other processes and the catalog.                                        *)

TakePort ==
    /\ moves < MaxMoves
    /\ \E s \in Sockets \ (taken \cup Published(running.entries)) :
            taken' = taken \cup {s}
    /\ moves' = moves + 1
    /\ UNCHANGED <<catalog, pc, req, plan, disk, running>>

FreePort ==
    /\ moves < MaxMoves
    /\ \E s \in taken : taken' = taken \ {s}
    /\ moves' = moves + 1
    /\ UNCHANGED <<catalog, pc, req, plan, disk, running>>

\* A catalog update; the runtime lock keeps it out of a running install.
AdvanceCatalog ==
    /\ pc = "idle" /\ catalog < Len(Apps)
    /\ catalog' = catalog + 1
    /\ UNCHANGED <<taken, moves, pc, req, plan, disk, running>>

------------------------------------------------------------------------------
(* Install: plan the ports, render, deploy.                                *)

EndInstall == pc' = "idle" /\ req' = NoReq /\ plan' = NoPlan

\* planInstall up to the port loop: a catalog it cannot use is refused.
BeginInstall ==
    /\ pc = "idle" /\ disk = NoStack
    /\ CatalogPortBindingsOK(App) /\ ~RefusePublicAdminPorts(App)
    /\ \E d \in 0 .. Len(App.ports), ov \in Overrides, a \in BOOLEAN :
            /\ req' = [drift |-> d, overrides |-> ov, auto |-> a]
            /\ plan' = [NoPlan EXCEPT !.overrides = ov]
    /\ pc' = "planning"
    /\ UNCHANGED <<catalog, taken, moves, disk, running>>

Planned == Overridden(BaseBindings(App), plan.overrides)

Conflicts == {i \in DOMAIN Planned : Probe(Planned[i]) # "free"}

PlanRefused ==
    /\ pc = "planning"
    /\ ~ApplyPortOverridesOK(App, BaseBindings(App), plan.overrides)
    /\ EndInstall
    /\ UNCHANGED <<catalog, taken, moves, disk, running>>

\* Every binding is free: the plan records them with the overrides.
PlanBound ==
    /\ pc = "planning"
    /\ ApplyPortOverridesOK(App, BaseBindings(App), plan.overrides)
    /\ Conflicts = {}
    /\ plan' = [plan EXCEPT !.bound = Planned]
    /\ pc' = "planned"
    /\ UNCHANGED <<catalog, taken, moves, req, disk, running>>

\* Mutant: the attempts are not bounded.
AutoPortUnbounded(c) ==
    IF req.auto /\ Remappable(App, Planned[c])
    THEN SuggestFreePort(Planned[c], Planned, taken) ELSE 0

\* The port --auto-port moves the first conflict to; 0 leaves it a conflict.
AutoPort(c) ==
    LET b == Planned[c]
        p == BaseBindings(App)[c].host
    IN IF /\ req.auto
          /\ p \notin DOMAIN req.overrides
          /\ Probe(b) # "eacces"
          /\ Remappable(App, b)
          /\ plan.attempt < AutoPortMaxAttempts
       THEN SuggestFreePort(b, Planned,
                taken \cup [protocol : {"tcp", "udp"}, port : DeniedPorts])
       ELSE 0

PlanConflict ==
    /\ pc = "planning"
    /\ ApplyPortOverridesOK(App, BaseBindings(App), plan.overrides)
    /\ Conflicts # {}
    /\ LET c == Min(Conflicts)
           p == BaseBindings(App)[c].host
       IN IF AutoPort(c) = 0
          THEN EndInstall
          ELSE /\ plan' = [plan EXCEPT
                    !.overrides = [q \in DOMAIN @ \cup {p} |->
                                     IF q = p THEN AutoPort(c) ELSE @[q]],
                    !.attempt = @ + 1]
               /\ UNCHANGED <<pc, req>>
    /\ UNCHANGED <<catalog, taken, moves, disk, running>>

\* renderInstall: remap the rendered compose, build the guidance, verify.
RenderInstall ==
    /\ pc = "planned"
    /\ LET tpl == Template(App, req.drift)
           new == RewriteComposeHostPorts(tpl, plan.overrides)
       IN IF MatchedOverrides(tpl, plan.overrides) /\ VerifyPublicBinds(App, new)
          THEN /\ plan' = [plan EXCEPT
                    !.entries = new,
                    !.guidance = GuidancePort(App, plan.bound, plan.overrides)]
               /\ pc' = "rendered"
               /\ UNCHANGED req
          ELSE EndInstall
    /\ UNCHANGED <<catalog, taken, moves, disk, running>>

\* recheckPorts, just before the deploy confirmation.
RecheckPorts ==
    /\ pc = "rendered"
    /\ IF \A i \in DOMAIN plan.bound : Probe(plan.bound[i]) = "free"
       THEN pc' = "deploy" /\ UNCHANGED <<req, plan>>
       ELSE EndInstall
    /\ UNCHANGED <<catalog, taken, moves, disk, running>>

InstallUp ==
    /\ pc = "deploy"
    /\ IF UpSucceeds(plan.entries)
       THEN /\ disk' = [entries |-> plan.entries, version |-> catalog]
            /\ running' = disk'
       ELSE UNCHANGED <<disk, running>>
    /\ EndInstall
    /\ UNCHANGED <<catalog, taken, moves>>

------------------------------------------------------------------------------
(* Operations on an installed stack.                                       *)

Installed == pc = "idle" /\ disk # NoStack

Wired(stack) == stack.version # 0 /\ Apps[stack.version].wired
Images(stack) == Apps[stack.version].images

\* rewriteUpdateStack and the deploy of its result; a failing deploy is
\* rolled back.
UpdateStack ==
    /\ Installed /\ Images(disk) # App.images
    /\ \E d \in 0 .. Len(App.ports) :
       \E ov \in PreserveOverrides(Template(App, d), disk.entries) :
        LET tpl == Template(App, d)
            new == RewriteComposeHostPorts(tpl, ov)
        IN /\ MatchedOverrides(tpl, ov) /\ VerifyPublicBinds(App, new)
           /\ UpSucceeds(new)
           /\ disk' = [entries |-> new, version |-> catalog]
           /\ running' = disk'
    /\ UNCHANGED <<catalog, taken, moves, pc, req, plan>>

\* rewireRenderCompose: the catalog's template as it is, refused when the
\* images would change.  No preserveUpdateHostPorts here.
RewireRenderOK(entries) ==
    /\ Images(disk) = App.images
    /\ VerifyPublicBinds(App, entries)

\* applyRewire: the file is replaced; `compose restart` keeps the containers.
ApplyRewire(entries) ==
    /\ disk' = [entries |-> entries, version |-> catalog]
    /\ UNCHANGED running

\* Only for a compose file without the overlay.
RewireStack ==
    /\ Installed /\ ~Wired(disk)
    /\ \E d \in 0 .. Len(App.ports) :
        /\ RewireRenderOK(Template(App, d))
        /\ ApplyRewire(Template(App, d))
    /\ UNCHANGED <<catalog, taken, moves, pc, req, plan>>

\* apps redeploy: `compose up -d` from the files as they are.
Redeploy ==
    /\ Installed /\ UpSucceeds(disk.entries)
    /\ running' = disk
    /\ UNCHANGED <<catalog, taken, moves, pc, req, plan, disk>>

Next ==
    \/ TakePort \/ FreePort \/ AdvanceCatalog
    \/ BeginInstall \/ PlanRefused \/ PlanBound \/ PlanConflict
    \/ RenderInstall \/ RecheckPorts \/ InstallUp
    \/ UpdateStack \/ RewireStack \/ Redeploy

Spec == Init /\ [][Next]_vars
------------------------------------------------------------------------------
(* Properties.                                                             *)

\* Every variable holds a value of its type.
TypeOK ==
    /\ catalog \in DOMAIN Apps
    /\ taken \subseteq Sockets
    /\ moves \in 0 .. MaxMoves
    /\ pc \in {"idle", "planning", "planned", "rendered", "deploy"}
    /\ plan.attempt \in 0 .. AutoPortMaxAttempts
    /\ disk.version \in 0 .. Len(Apps) /\ running.version \in 0 .. Len(Apps)

\* No application of the shipped catalog declares two loopback ports with one
\* number (one tcp, one udp): an override is keyed by the number alone.
NumbersDistinct(app) ==
    LET base == BaseBindings(app)
    IN \A i, j \in DOMAIN base :
            i # j /\ base[i].host = base[j].host =>
                base[i].ip = "all" /\ base[j].ip = "all"

\* What the install probes, shows for confirmation and records is what compose
\* will bind: the overrides applied to the planned bindings and the overrides
\* applied to the rendered compose never drift apart (planPorts,
\* rewriteComposeHostPorts).  And the URL shown afterwards names the port the
\* service answers on, the remapped one included, unless one override's target
\* is another's source (remapGuidanceURL).
PlannedIsPublished ==
    LET chained == \E p \in DOMAIN plan.overrides : plan.overrides[p] \in DOMAIN plan.overrides
    IN pc \in {"rendered", "deploy"} =>
        /\ NumbersDistinct(App) =>
              Published(plan.entries) = {Socket(plan.bound[i]) : i \in DOMAIN plan.bound}
        /\ ~chained /\ plan.bound # <<>> =>
              \E i \in DOMAIN plan.bound :
                  /\ plan.bound[i].host = plan.guidance
                  /\ (App.target # 0 => BaseBindings(App)[i].host = App.target)

\* Whatever was overridden, preserved or rewired, a compose file on disk or in
\* use binds exactly the public ports its catalog version declares
\* (verifyPublicBindsMatchCatalog).
PublicExactlyAsDeclared ==
    \A s \in {disk, running} : s # NoStack =>
        RenderedPublicBinds(s.entries) = DeclaredPublicBinds(Apps[s.version])

\* --auto-port needs one attempt for each port it may move, and one more for
\* each time another process moved: however many ports are taken, it never
\* walks through the window (planPorts, suggestFreePort).
AutoPortConverges ==
    LET base == BaseBindings(App)
    IN pc # "idle" /\ NumbersDistinct(App) =>
        plan.attempt <= moves + Cardinality({i \in DOMAIN base : Remappable(App, base[i])})

\* An update never moves a loopback port of a service that both versions have
\* and write alike, however it came by it (preserveUpdateHostPorts).
UpdateKeepsPorts ==
    [][UpdateStack => \A e \in LoopbackEntries(disk.entries),
                         f \in LoopbackEntries(disk'.entries) :
            NumbersDistinct(App) /\ BindingKey(e) = BindingKey(f) => e.lo = f.lo]_vars
=============================================================================
