------------------------------ MODULE PortPlan ------------------------------
(***************************************************************************)
(* Host ports from the catalog to the rendered compose file: expansion of  *)
(* the catalog's port declarations, --port overrides, the free-port        *)
(* suggestion, the rewrite of the rendered compose, the preservation of    *)
(* remapped ports by an update, and the public-bind verification.          *)
(*                                                                         *)
(* A port declaration is a record                                          *)
(*   [service, host, container, hostRange, containerRange, protocol,       *)
(*    public, spelled]                                                     *)
(* with 0 for an absent single port and <<>> for an absent range; spelled: *)
(* its version's template writes the protocol, "80/tcp" and not "80".  A   *)
(* planned binding is [service, ip, host, container, protocol]; an entry   *)
(* of a compose file has lo and hi in place of host, because a published   *)
(* range stays one entry there.  Host addresses are "loopback" and "all".  *)
(* Everything here is pure: the state machine is in ComposeStack.          *)
(***************************************************************************)
EXTENDS Integers, Sequences, FiniteSets, FiniteSetsExt, SequencesExt

CONSTANTS
    MaxPort,                \* 65535 in the code
    Privileged,             \* 1024: an override target must be above it
    PortSuggestScanWindow   \* portSuggestScanWindow, 1024 in the code

ASSUME PortAssumption ==
    /\ MaxPort \in Nat /\ Privileged \in Nat /\ Privileged < MaxPort
    /\ PortSuggestScanWindow \in Nat

------------------------------------------------------------------------------
(* Catalog declarations to bindings.                                       *)

InPortBounds(p) == p >= 1 /\ p <= MaxPort

IsRange(port) == port.hostRange # <<>> \/ port.containerRange # <<>>

\* parsePortRange: a well-formed "lo-hi" text is a pair.
ParsePortRangeOK(r) ==
    /\ Len(r) = 2
    /\ InPortBounds(r[1]) /\ InPortBounds(r[2])
    /\ r[1] <= r[2]

RangePortOK(port) ==
    /\ ParsePortRangeOK(port.hostRange)
    /\ ParsePortRangeOK(port.containerRange)
    /\ port.hostRange[2] - port.hostRange[1]
         = port.containerRange[2] - port.containerRange[1]
    /\ port.host \in {0, port.hostRange[1]}
    /\ port.container \in {0, port.containerRange[1]}

PortOK(port) ==
    IF IsRange(port) THEN RangePortOK(port)
    ELSE InPortBounds(port.host) /\ InPortBounds(port.container)

HostIP(port) == IF port.public THEN "all" ELSE "loopback"

BindingAt(port, host, container) ==
    [service |-> port.service, ip |-> HostIP(port), host |-> host,
     container |-> container, protocol |-> port.protocol]

RangePortBindings(port) ==
    [k \in 1 .. (port.hostRange[2] - port.hostRange[1] + 1) |->
        BindingAt(port, port.hostRange[1] + k - 1,
                  port.containerRange[1] + k - 1)]

PortBindings(port) ==
    IF IsRange(port) THEN RangePortBindings(port)
    ELSE <<BindingAt(port, port.host, port.container)>>

\* The bindings of an application in catalog order.
BaseBindings(app) ==
    FlattenSeq([i \in 1 .. Len(app.ports) |-> PortBindings(app.ports[i])])

PublicPorts(app) ==
    UNION {{b.host : b \in Range(PortBindings(app.ports[i]))} :
             i \in {j \in DOMAIN app.ports : app.ports[j].public}}

RangeHostPorts(app) ==
    UNION {{b.host : b \in Range(PortBindings(app.ports[i]))} :
             i \in {j \in DOMAIN app.ports : IsRange(app.ports[j])}}

\* Two bindings of one protocol on one host port.
HasDuplicate(bindings) ==
    \E i, j \in DOMAIN bindings :
        /\ i # j
        /\ bindings[i].protocol = bindings[j].protocol
        /\ bindings[i].host = bindings[j].host

CatalogPortBindingsOK(app) ==
    /\ \A i \in DOMAIN app.ports : PortOK(app.ports[i])
    /\ ~HasDuplicate(BaseBindings(app))

\* The ports a guidance URL names (0: no URL) are the web-UI surface; with no
\* URL template it is the first binding that is not public.
AdminHostPorts(app) ==
    LET base  == BaseBindings(app)
        inner == {i \in DOMAIN base : base[i].host \notin PublicPorts(app)}
    IN (IF app.target # 0 THEN {app.target}
        ELSE IF inner = {} THEN {} ELSE {base[Min(inner)].host})
       \cup ({app.pangolin} \ {0})

RefusePublicAdminPorts(app) ==
    \E b \in Range(BaseBindings(app)) :
        b.host \in PublicPorts(app) /\ b.host \in AdminHostPorts(app)

------------------------------------------------------------------------------
(* Overrides and suggestions.                                              *)

\* The first binding on a host port: the one an override of it moves.
FirstOn(bindings, p) ==
    Min({i \in DOMAIN bindings : bindings[i].host = p})

\* Mutant: only the compose file is rewritten, the planned bindings stay.
OverriddenNot(bindings, ov) == bindings

Overridden(bindings, ov) ==
    [i \in DOMAIN bindings |->
        LET p == bindings[i].host
        IN IF p \in DOMAIN ov /\ FirstOn(bindings, p) = i
           THEN [bindings[i] EXCEPT !.host = ov[p]]
           ELSE bindings[i]]

ApplyPortOverridesOK(app, bindings, ov) ==
    /\ \A p \in DOMAIN ov :
        /\ \E i \in DOMAIN bindings : bindings[i].host = p
        /\ p \notin RangeHostPorts(app)
        /\ p \notin PublicPorts(app)
        /\ ov[p] > Privileged /\ ov[p] <= MaxPort
    /\ DOMAIN ov # {} => ~HasDuplicate(Overridden(bindings, ov))

\* A conflict on this binding may be answered by another port.
Remappable(app, b) ==
    /\ b.ip = "loopback"
    /\ b.host \notin RangeHostPorts(app)
    /\ b.host \notin PublicPorts(app)

\* Mutant: the suggestion is not probed.
SuggestUnprobed(b, planned, taken) ==
    LET free == {p \in (b.host + 1) .. MaxPort :
                    \A i \in DOMAIN planned : planned[i].host # p}
    IN IF free = {} THEN 0 ELSE Min(free)

\* suggestFreePort: the next port of the window that is neither planned nor
\* taken; 0 when there is none.
SuggestFreePort(b, planned, taken) ==
    LET start == IF b.host + 1 <= Privileged THEN Privileged + 1 ELSE b.host + 1
        last  == Min({start + PortSuggestScanWindow - 1, MaxPort})
        free  == {p \in start .. last :
                    /\ \A i \in DOMAIN planned : planned[i].host # p
                    /\ [protocol |-> b.protocol, port |-> p] \notin taken}
    IN IF free = {} THEN 0 ELSE Min(free)

------------------------------------------------------------------------------
(* The rendered compose file.                                              *)

\* The template carries the catalog's ports as literals.
EntryOf(port) ==
    [service |-> port.service, ip |-> HostIP(port),
     lo |-> IF IsRange(port) THEN port.hostRange[1] ELSE port.host,
     hi |-> IF IsRange(port) THEN port.hostRange[2] ELSE port.host,
     container |-> IF IsRange(port) THEN port.containerRange[1] ELSE port.container,
     protocol |-> port.protocol, spelled |-> port.spelled]

TemplateOf(app) == {EntryOf(app.ports[i]) : i \in DOMAIN app.ports}

\* An entry an override may move: one published loopback port.
Rewritable(e) == e.ip = "loopback" /\ e.lo = e.hi

RewriteEntry(e, ov) ==
    IF Rewritable(e) /\ e.lo \in DOMAIN ov
    THEN [e EXCEPT !.lo = ov[e.lo], !.hi = ov[e.lo]]
    ELSE e

RewriteComposeHostPorts(entries, ov) == {RewriteEntry(e, ov) : e \in entries}

\* Every override key must have moved an entry.
MatchedOverrides(entries, ov) ==
    \A p \in DOMAIN ov : \E e \in entries : Rewritable(e) /\ e.lo = p

\* Mutant: recorded ports are matched by service alone.
BindingKeyService(e) == <<e.service>>

\* The container side as the entry's text has it: "80" is not "80/tcp".
BindingKey(e) == <<e.service, e.container, e.protocol, e.spelled>>

\* extractLoopbackHostPorts: the last entry wins when two share a key; the
\* templates have at most one.
LoopbackEntries(entries) == {e \in entries : Rewritable(e)}

\* preserveUpdateHostPorts collects {new default -> recorded port}.  Two
\* bindings with the same default are two writes of one map key in an order
\* the map iteration picks, so the result is one of a set of functions.
PreserveOverrides(entries, recorded) ==
    LET moved(d) == {r \in LoopbackEntries(recorded) : BindingKey(r) = BindingKey(d) /\ r.lo # d.lo}
        pairs == UNION {{<<d.lo, r.lo>> : r \in moved(d)} : d \in LoopbackEntries(entries)}
        keys  == {pr[1] : pr \in pairs}
    IN {f \in [keys -> {pr[2] : pr \in pairs}] :
            \A k \in keys : <<k, f[k]>> \in pairs}

\* verifyPublicBindsMatchCatalog: the binds off the loopback interface are
\* the declared ones, both ways.
DeclaredPublicBinds(app) ==
    {<<e.protocol, e.lo, e.hi>> :
        e \in {EntryOf(app.ports[i]) :
                 i \in {j \in DOMAIN app.ports : app.ports[j].public}}}

RenderedPublicBinds(entries) ==
    {<<e.protocol, e.lo, e.hi>> : e \in {x \in entries : x.ip # "loopback"}}

\* Mutant: only the catalog-to-compose direction is checked.
VerifyDeclaredOnly(app, entries) ==
    DeclaredPublicBinds(app) \subseteq RenderedPublicBinds(entries)

VerifyPublicBinds(app, entries) ==
    RenderedPublicBinds(entries) = DeclaredPublicBinds(app)

\* What a compose file publishes, one record for each host port.
Published(entries) ==
    UNION {{[protocol |-> e.protocol, port |-> p] : p \in e.lo .. e.hi} :
             e \in entries}

\* Two entries on one host port of one protocol: compose cannot start both.
SelfConflict(entries) ==
    \E e, f \in entries :
        /\ e # f /\ e.protocol = f.protocol
        /\ e.lo <= f.hi /\ f.lo <= e.hi

------------------------------------------------------------------------------
(* Guidance shown after the install.                                       *)

RemapGuidanceURL(port, ov) == IF port \in DOMAIN ov THEN ov[port] ELSE port

LocalTargetPort(app, bound) ==
    IF app.target # 0 THEN app.target
    ELSE IF bound = <<>> THEN 0 ELSE bound[1].host

GuidancePort(app, bound, ov) == RemapGuidanceURL(LocalTargetPort(app, bound), ov)
=============================================================================
