----------------------------- MODULE InstallChecks -----------------------------
(***************************************************************************)
(* The checks a rendered compose document must pass before a fresh install, *)
(* an update or a reconfigure may use it                                    *)
(* (internal/core/install_phase_validate.go).  They are pure: each compares *)
(* what the document says with what the signed catalog declares of the app. *)
(*                                                                         *)
(* A document maps each service to a record: its image, network mode,       *)
(* capabilities, sysctls, devices, privileged flag, volumes (a sequence),   *)
(* networks (a function to the pinned address, NoAddr when none) and        *)
(* whether every YAML node had a kind the projections know.  A capability is *)
(* a record of its normalised name and the way it is spelled.  IPv4         *)
(* addresses are numbers, NoAddr what does not parse as one.                *)
(***************************************************************************)
EXTENDS Integers, Sequences, SequencesExt

NoAddr == -1

\* The closed allow-lists, each with a sample of its names.
AllowedCapabilities == {"CHOWN", "NET_ADMIN", "NET_RAW"}
AllowedSysctls == {"ip_forward", "src_valid_mark"}
AllowedProxyPermissions == {"CONTAINERS", "POST", "PING"}

\* strings.ToUpper, TrimSpace and TrimPrefix "CAP_": the spelling is dropped.
NormalizeCapability(cap) == cap.name

CapabilitySet(caps) == {NormalizeCapability(c) : c \in caps}

\* A YAML node of a kind a projection does not know fails every check that
\* decodes the document.
Parsed(doc) == \A s \in DOMAIN doc : doc[s].parsed

-----------------------------------------------------------------------------
(* Image pins *)

\* Only the first pin of a service counts; a pin without a service is skipped.
FirstPins(app) ==
  {i \in DOMAIN app.pins : /\ app.pins[i].service # ""
                           /\ \A j \in 1..(i - 1) : app.pins[j].service # app.pins[i].service}

PinnedServices(app) == {app.pins[i].service : i \in DOMAIN app.pins} \ {""}

VerifyImagePins(app, doc) ==
  \A i \in FirstPins(app) : /\ app.pins[i].service \in DOMAIN doc
                            /\ doc[app.pins[i].service].image = app.pins[i].image

\* A service on the host network publishes every port behind the ports list.
VerifyNoHostNetwork(doc) == \A s \in DOMAIN doc : doc[s].netmode # "host"

-----------------------------------------------------------------------------
(* Container privileges *)

HardeningOf(app) == ToSet(app.hardening)

DeclaredHardeningServices(app) == {h.service : h \in HardeningOf(app)}

VerifyPrivilegeDeclarations(app) ==
  \A h \in HardeningOf(app) : /\ CapabilitySet(h.caps) \subseteq AllowedCapabilities
                              /\ DOMAIN h.sysctls \subseteq AllowedSysctls
                              /\ ~h.devices
                              /\ ~h.privileged

\* The text is compared as it stands, whatever its case: CAP_ALL is not ALL here.
CapDropContainsAll(service) == \E c \in service.capDrop : c.spelled \in {"ALL", "All", "all"}

VerifyPrivilegeBounds(app, doc) ==
  \A s \in DOMAIN doc :
    /\ s \in DeclaredHardeningServices(app) \/ (doc[s].capAdd = {} /\ DOMAIN doc[s].sysctls = {})
    /\ CapabilitySet(doc[s].capAdd) \subseteq AllowedCapabilities
    /\ DOMAIN doc[s].sysctls \subseteq AllowedSysctls
    /\ ~doc[s].devices
    /\ ~doc[s].privileged
    /\ doc[s].capAdd = {} \/ CapDropContainsAll(doc[s])

\* Mutant: every declared capability is rendered, and perhaps more.
ParityOneWay(app, doc) ==
  \A h \in HardeningOf(app) :
    /\ h.service \in DOMAIN doc
    /\ CapabilitySet(h.caps) \subseteq CapabilitySet(doc[h.service].capAdd)
    /\ h.sysctls = doc[h.service].sysctls

VerifyPrivilegeParity(app, doc) ==
  \A h \in HardeningOf(app) :
    /\ h.service \in DOMAIN doc
    /\ CapabilitySet(h.caps) = CapabilitySet(doc[h.service].capAdd)
    /\ h.sysctls = doc[h.service].sysctls
    /\ h.privileged = doc[h.service].privileged

VerifyContainerPrivilege(app, doc) ==
  /\ VerifyPrivilegeDeclarations(app)
  /\ VerifyPrivilegeBounds(app, doc)
  /\ VerifyPrivilegeParity(app, doc)

-----------------------------------------------------------------------------
(* The Docker socket *)

\* A source whose cleaned base name is docker.sock, wherever it lives.
IsDockerSocketSource(source) == source \in {"/var/run/docker.sock", "/run/user/1000/docker.sock"}

MountsSocket(service) == \E i \in DOMAIN service.volumes : IsDockerSocketSource(service.volumes[i].source)

\* An enabled proxy with a service name; the zero value grants nothing.
ProxyServices(app) ==
  IF app.proxy.declared /\ app.proxy.enabled /\ app.proxy.service # "" THEN {app.proxy.service} ELSE {}

\* The first network of that name is the one the declaration means.
InternalFirst(app, name) ==
  \E i \in DOMAIN app.networks : /\ app.networks[i].name = name
                                 /\ app.networks[i].internal
                                 /\ \A j \in 1..(i - 1) : app.networks[j].name # name

VerifySocketDeclaration(app) ==
  app.proxy.declared => /\ app.proxy.allowed \subseteq AllowedProxyPermissions
                        /\ InternalFirst(app, app.proxy.network)
                        /\ app.proxy.service \in {app.pins[i].service : i \in DOMAIN app.pins}

\* Mutant: a proxy that is declared and switched off keeps its exemption.
NoDirectMountUnlessDeclared(app, doc) ==
  \A s \in DOMAIN doc : (app.proxy.declared /\ s = app.proxy.service) \/ ~MountsSocket(doc[s])

VerifyNoDirectSocketMount(app, doc) ==
  \A s \in DOMAIN doc \ ProxyServices(app) : ~MountsSocket(doc[s])

InternalNetworkNames(app) == {n.name : n \in {m \in ToSet(app.networks) : m.internal}}

\* Mutant: a proxy without networks is taken to be on none.
ProxyNetworkUnlessAbsent(app, doc) ==
  \A s \in ProxyServices(app) : s \in DOMAIN doc /\ DOMAIN doc[s].nets \subseteq InternalNetworkNames(app)

VerifyProxyNetworkInternal(app, doc) ==
  \A s \in ProxyServices(app) : /\ s \in DOMAIN doc
                                /\ DOMAIN doc[s].nets # {}
                                /\ DOMAIN doc[s].nets \subseteq InternalNetworkNames(app)

VerifySocketPolicy(app, doc) ==
  /\ VerifySocketDeclaration(app)
  /\ VerifyNoDirectSocketMount(app, doc)
  /\ VerifyProxyNetworkInternal(app, doc)

-----------------------------------------------------------------------------
(* The host's kernel modules *)

HostModulePath == "/lib/modules"

\* path.Clean of the source or the target.
IsHostModuleSource(source) == source \in {"/lib/modules", "/lib/modules/"}

ModuleMountServices(app) == {h.service : h \in {g \in HardeningOf(app) : g.modules}}

MountsModules(service) == {i \in DOMAIN service.volumes : IsHostModuleSource(service.volumes[i].source)}

\* Short syntax carries its mode as a list of options, long syntax a flag.
IsReadOnly(volume) == IF volume.short THEN "ro" \in volume.modes ELSE volume.readOnly

VerifyModuleMountBounds(app, doc) ==
  \A s \in DOMAIN doc \ ModuleMountServices(app) : MountsModules(doc[s]) = {}

\* The loop stops at the first mount of the module tree.
VerifyModuleMountParity(app, doc) ==
  \A s \in ModuleMountServices(app) :
    /\ s \in DOMAIN doc
    /\ \E i \in MountsModules(doc[s]) :
         /\ \A j \in MountsModules(doc[s]) : i <= j
         /\ IsHostModuleSource(doc[s].volumes[i].target)
         /\ IsReadOnly(doc[s].volumes[i])

VerifyHostModuleMount(app, doc) == VerifyModuleMountBounds(app, doc) /\ VerifyModuleMountParity(app, doc)

-----------------------------------------------------------------------------
(* Static addresses *)

\* netip.Prefix.Masked and Contains on a block of `size` addresses.
InSubnet(subnet, addr) ==
  LET first == subnet.base - (subnet.base % subnet.size)
  IN  addr # NoAddr /\ addr >= first /\ addr < first + subnet.size

ServiceDeclared(app, service) ==
  service \in {app.pins[i].service : i \in DOMAIN app.pins} \cup app.portServices

AddressOK(app, network, address) ==
  InSubnet(network.subnet, address.addr) /\ ServiceDeclared(app, address.service)

VerifyIPAMDeclarations(app) ==
  \A n \in {m \in ToSet(app.networks) : m.ipam} :
    /\ n.subnet.base # NoAddr
    /\ n.gateway.set => InSubnet(n.subnet, n.gateway.addr)
    /\ \A a \in ToSet(n.addresses) : AddressOK(app, n, a)

\* The places of the address declarations: the j-th of the i-th network.
AddressPlaces(app) ==
  UNION {{<<i, j>> : j \in DOMAIN app.networks[i].addresses} : i \in {k \in DOMAIN app.networks : app.networks[k].ipam}}

DeclaredNetwork(app, d) == app.networks[d[1]]
DeclaredAddress(app, d) == app.networks[d[1]].addresses[d[2]]

SameKey(app, d, e) ==
  /\ DeclaredNetwork(app, d).name = DeclaredNetwork(app, e).name
  /\ DeclaredAddress(app, d).service = DeclaredAddress(app, e).service

\* The map the declarations fill: the last one for a network and a service is
\* the one that counts.
DeclaredIPAM(app) ==
  {d \in AddressPlaces(app) :
     \A e \in AddressPlaces(app) : SameKey(app, d, e) => e[1] < d[1] \/ (e[1] = d[1] /\ e[2] <= d[2])}

VerifyIPAMParity(app, doc) ==
  \A d \in DeclaredIPAM(app) :
    LET network == DeclaredNetwork(app, d).name
        address == DeclaredAddress(app, d)
    IN  /\ address.service \in DOMAIN doc
        /\ network \in DOMAIN doc[address.service].nets
        /\ doc[address.service].nets[network] = address.addr

VerifyIPAMBounds(app, doc) ==
  \A s \in DOMAIN doc : \A n \in DOMAIN doc[s].nets :
    \/ doc[s].nets[n] = NoAddr
    \/ \E d \in DeclaredIPAM(app) : DeclaredNetwork(app, d).name = n /\ DeclaredAddress(app, d).service = s

VerifyNetworkIPAM(app, doc) ==
  VerifyIPAMDeclarations(app) /\ VerifyIPAMParity(app, doc) /\ VerifyIPAMBounds(app, doc)

-----------------------------------------------------------------------------
(* Services that are expected to exit *)

VerifyCompletedServices(app, doc) ==
  \A s \in app.completed : s \in PinnedServices(app) /\ s \in DOMAIN doc

-----------------------------------------------------------------------------
(* Labels and files of the rendering step (internal/render/labels.go).       *)

\* A label block in list form is left as it is, so the injected labels are
\* missing from it and the rendering refuses the document.
InjectLabels(doc) == \A s \in DOMAIN doc : ~doc[s].labelList

\* A file the catalog says is mounted (a sequence of at most one volume entry)
\* must be among the short-syntax volumes, letter by letter.
VerifyFileMounts(app, doc) ==
  \A f \in app.files : \A m \in ToSet(f.mount) :
     \E s \in DOMAIN doc : \E i \in DOMAIN doc[s].volumes : doc[s].volumes[i] = m /\ m.short

\* A generated artifact must stay under the stack directory.
FileDestsSafe(app) == \A f \in app.files : f.generated => f.safe

-----------------------------------------------------------------------------
\* What every path checks, in the order of renderInstall, rewriteUpdateStack
\* and rewriteReconfigureStack (each check refuses, none changes anything).
VerifyDocument(app, doc) ==
  /\ Parsed(doc)
  /\ VerifyImagePins(app, doc)
  /\ VerifyNoHostNetwork(doc)
  /\ VerifyContainerPrivilege(app, doc)
  /\ VerifySocketPolicy(app, doc)
  /\ VerifyHostModuleMount(app, doc)
  /\ VerifyNetworkIPAM(app, doc)

\* render.RenderLabels: labels, mounts and destinations.
RenderLabelsOK(app, doc) ==
  InjectLabels(doc) /\ VerifyFileMounts(app, doc) /\ FileDestsSafe(app)
=============================================================================
