---------------------------- MODULE MCStackValues ----------------------------
(* Small instances of StackValues: one app, its catalog versions in the order *)
(* they are released, each changing one thing of the declaration or the       *)
(* template; the tenth one's bands are out of order and wrap around.         *)
EXTENDS StackValues

Ph(name, type, required, default) ==
  [name |-> name, type |-> type, required |-> required, default |-> default,
   enc |-> "", regen |-> TRUE, sensitive |-> FALSE]

Secret(name, enc, regen) ==
  [Ph(name, "secret", TRUE, << >>) EXCEPT !.enc = enc, !.regen = regen]

Mem(n, u) == [n |-> n, u |-> u]

Sized(service, key, lo, rec, hi) ==
  [service |-> service, key |-> key, names |-> {"MEMORY_LIMIT_" \o key}, adjustable |-> TRUE,
   mem |-> [min |-> lo, rec |-> rec, max |-> hi],
   cpus |-> [min |-> 50, rec |-> 100, max |-> 200],
   pids |-> [default |-> 3, max |-> 4]]

Cap(name, spelled) == [name |-> name, spelled |-> spelled]

Service(image) ==
  [image |-> image, netmode |-> "", parsed |-> TRUE, capAdd |-> {}, capDrop |-> {Cap("ALL", "all")},
   sysctls |-> << >>, devices |-> FALSE, privileged |-> FALSE, volumes |-> << >>,
   nets |-> [n \in {"back"} |-> NoAddr], labelList |-> FALSE]

Volume(source, short, modes, readOnly) ==
  [source |-> source, target |-> source, short |-> short, modes |-> modes, readOnly |-> readOnly]

Net(name, internal) ==
  [name |-> name, internal |-> internal, ipam |-> FALSE, subnet |-> [base |-> 0, size |-> 1],
   gateway |-> [set |-> FALSE, addr |-> NoAddr], addresses |-> << >>]

Conf == Volume("./app.conf", TRUE, {}, FALSE)

Base ==
  [pins |-> <<[service |-> "web", image |-> "web:1"], [service |-> "sock", image |-> "sock:1"]>>,
   portServices |-> {"web"}, hardening |-> << >>,
   proxy |-> [declared |-> FALSE, enabled |-> FALSE, service |-> "", network |-> "", allowed |-> {}],
   networks |-> <<Net("back", TRUE), Net("front", FALSE)>>,
   completed |-> {}, files |-> {[mode |-> "0644", keys |-> {"TITLE"}, mount |-> <<Conf>>, generated |-> TRUE, safe |-> TRUE],
                                [mode |-> "0600", keys |-> {"DB"}, mount |-> << >>, generated |-> FALSE, safe |-> TRUE]},
   placeholders |-> <<Ph("DOMAIN", "domain", TRUE, << >>), Ph("TZ", "timezone", FALSE, << >>),
                      Ph("DATA", "path", FALSE, <<"/srv/link">>), Ph("TITLE", "string", FALSE, <<"wdm">>),
                      Ph("TLS", "bool", FALSE, <<"1">>), Ph("PORT", "port", FALSE, << >>),
                      [Ph("SMTP", "string", FALSE, << >>) EXCEPT !.sensitive = TRUE],
                      Secret("DB", "hex", FALSE), Secret("KEY", "base64url", TRUE), Secret("HASH", "argon2id", FALSE)>>,
   resources |-> <<Sized("web", "WEB", Mem(1, "k"), Mem(2, "k"), Mem(3, "k")),
                   Sized("sock", "SOCK", Mem(1, "b"), Mem(2, "b"), Mem(3, "b"))>>,
   envKeys |-> {"DOMAIN", "TZ", "DATA", "TITLE", "TLS", "PORT", "SMTP", "DB", "KEY", "HASH", "UID"},
   composeKeys |-> {"DOMAIN", "DOCKER_SOCKET_SOURCE"},
   doc |-> [s \in {"web", "sock"} |-> IF s = "web" THEN [Service("web:1") EXCEPT !.volumes = <<Conf>>] ELSE Service("sock:1")]]

WithDoc(app, s, service) == [app EXCEPT !.doc = [@ EXCEPT ![s] = service]]

\* Values: flags flip, placeholders come and go, a template inlines a value.
ValueVersions ==
  <<Base,
    [Base EXCEPT !.composeKeys = @ \cup {"SMTP"}],
    [Base EXCEPT !.files = {[f EXCEPT !.keys = {"KEY"}] : f \in @}],
    [Base EXCEPT !.placeholders = [@ EXCEPT ![9].regen = FALSE, ![4].default = <<"new">>]],
    [Base EXCEPT !.placeholders = [@ EXCEPT ![4].sensitive = TRUE]],
    [Base EXCEPT !.placeholders = [@ EXCEPT ![10].regen = TRUE]],
    [Base EXCEPT !.placeholders = Append(@, Ph("NEW", "string", FALSE, <<"x">>)), !.envKeys = @ \cup {"NEW"}],
    [Base EXCEPT !.resources = [@ EXCEPT ![1].mem.max = Mem(2, "k"), ![2].cpus.rec = 200, ![2].mem.rec = Mem(1, "b")],
                 !.placeholders = [@ EXCEPT ![5] = Secret("TLS", "hex", TRUE)]],
    [Base EXCEPT !.resources = <<@[1], [@[1] EXCEPT !.service = "sock", !.mem.max = Mem(4, "k")]>>],
    [Base EXCEPT !.resources = [i \in {1, 2} |-> [@[i] EXCEPT !.mem.rec = Mem(4, "g"), !.mem.max = Mem(1, "g"), !.cpus.max = 40]]]>>

Hardened(caps, sysctls, modules) ==
  <<[service |-> "web", caps |-> caps, sysctls |-> sysctls, devices |-> FALSE, privileged |-> FALSE, modules |-> modules]>>

\* The i-th combination's choice among `options`, when `stride` combinations
\* share it.
Pick(options, i, stride) == options[((i \div stride) % Len(options)) + 1]

\* Privileges: declared and rendered sets, spellings, the dropped baseline.
PrivilegeVersion(i) ==
  [WithDoc(Base, "web", [Base.doc["web"] EXCEPT
       !.capAdd = Pick(<<{Cap("NET_ADMIN", "cap_net_admin")}, {Cap("SYS_ADMIN", "SYS_ADMIN")},
                         {Cap("NET_ADMIN", "NET_ADMIN"), Cap("CHOWN", "CHOWN")}>>, i, 4),
       !.capDrop = Pick(<<{Cap("ALL", "all")}, {Cap("ALL", "CAP_ALL")}>>, i, 2)])
     EXCEPT !.hardening = Pick(<<Hardened({Cap("NET_ADMIN", "NET_ADMIN")}, << >>, FALSE), << >>>>, i, 1)]

\* The socket: who mounts it, whether the proxy is enabled, where it is attached.
SocketVersion(i) ==
  LET s == Pick(<<"sock", "web">>, i, 6)
      attached == Pick(<<{"back"}, {}, {"back", "front"}>>, i, 1)
  IN  [WithDoc(Base, s, [Base.doc[s] EXCEPT !.volumes = Append(@, Volume("/var/run/docker.sock", TRUE, {}, FALSE)),
                                            !.nets = [n \in attached |-> NoAddr]])
         EXCEPT !.proxy = [declared |-> TRUE, enabled |-> Pick(<<TRUE, FALSE>>, i, 3), service |-> "sock",
                           network |-> "back", allowed |-> {"POST"}]]

\* The module tree: declared or not, read-only or not, in both syntaxes.
ModuleVersion(i) ==
  LET mount == Volume("/lib/modules/", Pick(<<TRUE, FALSE>>, i, 1), Pick(<<{"z", "ro"}, {}>>, i, 2), Pick(<<TRUE, FALSE>>, i, 2))
  IN  [WithDoc(Base, "web", [Base.doc["web"] EXCEPT !.volumes = Append(@, mount)])
         EXCEPT !.hardening = Hardened({}, << >>, Pick(<<TRUE, FALSE>>, i, 4))]

\* Addresses: of the declared service alone or of another too, outside the subnet.
AddressVersion(i) ==
  LET holders == Pick(<<{"web"}, {"web", "sock"}>>, i, 1)
      addresses == Pick(<< <<[service |-> "web", addr |-> 6]>>, <<[service |-> "web", addr |-> 9]>>, << >> >>, i, 2)
      addr == Pick(<<6, 9>>, i, 6)
  IN  [Base EXCEPT !.doc = [s \in DOMAIN @ |-> [@[s] EXCEPT !.nets = [n \in {"back"} |-> IF s \in holders THEN addr ELSE NoAddr]]],
                   !.networks = <<[Net("back", TRUE) EXCEPT !.ipam = TRUE, !.subnet = [base |-> 5, size |-> 4],
                                                           !.addresses = addresses]>>]

MCCatalogs ==
  ValueVersions \o [i \in 1..12 |-> PrivilegeVersion(i - 1)] \o [i \in 1..12 |-> SocketVersion(i - 1)]
                \o [i \in 1..8 |-> ModuleVersion(i - 1)] \o [i \in 1..12 |-> AddressVersion(i - 1)]

\* A version of the values after the first and the one before it; a document
\* version after the first, and every other one after its predecessor too.
MCReleases ==
  {r \in (1..54) \X (2..54) : r[1] < r[2] /\ (r[1] = 1 \/ (r[2] = r[1] + 1 /\ (r[2] <= 10 \/ r[2] % 2 = 0)))}

Request == [values |-> << >>, domain |-> "App.Example.", profile |-> "", overrides |-> << >>]
Override(s, m, c, p) == [service |-> s, mem |-> m, cpus |-> c, pids |-> p]
Given(name, text) == [n \in {name} |-> text]

MCRequests ==
  {Request,
   [Request EXCEPT !.values = Given("SMTP", "hush"), !.profile = "min", !.overrides = <<Override("web", << >>, <<NaN>>, << >>)>>],
   [Request EXCEPT !.values = Given("TITLE", "shop"), !.overrides = <<Override("web", <<Mem(3, "k")>>, <<200>>, << >>)>>],
   [Request EXCEPT !.values = Given("SMTP", "two\nlines")],
   [Request EXCEPT !.values = Given("PORT", "65536")],
   [Request EXCEPT !.overrides = <<Override("web", <<Mem(4, "k")>>, << >>, << >>)>>]}

MCReconfigures ==
  {Override("web", <<Mem(2, "k")>>, << >>, << >>), Override("web", <<Mem(4, "k")>>, << >>, << >>),
   Override("sock", << >>, <<50>>, <<5>>), Override("sock", << >>, <<NaN>>, <<4>>)}

Host == [tz |-> "", zoneFile |-> "UTC", zoneLink |-> "absent", settings |-> "", cpus |-> 400, memory |-> 9, uid |-> "1000",
         socket |-> "/run/user/1000/docker.sock"]

MCHosts == {Host}

=============================================================================
