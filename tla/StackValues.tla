------------------------------ MODULE StackValues ------------------------------
(***************************************************************************)
(* The values of a stack: what an install resolves from the request, the     *)
(* catalog and the host, what it generates, what it writes into .env and the *)
(* public files, and what updates and reconfigures do to those values while  *)
(* the catalog moves on (internal/core/install_phase_plan.go,                *)
(* install_phase_secrets.go, install_phase_render.go, update_apply.go,       *)
(* reconfigure.go, reconfigure_apply.go, internal/render).                   *)
(*                                                                         *)
(* An operation either refuses before it writes anything, or writes all of   *)
(* its files: how the writes interleave with failures is ConfigTx's and      *)
(* StackLifecycle's subject.                                                 *)
(***************************************************************************)
EXTENDS InstallChecks, FiniteSetsExt, Functions

CONSTANTS Catalogs,      \* sequence of the app's declarations, one per catalog version
          Releases,      \* pairs of versions: the second may follow the first
          Requests,      \* install requests the operator makes
          Reconfigures,  \* reconfigure requests the operator makes
          Hosts,         \* hosts an install may run on
          MemModulus,    \* 2^64, scaled down
          Reserve,       \* installHostMemoryReserveBytes, scaled down
          MaxRounds      \* bound on the operations that generate secrets

Refused == "refused"

\* A memory size as it is written, <integer><b|k|m|g>; CPU quotas are hundredths.
Sizes == [n : Nat, u : STRING]

ResourceProfiles ==
  [service : STRING, key : STRING, names : SUBSET STRING, adjustable : BOOLEAN,
   mem : [min : Sizes, rec : Sizes, max : Sizes], cpus : [min : Nat, rec : Nat, max : Nat],
   pids : [default : Nat, max : Nat]]

\* A limit that is not asked for is the empty sequence.
ResourceOverrides == [service : STRING, mem : Seq(Sizes), cpus : Seq(Int), pids : Seq(Int)]

ASSUME ValuesAssumption ==
  /\ MemModulus \in Nat \ {0} /\ Reserve \in Nat /\ MaxRounds \in Nat
  /\ 1 \in DOMAIN Catalogs /\ Releases \subseteq (DOMAIN Catalogs) \X (DOMAIN Catalogs)
  /\ \A v \in DOMAIN Catalogs :
       /\ Catalogs[v].resources \in Seq(ResourceProfiles)
       /\ \A s \in DOMAIN Catalogs[v].doc :
            Catalogs[v].doc[s].sysctls \in [DOMAIN Catalogs[v].doc[s].sysctls -> STRING]
  /\ \A req \in Requests : req.overrides \in Seq(ResourceOverrides)
  /\ Reconfigures \subseteq ResourceOverrides
  /\ \A host \in Hosts : /\ host.uid # Refused /\ host.socket # Refused
                          /\ host.memory \in Nat /\ host.cpus \in Nat

VARIABLES cat,        \* index of the catalog version in force
          installed,  \* the stack has its files
          env,        \* .env: name to [text, dollars]
          limits,     \* .env: resource limits by service key
          doc,        \* docker-compose.yml
          inlined,    \* texts in docker-compose.yml
          shown,      \* texts in the other files that are not 0600
          renderedBy, \* catalog version the files were rendered from
          verifiedBy, \* catalog version the compose file last passed the checks of
          rounds,     \* operations that have generated secrets so far
          supplied,   \* history: texts the operator's request resolved to, without the
                      \* placeholders an update found to be secrets
          setBy,      \* history: catalog version whose band admitted each limit
          budget      \* history: memory the planning host had to give, while no limit is overridden

vars == <<cat, installed, env, limits, doc, inlined, shown, renderedBy, verifiedBy, rounds, supplied, setBy, budget>>

App == Catalogs[cat]

NoBudget == -1

\* A text is a word and the operation that generated it, 0 for one that was given.
Word(text) == <<text, 0>>

Plain(text) == [text |-> Word(text), dollars |-> 0]

-----------------------------------------------------------------------------
(* Placeholders *)

Names(app) == {app.placeholders[i].name : i \in DOMAIN app.placeholders}

\* The declaration of a name (names are distinct once NoDuplicates holds).
Decl(app, name) == app.placeholders[CHOOSE i \in DOMAIN app.placeholders : app.placeholders[i].name = name]

NoDuplicates(app) == \A i, j \in DOMAIN app.placeholders : app.placeholders[i].name = app.placeholders[j].name => i = j

SecretNames(app) == {p.name : p \in {q \in ToSet(app.placeholders) : q.type = "secret"}}
SensitiveNames(app) == {p.name : p \in {q \in ToSet(app.placeholders) : q.sensitive}}

\* Host names are lower-cased and lose a trailing dot; URLs, addresses,
\* wildcards, localhost and malformed labels are refused, the empty one too.
NormalizeDomain(text) == IF text \in {"app.example", "App.Example."} THEN "app.example" ELSE Refused

ResolveDomain(ph, text) ==
  IF text = "" /\ ph.required THEN Refused ELSE NormalizeDomain(text)

ValidateTimezone(text) == IF text \in {"UTC", "Europe/Bratislava"} THEN text ELSE Refused

\* Request or settings, then TZ, then /etc/timezone, then /etc/localtime; a
\* source that cannot be read refuses, one that is absent or blank is passed over.
ResolveTimezone(text, host) ==
  IF text # "" THEN ValidateTimezone(text)
  ELSE IF host.tz # "" THEN ValidateTimezone(host.tz)
  ELSE IF host.zoneFile = "unreadable" THEN Refused
  ELSE IF host.zoneFile \notin {"absent", ""} THEN ValidateTimezone(host.zoneFile)
  ELSE IF host.zoneLink \in {"unreadable", "absent", ""} THEN Refused
  ELSE ValidateTimezone(host.zoneLink)

\* Absolute, existing after symlinks are followed, and outside the stack.
ResolvePath(ph, given) ==
  LET text == IF given # << >> /\ given # <<"">> THEN given[1]
              ELSE IF ~ph.required /\ ph.default # << >> THEN ph.default[1] ELSE ""
  IN  CASE text = "" -> (IF ph.required THEN Refused ELSE "")
        [] text = "/srv/data" -> "/srv/data"
        [] text = "/srv/link" -> "/srv/data"
        [] OTHER -> Refused

HasControl(text) == text = "two\nlines"

ResolveString(ph, given) ==
  LET source == IF given # << >> THEN given ELSE ph.default
  IN  IF source = << >> THEN (IF ph.required THEN Refused ELSE "")
      ELSE IF HasControl(source[1]) THEN Refused ELSE source[1]

\* Parsed and printed again; an optional one without a value stays empty.
ResolveParsed(ph, given, table) ==
  LET source == IF given # << >> THEN given ELSE ph.default
  IN  IF source = << >> THEN (IF ph.required THEN Refused ELSE "")
      ELSE IF source[1] \in DOMAIN table THEN table[source[1]] ELSE Refused

ParseBool == [t \in {"true", "1", "F"} |-> IF t = "F" THEN "false" ELSE "true"]
ParsePort == [t \in {"80", "080", "65535"} |-> IF t = "65535" THEN t ELSE "80"]

Resolve(ph, req, host) ==
  LET given == IF ph.name \in DOMAIN req.values THEN <<req.values[ph.name]>> ELSE << >>
      orElse(text) == IF given # << >> THEN given[1] ELSE text
  IN  CASE ph.type = "domain" -> ResolveDomain(ph, orElse(req.domain))
        [] ph.type = "timezone" -> ResolveTimezone(orElse(host.settings), host)
        [] ph.type = "path" -> ResolvePath(ph, given)
        [] ph.type = "string" -> ResolveString(ph, given)
        [] ph.type = "bool" -> ResolveParsed(ph, given, ParseBool)
        [] ph.type = "port" -> ResolveParsed(ph, given, ParsePort)
        [] OTHER -> Refused

\* Values wdm adds under names no placeholder may take.
Builtins(host) == [n \in {"UID", "DOCKER_SOCKET_SOURCE"} |-> IF n = "UID" THEN host.uid ELSE host.socket]

LimitNames(app) == UNION {app.resources[i].names : i \in DOMAIN app.resources}

\* A name wdm adds is looked for among the values resolved so far: no secret is.
NamesFree(app, host) == (Names(app) \ SecretNames(app)) \cap (DOMAIN Builtins(host) \cup LimitNames(app)) = {}

\* The list the templates are rendered with holds each name once, the added ones
\* too: a secret named like one of them is refused here.
ValidatePlaceholders(app, host) == Names(app) \cap (DOMAIN Builtins(host) \cup LimitNames(app)) = {}

\* Mutant: a value that does not resolve is planned all the same.
PlanUnresolvedOK(app, req, host) ==
  NoDuplicates(app) /\ DOMAIN req.values \subseteq Names(app) /\ NamesFree(app, host)

PlanPlaceholdersOK(app, req, host) ==
  /\ NoDuplicates(app)
  /\ DOMAIN req.values \subseteq Names(app)
  /\ \A n \in Names(app) \ SecretNames(app) : Resolve(Decl(app, n), req, host) # Refused
  /\ NamesFree(app, host)

-----------------------------------------------------------------------------
(* Secrets *)

PlainEncodings == {"base64url", "base64std", "hex"}

\* A text never seen before.  An argon2id hash holds `$` and is written with each one
\* doubled, once, so that compose's interpolation gives the container the hash.
FreshSecret(app, name) ==
  [text |-> <<name, rounds + 1>>, dollars |-> IF Decl(app, name).enc = "argon2id" THEN 1 ELSE 0]

EncodingsOK(app) == \A n \in SecretNames(app) : Decl(app, n).enc \in PlainEncodings \cup {"argon2id"}

-----------------------------------------------------------------------------
(* Resources *)

NaN == -1          \* what ParseFloat makes of "NaN": no comparison with it holds
NotANumber == -2   \* a text ParseFloat refuses
Below(a, b) == a # NaN /\ b # NaN /\ a < b

Unit(u) == CASE u = "b" -> 1 [] u = "k" -> 2 [] u = "m" -> 4 [] u = "g" -> 8 [] OTHER -> 0

ParseMemoryOK(m) == Unit(m.u) # 0 /\ m.n > 0 /\ m.n <= (MemModulus - 1) \div Unit(m.u)

MemoryBytes(m) == m.n * Unit(m.u)

Profiles(app) == ToSet(app.resources)

\* No service twice, and no two services whose names make the same key.
IndexResourceProfilesOK(app) ==
  \A i, j \in DOMAIN app.resources :
    /\ app.resources[i].key # ""
    /\ i # j => app.resources[i].service # app.resources[j].service /\ app.resources[i].key # app.resources[j].key

Band(profile, useMin) ==
  IF useMin THEN [mem |-> profile.mem.min, cpus |-> profile.cpus.min]
            ELSE [mem |-> profile.mem.rec, cpus |-> profile.cpus.rec]

BandOK(app, useMin) ==
  \A p \in Profiles(app) : ParseMemoryOK(Band(p, useMin).mem) /\ Below(0, Band(p, useMin).cpus)

\* The memory of each profile of the app.
BandMemory(app, useMin) == [i \in DOMAIN app.resources |-> MemoryBytes(Band(app.resources[i], useMin).mem)]

\* uint64 addition wraps.
SumMemory(app, useMin) == SumFunction(BandMemory(app, useMin)) % MemModulus

SumCPUs(app, useMin) == SumFunction([i \in DOMAIN app.resources |-> Band(app.resources[i], useMin).cpus])

MemoryBudget(host) == IF host.memory > Reserve THEN host.memory - Reserve ELSE 0

UseMinimum(app, req, host) ==
  \/ req.profile = "min"
  \/ SumMemory(app, FALSE) > MemoryBudget(host)
  \/ SumCPUs(app, FALSE) > host.cpus

\* An override of 0 or "" is no override.
LimitOverrideOK(p, o) ==
  /\ o.mem # << >> => /\ ParseMemoryOK(o.mem[1]) /\ ParseMemoryOK(p.mem.min) /\ ParseMemoryOK(p.mem.max)
                      /\ MemoryBytes(o.mem[1]) >= MemoryBytes(p.mem.min)
                      /\ MemoryBytes(o.mem[1]) <= MemoryBytes(p.mem.max)
  /\ o.cpus # << >> => /\ o.cpus[1] # NotANumber /\ ~(o.cpus[1] # NaN /\ o.cpus[1] <= 0)
                       /\ ~Below(o.cpus[1], p.cpus.min) /\ ~Below(p.cpus.max, o.cpus[1])
  /\ o.pids # << >> => o.pids[1] >= 1 /\ o.pids[1] <= p.pids.max

WithOverride(chosen, o) ==
  [mem |-> IF o.mem # << >> THEN o.mem[1] ELSE chosen.mem,
   cpus |-> IF o.cpus # << >> THEN o.cpus[1] ELSE chosen.cpus,
   pids |-> IF o.pids # << >> THEN o.pids[1] ELSE chosen.pids]

Adjustable(app, o) == {p \in Profiles(app) : p.service = o.service /\ p.adjustable}

PlanResourcesOK(app, req, host) ==
  app.resources # << >> =>
    /\ host.cpus > 0 /\ host.memory > 0
    /\ req.profile \in {"", "recommended", "min"}
    /\ IndexResourceProfilesOK(app)
    /\ BandOK(app, FALSE)
    /\ UseMinimum(app, req, host) => BandOK(app, TRUE)
    /\ \A i \in DOMAIN req.overrides :
         \E p \in Adjustable(app, req.overrides[i]) : LimitOverrideOK(p, req.overrides[i])

\* The overrides are applied in their order: the last one that sets a limit of
\* the service wins.
Settings(overrides, service, d) ==
  {i \in DOMAIN overrides : overrides[i].service = service /\ overrides[i][d] # << >>}

Chosen(overrides, service, d, selected) ==
  LET own == Settings(overrides, service, d)
  IN  IF own = {} THEN selected ELSE overrides[Max(own)][d][1]

Selected(app, req, host) ==
  [k \in {p.key : p \in Profiles(app)} |->
     LET p == CHOOSE q \in Profiles(app) : q.key = k
         band == Band(p, UseMinimum(app, req, host))
     IN  [mem |-> Chosen(req.overrides, p.service, "mem", band.mem),
          cpus |-> Chosen(req.overrides, p.service, "cpus", band.cpus),
          pids |-> Chosen(req.overrides, p.service, "pids", p.pids.default)]]

-----------------------------------------------------------------------------
(* Rendering *)

PublicFileKeys(app) == UNION {f.keys : f \in {g \in app.files : g.mode # "0600"}}

FileKeys(app) == UNION {f.keys : f \in app.files}

\* missingkey=error: a template that names a value nobody resolved fails.
RenderOK(app, values) ==
  /\ app.envKeys \cup app.composeKeys \cup FileKeys(app) \subseteq DOMAIN values
  /\ RenderLabelsOK(app, app.doc)

Texts(values, keys) == {values[k].text : k \in keys}

\* No secret text in a file that is not 0600 (the empty text is in every file).
NonSecretArtifactsOK(app, values, secrets) ==
  (Texts(values, app.composeKeys) \cup Texts(values, PublicFileKeys(app))) \cap (secrets \ {Word("")}) = {}

WriteStack(app, values, sized) ==
  /\ installed' = TRUE
  /\ env' = Restrict(values, app.envKeys)
  /\ limits' = sized
  /\ doc' = app.doc
  /\ inlined' = Texts(values, app.composeKeys)
  /\ shown' = Texts(values, PublicFileKeys(app))
  /\ renderedBy' = cat
  /\ verifiedBy' = cat

-----------------------------------------------------------------------------
Init ==
  /\ cat = 1
  /\ installed = FALSE
  /\ env = << >> /\ limits = << >> /\ doc = << >>
  /\ inlined = {} /\ shown = {}
  /\ renderedBy = 1 /\ verifiedBy = 1 /\ rounds = 0 /\ supplied = << >> /\ setBy = << >> /\ budget = NoBudget

UserValues(app, req, host) == [n \in Names(app) \ SecretNames(app) |-> Resolve(Decl(app, n), req, host)]

\* What the templates are rendered with.
RenderInput(app, user, host) ==
  [n \in SecretNames(app) \cup DOMAIN user \cup DOMAIN Builtins(host) |->
     IF n \in SecretNames(app) THEN FreshSecret(app, n)
     ELSE IF n \in DOMAIN user THEN Plain(user[n])
     ELSE Plain(Builtins(host)[n])]

\* Install: plan, generate, render, check, write.
Install(req, host) ==
  LET app == App
      secret == SecretNames(app)
      user == UserValues(app, req, host)
      values == RenderInput(app, user, host)
  IN  /\ ~installed
      /\ rounds < MaxRounds
      /\ PlanPlaceholdersOK(app, req, host)
      /\ PlanResourcesOK(app, req, host)
      /\ EncodingsOK(app)
      /\ ValidatePlaceholders(app, host)
      /\ RenderOK(app, values)
      /\ VerifyDocument(app, app.doc)
      /\ VerifyCompletedServices(app, app.doc)
      /\ NonSecretArtifactsOK(app, values, Texts(values, secret \cup SensitiveNames(app)))
      /\ WriteStack(app, values, Selected(app, req, host))
      /\ rounds' = rounds + 1
      /\ supplied' = user
      /\ setBy' = [k \in {p.key : p \in Profiles(app)} |-> [mem |-> cat, cpus |-> cat, pids |-> cat]]
      /\ budget' = IF req.overrides = << >> THEN MemoryBudget(host) ELSE NoBudget
      /\ UNCHANGED cat

\* Mutant: whatever can be generated again is.
RegeneratedAll(app) == {p.name : p \in {q \in ToSet(app.placeholders) : q.type = "secret" /\ q.enc # "argon2id"}}

\* Regenerable unless the catalog says false.
Regenerated(app) == {p.name : p \in {q \in ToSet(app.placeholders) : q.type = "secret" /\ q.regen}}

\* Mutant: a reused value is escaped like a generated one.
ReusedEscaped(name) == [env[name] EXCEPT !.dollars = IF @ = 0 THEN 0 ELSE @ + 1]

\* A value reused from .env is copied as it stands there.
Reused(name) == env[name]

\* What an update renders the templates with.
UpdateInput(app, host) ==
  [n \in Regenerated(app) \cup DOMAIN Builtins(host) \cup DOMAIN env |->
     IF n \in Regenerated(app) THEN FreshSecret(app, n)
     ELSE IF n \in DOMAIN Builtins(host) THEN Plain(Builtins(host)[n])
     ELSE Reused(n)]

\* rewriteUpdateStack: non-secret values and fixed secrets come from .env,
\* regenerable ones are generated, built-ins are resolved again and every other
\* line of .env is carried over; argon2id cannot be regenerated.
UpdateStack(host) ==
  LET app == App
      fresh == Regenerated(app)
      kept == Names(app) \ fresh
      values == UpdateInput(app, host)
      keys == {p.key : p \in Profiles(app)}
  IN  /\ installed
      /\ rounds < MaxRounds
      /\ NoDuplicates(app)
      /\ kept \subseteq DOMAIN env
      /\ \A n \in fresh : Decl(app, n).enc \in PlainEncodings
      /\ Names(app) \cap DOMAIN Builtins(host) = {}
      /\ RenderOK(app, values)
      /\ keys \subseteq DOMAIN limits
      /\ VerifyDocument(app, app.doc)
      /\ NonSecretArtifactsOK(app, values, Texts(values, SecretNames(app) \cup SensitiveNames(app)))
      /\ WriteStack(app, values, Restrict(limits, keys))
      /\ rounds' = rounds + 1
      /\ setBy' = Restrict(setBy, keys)
      /\ supplied' = Restrict(supplied, DOMAIN supplied \ SecretNames(app))
      /\ UNCHANGED <<cat, budget>>

\* The secrets a reconfigure looks for in the compose file it keeps.
StackSecretTexts(app) ==
  Texts(env, (SecretNames(app) \cup SensitiveNames(app)) \cap DOMAIN env) \ {Word("")}

\* rewriteReconfigureStack: the compose file is checked again, against the
\* catalog now in force, and only the service's three lines change.
ReconfigureStack(o) ==
  LET app == App
      asked == {d \in {"mem", "cpus", "pids"} : o[d] # << >>}
  IN  /\ installed
      /\ asked # {}
      /\ IndexResourceProfilesOK(app)
      /\ \E p \in Adjustable(app, o) :
           /\ LimitOverrideOK(p, o)
           /\ p.key \in DOMAIN limits
           /\ limits' = [limits EXCEPT ![p.key] = WithOverride(@, o)]
           /\ setBy' = [setBy EXCEPT ![p.key] = [d \in DOMAIN @ |-> IF d \in asked THEN cat ELSE @[d]]]
      /\ VerifyDocument(app, doc)
      /\ inlined \cap StackSecretTexts(app) = {}
      /\ verifiedBy' = cat
      /\ budget' = NoBudget
      /\ UNCHANGED <<cat, installed, env, doc, inlined, shown, renderedBy, rounds, supplied>>

\* A catalog update (CatalogStore) puts a later version in force.
AdvanceCatalog ==
  /\ \E r \in Releases : r[1] = cat /\ cat' = r[2]
  /\ UNCHANGED <<installed, env, limits, doc, inlined, shown, renderedBy, verifiedBy, rounds, supplied, setBy, budget>>

Next ==
  \/ \E req \in Requests, host \in Hosts : Install(req, host)
  \/ \E host \in Hosts : UpdateStack(host)
  \/ \E o \in Reconfigures : ReconfigureStack(o)
  \/ AdvanceCatalog

Spec == Init /\ [][Next]_vars

-----------------------------------------------------------------------------
(* Properties *)

\* Every variable has its type.
TypeOK ==
  /\ {cat, renderedBy, verifiedBy} \subseteq DOMAIN Catalogs
  /\ installed \in BOOLEAN
  /\ \A n \in DOMAIN env : env[n].text # Word(Refused) /\ env[n].dollars \in Nat
  /\ DOMAIN setBy = DOMAIN limits
  /\ rounds \in 0..MaxRounds

\* An operation leaves alone what it was not asked to change.  A secret the
\* catalog in force declares fixed keeps its value through every update and
\* reconfigure (resolveUpdatePlaceholder), whatever was in force when it was
\* generated; and one operation changes the limits of one service at most
\* (rewriteResourceEnvLines edits by the key a service name makes, an update
\* keeps the installed sizing).
OthersKept ==
  [][/\ \A n \in DOMAIN env \cap DOMAIN env' \cap SecretNames(App) :
          ~Decl(App, n).regen => env'[n] = env[n]
     /\ installed => Cardinality({p \in Profiles(App) : /\ p.key \in DOMAIN limits \cap DOMAIN limits'
                                                       /\ limits'[p.key] # limits[p.key]}) <= 1]_vars

\* However often .env is rendered from itself, a value that holds `$` has them
\* doubled once, so the container is given what was generated
\* (installEnvEscapeDollar at generation, never again on reuse).
EscapedOnce == \A n \in DOMAIN env : env[n].dollars <= 1

\* What the operator's install request resolved to is what .env holds for every
\* placeholder no update has found to be a secret since, after any updates and
\* reconfigures.
SuppliedSurvives == \A n \in DOMAIN supplied \cap DOMAIN env : env[n].text = Word(supplied[n])

\* What the profile itself gives, whether or not its band is in order.
Declared(p, l, d) ==
  /\ d = "mem" => l.mem \in {p.mem.min, p.mem.rec}
  /\ d = "cpus" => l.cpus \in {p.cpus.min, p.cpus.rec}
  /\ d = "pids" => l.pids = p.pids.default

\* What an override may give: a value of the band, or the CPU limit NaN, which
\* no comparison of validateCPUOverride finds outside it.
Admitted(p, l, d) ==
  /\ d = "mem" => MemoryBytes(l.mem) \in MemoryBytes(p.mem.min)..MemoryBytes(p.mem.max)
  /\ d = "cpus" => l.cpus = NaN \/ l.cpus \in p.cpus.min..p.cpus.max
  /\ d = "pids" => l.pids \in 1..p.pids.max

\* Every limit in .env is one that the catalog in force when it was last set
\* gives the service, or one its band admitted, by an install or a reconfigure.
LimitsInBand ==
  \A k \in DOMAIN limits : \A d \in DOMAIN setBy[k] :
    \E p \in Profiles(Catalogs[setBy[k][d]]) : p.key = k /\ (Declared(p, limits[k], d) \/ Admitted(p, limits[k], d))

MinMemory(k) == CHOOSE m \in {p.mem.min : p \in {q \in Profiles(Catalogs[setBy[k].mem]) : q.key = k}} : TRUE

\* The recommended memory of an app's services is more than uint64 holds.
Overflows(app) == SumFunction(BandMemory(app, FALSE)) >= MemModulus

\* A stack installed without overrides fits the memory the host had to give, or
\* every service of it runs at its minimum (chooseMinimumResourceProfile), or
\* the sum that was compared had wrapped around (sumResourceBand).
FitsBudget ==
  budget # NoBudget => \/ SumFunction([k \in DOMAIN limits |-> MemoryBytes(limits[k].mem)]) <= budget
                       \/ \A k \in DOMAIN limits : limits[k].mem = MinMemory(k)
                       \/ \A k \in DOMAIN limits : Overflows(Catalogs[setBy[k].mem])

\* What .env holds is what was generated, supplied or admitted, once, however
\* many operations under however many catalogs have rewritten it.
EnvSound == EscapedOnce /\ SuppliedSurvives /\ LimitsInBand /\ FitsBudget

\* No secret, generated, reused or marked sensitive, is in the compose file by
\* the catalog it was last checked against, nor in another public file by the
\* one it was rendered from (verifyRenderedNonSecretArtifacts).
PublicFilesHoldNoSecret ==
  LET secretTexts(app) == Texts(env, (SecretNames(app) \cup SensitiveNames(app)) \cap DOMAIN env) \ {Word("")}
  IN  /\ inlined \cap secretTexts(Catalogs[verifiedBy]) = {}
      /\ shown \cap secretTexts(Catalogs[renderedBy]) = {}

Deployed == {s \in DOMAIN doc : installed}

\* A running service holds the capabilities and sysctls the signed catalog
\* declares for it and no others, on a baseline that drops all, unprivileged
\* and without devices; also after a reconfigure under a later catalog.
LeastPrivilege ==
  \A s \in Deployed :
    LET own == {h \in HardeningOf(Catalogs[verifiedBy]) : h.service = s}
        caps == CapabilitySet(doc[s].capAdd)
    IN  /\ caps = UNION {CapabilitySet(h.caps) : h \in own} /\ caps \subseteq AllowedCapabilities
        /\ caps # {} => CapDropContainsAll(doc[s])
        /\ \A h \in own : doc[s].sysctls = h.sysctls
        /\ own = {} => doc[s].sysctls = << >>
        /\ ~doc[s].privileged /\ ~doc[s].devices

\* A service that can reach the Docker socket is one whose image the catalog
\* pins, and every way to it is a network the catalog declares internal.
SocketConfined ==
  \A s \in Deployed : MountsSocket(doc[s]) =>
    LET app == Catalogs[verifiedBy]
    IN  /\ s \in PinnedServices(app)
        /\ doc[s].netmode # "host"
        /\ DOMAIN doc[s].nets # {}
        /\ \A n \in DOMAIN doc[s].nets : \E m \in ToSet(app.networks) : m.name = n /\ m.internal

\* The host's module tree is mounted where the catalog says so, and there a
\* read-only mount of it exists at the same path.
ModulesReadOnly ==
  \A s \in Deployed :
    LET mounts == {doc[s].volumes[i] : i \in MountsModules(doc[s])}
    IN  (mounts # {} \/ s \in ModuleMountServices(Catalogs[verifiedBy])) =>
          /\ s \in ModuleMountServices(Catalogs[verifiedBy])
          /\ \E v \in mounts : IsHostModuleSource(v.target) /\ IsReadOnly(v)

\* A pinned address is the one the catalog declares for that service on that
\* network, and it lies in the network's subnet.
AddressesDeclared ==
  \A s \in Deployed : \A n \in DOMAIN doc[s].nets : doc[s].nets[n] # NoAddr =>
    \E m \in ToSet(Catalogs[verifiedBy].networks) :
      /\ m.name = n /\ m.ipam
      /\ \E a \in ToSet(m.addresses) : a.service = s /\ a.addr = doc[s].nets[n]
      /\ InSubnet(m.subnet, doc[s].nets[n])

\* What is deployed is what the catalog it was last checked against permits:
\* no secret in a public file, and no privilege, socket, module tree or address
\* beyond the declared ones, although a reconfigure keeps the compose file that
\* an earlier catalog rendered (verifyRendered... and its parity checks).
DeployedAsDeclared ==
  PublicFilesHoldNoSecret /\ LeastPrivilege /\ SocketConfined /\ ModulesReadOnly /\ AddressesDeclared
=============================================================================
