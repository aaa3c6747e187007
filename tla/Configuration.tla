--------------------------- MODULE Configuration ---------------------------
(***************************************************************************)
(* How a process comes by its configuration: load_config() of              *)
(* crates/nitr-cli/src/main.rs layers the file, the environment file, the  *)
(* environment and the flags, and nitr-http's Config::validate() refuses   *)
(* what cannot be honoured.  A setting's value is <<v>>, or <<>> when it   *)
(* is unset; a variable of the environment that is set to nothing is <<>>. *)
(***************************************************************************)
EXTENDS Naturals, Sequences, SequencesExt, FiniteSets, TLC

CONSTANTS
  Deployments,     \* what a process finds: its command, file and environment
  Folders,         \* the directories, each the sequence of its names
  Files,           \* the files, likewise
  Links,           \* symbolic links and what they resolve to
  Cwd,             \* the working directory
  BundleRoot,      \* where a bundle was extracted
  Readable,        \* the directories that can be listed
  Writable,        \* the directories a file can be created in
  BuiltWith,       \* the cargo features of the binary
  MaxWorkers,
  MaxConnections,
  Unparseable      \* a value or a file that does not parse

VARIABLES deployment, environ, conf, boot

bootVars == <<deployment, environ, conf, boot>>

IsList(v) == v \in Seq(ToSet(v))
Missing == <<"missing">>
ASSUME FilesAreInFolders ==
  /\ Cwd \in Folders /\ Missing \notin Folders \cup Files /\ IsList(BundleRoot)
  /\ \A f \in Folders \cup Files \cup DOMAIN Links : IsList(f) /\ (f # <<>> => Front(f) \in Folders)
  /\ \A l \in DOMAIN Links : Links[l] \in Folders \cup Files

-----------------------------------------------------------------------------
(* Paths of the file system *)

Here(steps) == [abs |-> FALSE, steps |-> steps]
Exists(at) == at \in Folders \cup Files

\* Path::canonicalize(): the empty path names nothing.
Walk(at, name) ==
  LET next == Append(at, name) IN
  IF at = Missing THEN Missing
  ELSE IF name = "." THEN at
  ELSE IF name = ".." THEN IF at = <<>> THEN at ELSE Front(at)
  ELSE IF next \in DOMAIN Links THEN Links[next]
  ELSE IF Exists(next) THEN next
  ELSE Missing
Reached(from, names) ==
  LET at[i \in 0..Len(names)] == IF i = 0 THEN from ELSE Walk(at[i - 1], names[i])
  IN  at[Len(names)]
StartsAt(p) == IF p.abs THEN <<>> ELSE Cwd
Canonical(p) == IF ~p.abs /\ p.steps = <<>> THEN Missing ELSE Reached(StartsAt(p), p.steps)

Parent(p) == [p EXCEPT !.steps = Front(@)]
IsEmpty(p) == ~p.abs /\ p.steps = <<>>
IsDir(p) == Canonical(p) \in Folders
IsFile(p) == Canonical(p) \in Files
\* Both exist, and the first is the second or below it.
Within(p, q) == Canonical(p) # Missing /\ Canonical(q) # Missing /\ IsPrefix(Canonical(q), Canonical(p))
BothSet(a, b) == a # <<>> /\ b # <<>>

\* package_dir(): `require` is pinned to the handler's directory.
\* Mutant: a bare file name's parent, which names nothing, is taken as it is.
PackageDir_bare(c) == Parent(c.handler[1])
PackageDir(c) == LET dir == Parent(c.handler[1]) IN IF IsEmpty(dir) THEN Here(<<".">>) ELSE dir

\* resolved_file(): also for a file that is not there yet.
ResolvedFile(p) ==
  LET dir == IF IsEmpty(Parent(p)) THEN Here(<<".">>) ELSE Parent(p) IN
  IF Canonical(p) # Missing THEN Canonical(p)
  ELSE IF Canonical(dir) # Missing THEN Append(Canonical(dir), Last(p.steps))
  ELSE p.steps

-----------------------------------------------------------------------------
(* The layers *)

\* What Config::default() says of the settings the model has.
Default ==
  [handler |-> <<Here(<<"scripts", "handler.lua">>)>>, configScript |-> <<>>,
   templating |-> <<>>, static |-> <<>>, uploads |-> <<>>, database |-> <<>>, migrations |-> <<>>,
   tests |-> <<Here(<<"tests">>)>>, testDatabase |-> <<>>, seed |-> <<>>,
   workers |-> <<2>>, streams |-> <<>>, dev |-> <<FALSE>>, envFile |-> <<>>, output |-> <<>>,
   openapi |-> <<FALSE>>, openapiPath |-> << <<"openapi.json">> >>,
   swagger |-> <<FALSE>>, swaggerPath |-> << <<"docs">> >>, options |-> <<{}>>,
   specUrl |-> <<>>, externalSpec |-> <<FALSE>>,
   health |-> <<FALSE>>, healthBind |-> <<>>, liveness |-> << <<"healthz">> >>, readiness |-> << <<"readyz">> >>,
   tls |-> <<FALSE>>, cert |-> <<>>, key |-> <<>>, handshake |-> <<>>, minVersion |-> <<>>, cookies |-> <<"auto">>,
   connections |-> <<2>>, probeConnections |-> <<1>>,
   poolWait |-> <<5>>, exec |-> <<30>>, maxHeader |-> <<16>>, maxUri |-> <<8>>, memory |-> <<8>>,
   rate |-> <<FALSE>>, requests |-> <<1>>, window |-> <<1>>,
   origins |-> <<{}>>, credentials |-> <<FALSE>>, malformed |-> <<{}>>,
   features |-> <<>>, proxy |-> <<FALSE>>, noProxy |-> <<FALSE>>, privateNets |-> <<FALSE>>, hosts |-> <<>>]

\* The settings a NITR_* variable sets, those of them that are parsed, and the
\* names that were given up.
FromEnviron ==
  {"handler", "configScript", "templating", "database", "tests", "testDatabase", "workers", "streams", "dev",
   "cookies", "memory", "exec", "poolWait", "tls", "cert", "key", "minVersion",
   "openapi", "openapiPath", "swagger", "swaggerPath"}
Parsed == {"workers", "streams", "dev", "cookies", "memory", "exec", "poolWait", "tls", "openapi", "swagger"}
Superseded == {"NITR_DATABASE", "NITR_POOL_WAIT_MS", "NITR_COMPRESSION", "NITR_TEMPLATES_DIR"}

\* The types serde and FromStr give the settings that the properties look into.
NamesFile(p) ==
  /\ p = [abs |-> p.abs, steps |-> p.steps] /\ p.abs \in BOOLEAN
  /\ IsList(p.steps) /\ p.steps # <<>> /\ Last(p.steps) \notin {".", ".."}
IsOne(v) == IsList(v) /\ Len(v) = 1
HasType(s, v) ==
  /\ s = "workers" => IsOne(v) /\ v[1] \in Nat
  /\ s \in {"openapiPath", "swaggerPath", "liveness", "readiness"} => IsOne(v) /\ IsList(v[1])
  /\ s = "handler" => IsOne(v) /\ NamesFile(v[1])
  /\ s \in {"database", "testDatabase"} => v = <<>> \/ (IsOne(v) /\ NamesFile(v[1]))
EnvLayers(d) == {d.env} \cup {d.dotenvs[n] : n \in DOMAIN d.dotenvs}
ASSUME DeploymentsAreTyped ==
  \A d \in Deployments :
    /\ d.command \in {"validate", "test"} /\ {d.bundle, d.devFlag} \subseteq BOOLEAN
    /\ \A s \in DOMAIN d.file : HasType(s, d.file[s])
    /\ \A l \in EnvLayers(d) : \A s \in DOMAIN l :
         l[s] = <<>> \/ (s \in Parsed /\ l[s] = <<Unparseable>>) \/ HasType(s, l[s])

\* What the upper layer does not set, the lower one does.
Layer(upper, lower) ==
  [s \in DOMAIN upper \cup DOMAIN lower |-> IF s \in DOMAIN upper THEN upper[s] ELSE lower[s]]
Lookup(env, name) == IF name \in DOMAIN env THEN env[name] ELSE <<>>

Refuse == boot' = "refused" /\ UNCHANGED <<deployment, environ, conf>>
Proceed(step) == boot' = step /\ UNCHANGED deployment

\* Config::rebase(): what a bundle carries is in it; the database, the uploads
\* and the keys stay outside.
Carried == {"handler", "configScript", "templating", "static", "migrations", "tests", "seed"}
Anchored(p) == IF p.abs THEN p ELSE [abs |-> TRUE, steps |-> BundleRoot \o p.steps]
Rebase(c) == [s \in DOMAIN c |-> IF s \in Carried /\ c[s] # <<>> THEN <<Anchored(c[s][1])>> ELSE c[s]]

\* The migrations beside a bundle's file are found there, and it writes no document.
OfBundle(c) ==
  LET r == Rebase(c)
      beside == [abs |-> TRUE, steps |-> BundleRoot \o <<"migrations">>]
  IN  [r EXCEPT !.output = <<>>,
                !.migrations = IF r.database # <<>> /\ @ = <<>> /\ IsDir(beside) THEN <<beside>> ELSE @]

\* from_file() and check_moved_keys(): a file that does not parse, or has a name that
\* moved, is refused.
FromFile == Layer(deployment.file, Default)
ReadConfig ==
  /\ boot = "start"
  /\ IF (deployment.bundle /\ deployment.configFlag) \/ deployment.badFile
     THEN Refuse
     ELSE /\ conf' = IF deployment.bundle THEN OfBundle(FromFile) ELSE FromFile
          /\ Proceed("envfile") /\ UNCHANGED environ

\* load_env_file(): a file that is named must be there, and one that is there must
\* read as one; what it sets is added to the environment.
\* Mutant: what the file says replaces what the environment has.
Loaded_overwriting(env, lines) == Layer(lines, env)
Loaded(env, lines) == Layer(env, lines)

EnvFileNamed == Lookup(environ, "NITR_ENV_FILE") \o conf.envFile
LoadEnvFile ==
  LET name == IF EnvFileNamed = <<>> THEN ".env" ELSE EnvFileNamed[1] IN
  /\ boot = "envfile"
  /\ \/ /\ name \in DOMAIN deployment.dotenvs /\ Unparseable \notin DOMAIN deployment.dotenvs[name]
        /\ environ' = Loaded(environ, deployment.dotenvs[name])
        /\ Proceed("environ") /\ UNCHANGED conf
     \/ /\ name \in DOMAIN deployment.dotenvs => Unparseable \in DOMAIN deployment.dotenvs[name]
        /\ IF EnvFileNamed # <<>> \/ name \in DOMAIN deployment.dotenvs
           THEN Refuse
           ELSE Proceed("environ") /\ UNCHANGED <<conf, environ>>

\* apply_env()
ApplyEnv ==
  LET set == {s \in DOMAIN environ : environ[s] # <<>>} IN
  /\ boot = "environ"
  /\ IF set \cap Superseded # {} \/ \E s \in set \cap Parsed : environ[s] = <<Unparseable>>
     THEN Refuse
     ELSE /\ conf' = [s \in DOMAIN conf |-> IF s \in set \cap FromEnviron THEN environ[s] ELSE conf[s]]
          /\ Proceed("flags") /\ UNCHANGED environ

\* `--dev`, and bundle::seal() after every layer.
ApplyFlags ==
  /\ boot = "flags"
  /\ conf' = [conf EXCEPT !.dev = <<~deployment.bundle /\ (deployment.devFlag \/ @[1])>>]
  /\ Proceed(deployment.command) /\ UNCHANGED environ

-----------------------------------------------------------------------------
(* Config::validate() *)

AtLeastOne(n) == IF n = 0 THEN 1 ELSE n
HeaderBuffer(c) == IF c.maxHeader[1] > 8 THEN c.maxHeader[1] ELSE 8
Exceeds(a, b) == a > b /\ a # 0 /\ b # 0

\* effective_max_streams()
MaxStreams(c) == IF c.streams # <<>> THEN c.streams[1] ELSE AtLeastOne(AtLeastOne(c.workers[1]) - 1)

\* builtins(): <<>> is an error.
Builtins(c) ==
  IF c.features = <<>> THEN <<{"minimal"}>>
  ELSE IF \/ "unknown" \in c.features[1]
          \/ "template" \in c.features[1] /\ c.templating = <<>>
          \/ "db" \in c.features[1] /\ c.database = <<>> THEN <<>>
  ELSE c.features

\* Entries of [cors] origins, [headers], [fetch] private_hosts and [compression]
\* algorithms that are not what they should be are named in `malformed`.
ValuesHold(c) ==
  /\ ~("*" \in c.origins[1] /\ c.credentials[1])
  /\ c.malformed[1] = {}
  /\ c.workers[1] <= MaxWorkers /\ \A s \in {"connections", "probeConnections"} : c[s][1] <= MaxConnections
  /\ c.maxUri[1] < HeaderBuffer(c)
  /\ c.rate[1] => c.requests[1] > 0 /\ c.window[1] > 0
  /\ c.memory[1] > 0
  /\ c.streams # <<>> => c.streams[1] \in 1..AtLeastOne(c.workers[1])
  /\ ~Exceeds(c.poolWait[1], c.exec[1])

\* A proxy resolves names itself, so the hosts must be listed or trusted.
ProxyHolds(c) ==
  \/ Builtins(c) = <<>> \/ "fetch" \notin Builtins(c)[1]
  \/ ~c.proxy[1] /\ (c.noProxy[1] \/ Lookup(environ, "HTTP_PROXY") = <<>>)
  \/ c.privateNets[1] \/ c.hosts # <<>>

\* validate_tls()
TlsHolds(c) ==
  c.tls[1] => /\ "tls" \in BuiltWith
              /\ \A f \in {c.cert, c.key} : f # <<>> /\ IsFile(f[1])
              /\ c.handshake # <<0>>
              /\ c.minVersion \in {<<>>, <<"1.2">>, <<"1.3">>}

\* A URL path is the sequence of what its slashes separate; <<>> has no slash in
\* front, and a trailing slash is a last segment "".
Claimable(url) == url # <<>> /\ Last(url) # ""
ProbesOnMain(c) == c.health[1] /\ c.healthBind = <<>>

\* validate_docs(): the paths the document and its page claim.
\* Mutant: equal paths are refused, not one below the other.
Overlap_equal(a, b) == a = b
Overlap(a, b) == IsPrefix(a, b) \/ IsPrefix(b, a)
PathsHold(c) ==
  /\ Claimable(c.openapiPath[1]) /\ Claimable(c.swaggerPath[1])
  /\ c.openapi[1] /\ c.swagger[1] => ~Overlap(c.openapiPath[1], c.swaggerPath[1])
  /\ ProbesOnMain(c) =>
       /\ c.openapi[1] => c.openapiPath[1] \notin {c.liveness[1], c.readiness[1]}
       /\ c.swagger[1] => c.swaggerPath[1] \notin {c.liveness[1], c.readiness[1]}

\* Path::starts_with(): by the names, without looking.
Spelt(p, q) == p.abs = q.abs /\ IsPrefix(q.steps, p.steps)
OutputHolds(c) ==
  LET out == c.output[1].place IN
  c.output # <<>> => /\ ~c.output[1].lua
                     /\ c.templating # <<>> => ~Spelt(out, c.templating[1])
                     /\ IsEmpty(Parent(out)) \/ IsDir(Parent(out))

\* Options of the page that it owns, or that have a setting of their own, are refused.
DocsHold(c) ==
  /\ c.openapi[1] => "openapi" \in BuiltWith
  /\ c.swagger[1] => /\ "swagger" \in BuiltWith
                     /\ c.openapi[1] \/ c.specUrl # <<>>
                     /\ c.specUrl = <<"elsewhere">> => c.externalSpec[1]
                     /\ c.options[1] \cap {"reserved", "typed", "unknownExpansion"} = {}
  /\ PathsHold(c)
  /\ OutputHolds(c)

ProbesHold(c) == c.health[1] => c.liveness[1] # <<>> /\ c.readiness[1] # <<>> /\ c.liveness # c.readiness

\* validate_paths(): what is named is there and can be used.
PlacesExist(c) ==
  /\ IsFile(c.handler[1]) /\ (c.configScript # <<>> => IsFile(c.configScript[1]))
  /\ \A s \in {"templating", "static", "uploads"} : c[s] # <<>> => IsDir(c[s][1])
  /\ c.static # <<>> => Canonical(c.static[1]) \in Readable
  /\ c.uploads # <<>> => Canonical(c.uploads[1]) \in Writable

PlacesHold(c) ==
  /\ PlacesExist(c)
  /\ c.uploads # <<>> => ~Within(c.uploads[1], PackageDir(c))
  /\ BothSet(c.uploads, c.templating) => ~Within(c.uploads[1], c.templating[1])
  /\ c.static # <<>> => ~Within(PackageDir(c), c.static[1])
  /\ BothSet(c.static, c.templating) => ~Within(c.templating[1], c.static[1])
  /\ c.database # <<>> => IsEmpty(Parent(c.database[1])) \/ IsDir(Parent(c.database[1]))

\* validate_testing(): what `nitr test` checks first.
TestsHold(c) ==
  /\ BothSet(c.database, c.testDatabase) => ResolvedFile(c.database[1]) # ResolvedFile(c.testDatabase[1])
  /\ c.uploads # <<>> => ~Within(c.uploads[1], c.tests[1])

Valid(c) == ValuesHold(c) /\ ProxyHolds(c) /\ TlsHolds(c) /\ DocsHold(c) /\ ProbesHold(c) /\ PlacesHold(c)

\* nitr test's run(): a missing static directory is skipped, and a database that
\* is configured gives way to the tests' own, which is removed first.
Scratch == [abs |-> TRUE, steps |-> <<"tmp", "test.db">>]
ValidateTesting ==
  LET c == IF conf.static # <<>> /\ ~IsDir(conf.static[1]) THEN [conf EXCEPT !.static = <<>>] ELSE conf
      own == IF c.testDatabase # <<>> THEN c.testDatabase ELSE <<Scratch>>
  IN  /\ boot = "test"
      /\ IF TestsHold(c) /\ (c.database = <<>> => c.seed = <<>>)
         THEN /\ conf' = [c EXCEPT !.database = IF @ = <<>> THEN @ ELSE own]
              /\ Proceed("validate") /\ UNCHANGED environ
         ELSE Refuse

\* ServerBuilder::build(): validation, then the builtins.
Validate ==
  /\ boot = "validate"
  /\ IF Valid(conf) /\ Builtins(conf) # <<>> THEN Proceed("serving") /\ UNCHANGED <<environ, conf>> ELSE Refuse

BootInit ==
  /\ deployment \in Deployments
  /\ environ = deployment.env /\ conf = Default /\ boot = "start"

BootNext == ReadConfig \/ LoadEnvFile \/ ApplyEnv \/ ApplyFlags \/ ValidateTesting \/ Validate

BootSpec == BootInit /\ [][BootNext]_bootVars

-----------------------------------------------------------------------------
(* Who answers a GET: Svc::call(), then Docs::serve(), then the application *)

AssetOf(c) == c.swaggerPath[1] \o <<"assets", "v", "ui.js">>
AnsweredBy(c, url) ==
  IF ProbesOnMain(c) /\ url = c.liveness[1] THEN "liveness"
  ELSE IF ProbesOnMain(c) /\ url = c.readiness[1] THEN "readiness"
  ELSE IF c.openapi[1] /\ url = c.openapiPath[1] THEN "document"
  ELSE IF c.swagger[1] /\ url = c.swaggerPath[1] THEN "page"
  ELSE IF c.swagger[1] /\ url = AssetOf(c) THEN "asset"
  ELSE "application"

-----------------------------------------------------------------------------
(* Properties *)

\* What the first layer that speaks says of a setting: the environment, where a
\* variable that is there hides the file's even when it is empty, the environment
\* file, the configuration file, the default.
EnvFileSaid ==
  LET named == Lookup(deployment.env, "NITR_ENV_FILE") \o Lookup(deployment.file, "envFile")
      name == IF named = <<>> THEN ".env" ELSE named[1]
  IN  IF name \in DOMAIN deployment.dotenvs THEN deployment.dotenvs[name] ELSE [x \in {} |-> <<>>]
Variable(s) == Lookup(IF s \in DOMAIN deployment.env THEN deployment.env ELSE EnvFileSaid, s)
FileSaid(s) ==
  IF deployment.bundle /\ s \in Carried /\ FromFile[s] # <<>> THEN <<Anchored(FromFile[s][1])>> ELSE FromFile[s]
Said(s) == IF s \in FromEnviron /\ Variable(s) # <<>> THEN Variable(s) ELSE FileSaid(s)

LayersHold ==
  /\ \A s \in (FromEnviron \cup Carried) \ {"dev", "database", "static", "migrations"} : conf[s] = Said(s)
  /\ conf.dev[1] = (~deployment.bundle /\ (deployment.devFlag \/ Said("dev")[1]))

\* The directory a path's last name is looked up in, and the file it opens.
Enters(p) == Reached(StartsAt(p), Front(p.steps))
Opens(p) == LET f == Append(Enters(p), Last(p.steps)) IN IF f \in DOMAIN Links THEN Links[f] ELSE f

\* ScratchDb::new() puts the process id into the name, and no layer names that file.
ASSUME ScratchIsFresh ==
  \A d \in Deployments : \A l \in {d.file} \cup EnvLayers(d) :
    "database" \in DOMAIN l /\ l["database"] # <<>> => Opens(l["database"][1]) # Opens(Scratch)

\* The upload directory is not the handler's directory or the templates', nor below
\* one of them; the static directory is neither and encloses neither; and the tests'
\* database is not the live one.  All three by where the paths lead through links.
\* An upload directory that encloses the handler's is not refused.
PlacesApart ==
  /\ conf.uploads # <<>> =>
       /\ ~IsPrefix(Enters(conf.handler[1]), Canonical(conf.uploads[1]))
       /\ conf.templating # <<>> => ~IsPrefix(Canonical(conf.templating[1]), Canonical(conf.uploads[1]))
  /\ conf.static # <<>> =>
       /\ ~IsPrefix(Canonical(conf.static[1]), Enters(conf.handler[1]))
       /\ conf.templating # <<>> => ~IsPrefix(Canonical(conf.static[1]), Canonical(conf.templating[1]))
  /\ deployment.command = "test" /\ conf.database # <<>> => Opens(conf.database[1]) # Opens(Said("database")[1])

\* Probes, document and page answer at their own paths, and the page finds its
\* document and its assets there; an asset's path is another's only when a probe was
\* put at that very path.
EndpointsAnswer ==
  /\ ProbesOnMain(conf) => /\ AnsweredBy(conf, conf.liveness[1]) = "liveness"
                           /\ AnsweredBy(conf, conf.readiness[1]) = "readiness"
  /\ conf.openapi[1] => AnsweredBy(conf, conf.openapiPath[1]) = "document"
  /\ conf.swagger[1] => /\ AnsweredBy(conf, conf.swaggerPath[1]) = "page"
                        /\ conf.specUrl = <<>> => AnsweredBy(conf, conf.openapiPath[1]) = "document"
                        /\ \/ AnsweredBy(conf, AssetOf(conf)) = "asset"
                           \/ ProbesOnMain(conf) /\ AssetOf(conf) \in {conf.liveness[1], conf.readiness[1]}

StreamsFit == MaxStreams(conf) \in 1..AtLeastOne(conf.workers[1])

\* A configuration that is served is the one its layers spell, keeps its directories
\* as PlacesApart says, and has every endpoint and stream it promises, whichever
\* layer each of its settings came from (load_config, Config::validate).
DeploymentsHold == boot = "serving" => LayersHold /\ PlacesApart /\ EndpointsAnswer /\ StreamsFit
=============================================================================
