------------------------------ MODULE MCShared ------------------------------
(***************************************************************************)
(* What surrounds a handler, checked in one run: the cache, the rate       *)
(* limiter, outbound calls, the start of a bundled executable, the         *)
(* configuration of a process, a test run and a session that reruns on     *)
(* saves.  They share nothing with each other, so a behaviour moves one of *)
(* them and leaves the others where they start.                            *)
(***************************************************************************)
EXTENDS Cache, RateLimiter, Fetch, Bundle, Configuration, TestRunner, Watch, TLC

-----------------------------------------------------------------------------
(* The file system and the deployments a process may be started in *)

Rooted(steps) == [abs |-> TRUE, steps |-> steps]
MCFolders ==
  {<<>>, <<"srv">>, <<"srv", "app">>, <<"srv", "app", "up">>, <<"srv", "pub">>,
   <<"box">>, <<"box", "app">>, <<"box", "pub">>, <<"tmp">>, <<"locked">>}
MCFiles ==
  {<<"srv", "main.lua">>, <<"srv", "app", "main.lua">>, <<"box", "main.lua">>, <<"box", "app", "main.lua">>,
   <<"srv", "live.db">>, <<"srv", "key">>}
MCLinks == <<"srv", "link">> :> <<"srv", "app", "up">> @@ <<"srv", "old.db">> :> <<"srv", "live.db">>
MCOpenFolders == MCFolders \ {<<"locked">>}
MCCwd == <<"srv">>
MCBundleRoot == <<"box">>

Nothing == [x \in {} |-> <<>>]
Plain ==
  [command |-> "validate", bundle |-> FALSE, configFlag |-> FALSE, badFile |-> FALSE, devFlag |-> FALSE,
   file |-> Nothing, env |-> Nothing, dotenvs |-> Nothing]
MainLua == Here(<<"app", "main.lua">>)
Optional(places) == {<<>>} \cup {<<p>> : p \in places}
Vars(s, values) == {Nothing} \cup {(s :> v) : v \in values}

\* Where things are.
OfPlaces ==
  {[Plain EXCEPT !.bundle = b, !.file = [handler |-> <<h>>, uploads |-> u, static |-> s, templating |-> t]] :
     b \in BOOLEAN, h \in {Here(<<"main.lua">>), MainLua, Rooted(<<"srv", "app", "main.lua">>)},
     u \in Optional({Here(<<"link">>), Here(<<"pub">>), Here(<<"app", "..", "pub">>), Here(<<".">>),
                     Here(<<"gone">>), Rooted(<<"locked">>)}),
     s \in Optional({Here(<<"pub">>), Here(<<"app">>), Rooted(<<>>), Rooted(<<"locked">>)}),
     t \in Optional({Here(<<"app">>), Here(<<"pub">>)})}

\* Which paths are claimed.
Urls == {<<"docs">>, <<"docs", "">>, <<"docs", "assets", "v", "ui.js">>, <<"healthz">>, <<>>}
OfPaths ==
  {[Plain EXCEPT !.file =
      [handler |-> <<MainLua>>, openapi |-> <<o>>, swagger |-> <<w>>, openapiPath |-> <<op>>, swaggerPath |-> <<wp>>,
       specUrl |-> su, health |-> <<h>>, healthBind |-> hb, readiness |-> <<r>>]] :
     o \in BOOLEAN, w \in BOOLEAN, op \in Urls, wp \in Urls, su \in {<<>>, <<"here">>, <<"elsewhere">>},
     h \in BOOLEAN, hb \in {<<>>, <<"other">>},
     r \in {<<"readyz">>, <<"docs">>, <<"docs", "assets", "v", "ui.js">>, <<"healthz">>}}

\* Who says what.
Numbers == {<<>>, <<0>>, <<1>>, <<3>>, <<9>>, <<Unparseable>>}
OfLayers ==
  {[Plain EXCEPT !.file = [handler |-> <<MainLua>>, workers |-> <<2>>] @@ f, !.env = e @@ n, !.dotenvs = d] :
     f \in Vars("envFile", {<<"named">>}) \cup Vars("streams", {<<0>>, <<1>>, <<3>>}),
     e \in Vars("workers", Numbers),
     n \in Vars("NITR_ENV_FILE", {<<>>, <<"other">>}) \cup Vars("NITR_DATABASE", {<<>>, <<"x">>}),
     d \in {Nothing} \cup {(name :> l) : name \in {".env", "named", "other"},
                                         l \in Vars("workers", Numbers) \cup {Unparseable :> <<>>}}}
OfFlags ==
  {[Plain EXCEPT !.bundle = b, !.configFlag = c, !.badFile = k, !.devFlag = v,
                 !.file = [handler |-> <<MainLua>>, dev |-> <<f>>], !.env = e] :
     b \in BOOLEAN, c \in BOOLEAN, k \in BOOLEAN, v \in BOOLEAN, f \in BOOLEAN,
     e \in Vars("dev", {<<TRUE>>, <<FALSE>>})
           \cup Vars("handler", {<<Here(<<"main.lua">>)>>, <<Rooted(<<"srv", "main.lua">>)>>})}

\* What tests use.
Databases ==
  {Here(<<"live.db">>), Here(<<"app", "..", "live.db">>), Here(<<"old.db">>),
   Rooted(<<"srv", "new.db">>), Here(<<"new.db">>), Here(<<"gone", "x.db">>)}
OfTests ==
  {[Plain EXCEPT !.command = "test",
                 !.file = [handler |-> <<MainLua>>, static |-> <<Here(<<"gone">>)>>, tests |-> <<Here(<<"pub">>)>>,
                           database |-> d, testDatabase |-> t, seed |-> s, uploads |-> u]] :
     d \in Optional(Databases), t \in Optional(Databases),
     s \in Optional({Here(<<"seed.sql">>)}), u \in Optional({Here(<<"pub">>)})}

\* Single settings, honoured and refused.
Keyed == [tls |-> <<TRUE>>, cert |-> <<Here(<<"key">>)>>, key |-> <<Here(<<"key">>)>>]
Odd ==
  {[origins |-> <<{"*"}>>, credentials |-> <<TRUE>>], [malformed |-> <<{"headers"}>>], [connections |-> <<9>>],
   [maxUri |-> <<16>>], [maxUri |-> <<8>>, maxHeader |-> <<4>>], [rate |-> <<TRUE>>, requests |-> <<0>>],
   [memory |-> <<0>>], [poolWait |-> <<31>>], [poolWait |-> <<31>>, exec |-> <<0>>],
   [features |-> <<{"unknown"}>>], [features |-> <<{"template"}>>], [features |-> <<{"db"}>>],
   [features |-> <<{"fetch"}>>], [features |-> <<{"fetch"}>>, proxy |-> <<TRUE>>],
   [features |-> <<{"fetch"}>>, proxy |-> <<TRUE>>, hosts |-> <<"listed">>],
   [tls |-> <<TRUE>>], Keyed, Keyed @@ [handshake |-> <<0>>], Keyed @@ [minVersion |-> <<"1.0">>],
   [openapi |-> <<TRUE>>, swagger |-> <<TRUE>>, options |-> <<{"typed"}>>],
   [output |-> <<[lua |-> FALSE, place |-> Here(<<"api.json">>)]>>],
   [output |-> <<[lua |-> TRUE, place |-> Here(<<"api.lua">>)]>>]}
OfValues ==
  {[Plain EXCEPT !.file = [handler |-> <<MainLua>>] @@ o, !.env = e] :
     o \in Odd, e \in Vars("HTTP_PROXY", {<<>>, <<"proxy">>})}

MCDeployments == OfPlaces \cup OfPaths \cup OfLayers \cup OfFlags \cup OfTests \cup OfValues

MCArchiveOf == [good |-> <<Manifest, "app.lua">>, odd |-> <<Manifest, Outside>>]

-----------------------------------------------------------------------------
(* Test files, and where a session watches *)

Test(groupNames, kind) == [groups |-> groupNames, kind |-> kind, matches |-> TRUE, broken |-> FALSE]
Broken(test) == [test EXCEPT !.broken = TRUE]
MCTestFiles ==
  <<<<Test(<<"root", "g">>, "it"), Test(<<"root", "g">>, "it"), Test(<<"root", "g">>, "skip")>>,
    <<Broken(Test(<<"root", "g">>, "it")), Test(<<"root">>, "only"), Test(<<"root">>, "it")>>,
    <<>>>>

MCExisting == {<<"srv">>, <<"srv", "tpl">>, <<"etc">>, <<"tests">>, <<"out">>}
MCSavable ==
  {<<"srv", "app.lua">>, <<"srv", "tpl", "page">>, <<"srv", "live.db">>, <<"etc", "conf.lua">>,
   <<"tests", "a_test.lua">>}
MCSetups ==
  [handler : {<<"srv">>}, config : {NoPath, <<"srv">>, <<"etc">>}, templates : {NoPath, <<"srv", "tpl">>, <<"tpl">>},
   tests : {<<"tests">>}, database : {<<"srv", "live.db">>, <<"srv", "tpl", "live.db">>},
   output : {NoPath, <<"srv", "junit">>, <<"srv", "report.lua">>, <<"srv", "tpl", "junit">>,
             <<"srv", "tpl", "new", "junit">>}]

-----------------------------------------------------------------------------
VARIABLE part    \* the component that moves

sharedVars ==
  <<part, cacheVars, limiterVars, fetchVars, bundleVars, bootVars, testVars, watchVars>>

SharedInit ==
  /\ part \in {"cache", "limiter", "fetch", "bundle", "boot", "tests", "watch"}
  /\ CacheInit
  /\ LimiterInit
  /\ FetchInit
  /\ BundleInit
  /\ TestsInit /\ (part = "tests" \/ run.mode = "all")
  /\ WatchInit /\ (part = "watch" \/ setup = CHOOSE s \in Setups : TRUE)
  /\ IF part = "boot" THEN BootInit ELSE boot = "off" /\ deployment = "none" /\ environ = "none" /\ conf = "none"

SharedNext ==
  /\ UNCHANGED part
  /\ \/ part = "cache" /\ CacheNext
        /\ UNCHANGED <<limiterVars, fetchVars, bundleVars, bootVars, testVars, watchVars>>
     \/ part = "limiter" /\ LimiterNext
        /\ UNCHANGED <<cacheVars, fetchVars, bundleVars, bootVars, testVars, watchVars>>
     \/ part = "fetch" /\ FetchNext
        /\ UNCHANGED <<cacheVars, limiterVars, bundleVars, bootVars, testVars, watchVars>>
     \/ part = "bundle" /\ BundleNext
        /\ UNCHANGED <<cacheVars, limiterVars, fetchVars, bootVars, testVars, watchVars>>
     \/ part = "boot" /\ BootNext
        /\ UNCHANGED <<cacheVars, limiterVars, fetchVars, bundleVars, testVars, watchVars>>
     \/ part = "tests" /\ TestsNext
        /\ UNCHANGED <<cacheVars, limiterVars, fetchVars, bundleVars, bootVars, watchVars>>
     \/ part = "watch" /\ WatchNext
        /\ UNCHANGED <<cacheVars, limiterVars, fetchVars, bundleVars, bootVars, testVars>>

SharedSpec == SharedInit /\ [][SharedNext]_sharedVars

\* Keys and callers are interchangeable.
Symmetry == Permutations(Callers) \cup Permutations(Keys)
=============================================================================
