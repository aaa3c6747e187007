------------------------------- MODULE Routes -------------------------------
(***************************************************************************)
(* The nitr.app() object and its router: crates/nitr-http/src/app/ and the *)
(* routing half of handle_inner().                                         *)
(*                                                                         *)
(* A handler script registers routes, groups and middleware by calls whose *)
(* order matters; load() compiles what they collected, once per Lua state. *)
(* The routing of the pool's first state answers for all of them until one *)
(* is rebuilt from a script edited on disk.  Functions are the number of   *)
(* the call that gave them, a path is the sequence of its segments, and "/"*)
(* is the empty one.                                                       *)
(***************************************************************************)
EXTENDS Naturals, Sequences, FiniteSets, SequencesExt, TLC

CONSTANTS
  Endpoints,     \* what a script may pass to app:get and the others
  GroupPrefixes,      \* what it may pass to group
  Mounts,        \* what it may pass to app:static
  BaseMounts,    \* the mounts of [static], in order
  DocPaths,      \* env.reserved: where the document is served
  WebRequests,   \* the requests clients send; html: their Accept header takes a page
  Numerals,      \* how the numbers from 2 on are written
  MaxCalls,      \* bound: calls of a script
  MaxLater,      \* bound: calls of a script edited later
  MaxEdits,      \* bound: edits of the script while the pool serves
  MaxAsks        \* bound: requests

ASSUME RoutesConstants == MaxCalls \in Nat /\ MaxLater \in 0..MaxCalls /\ MaxEdits \in Nat /\ MaxAsks \in Nat
RouteSegments == [kind : {"static", "param", "rest"}, name : STRING]
ASSUME ScriptArguments ==
  /\ \A e \in Endpoints : e.path \in Seq(RouteSegments) /\ e.doc.id \in Seq(STRING)
  /\ \A prefix \in GroupPrefixes : prefix \in Seq(RouteSegments)
  /\ \A req \in WebRequests : {"method", "path", "html"} \subseteq DOMAIN req
ASSUME NumeralsDiffer ==
  /\ DOMAIN Numerals = 2..MaxCalls + 2
  /\ \A m, n \in DOMAIN Numerals : m # n => Numerals[m] # Numerals[n]

VARIABLES
  appDef,       \* AppDef, while the script runs
  scriptCalls,     \* how many calls it has made
  pooled,    \* Routing: the Lua-free half kept with the pool
  appState,     \* AppState of the pool's state
  routing,     \* the request between its lookup and its checkout, or Nobody
  routed,   \* what requests were answered with
  scriptEdits

routesVars == <<appDef, scriptCalls, pooled, appState, routing, routed, scriptEdits>>

-----------------------------------------------------------------------------
(* Paths *)

Plain(name) == [kind |-> "static", name |-> name]
Param(name) == [kind |-> "param", name |-> name]
CatchAll(name) == [kind |-> "rest", name |-> name]

\* trim_end_matches('/'): a trailing slash is an empty last segment.
TrimEnd(path) ==
  SubSeq(path, 1, CHOOSE n \in 0..Len(path) : /\ \A i \in n + 1..Len(path) : path[i] = Plain("")
                                              /\ n > 0 => path[n] # Plain(""))

\* to_matchit: a catch-all only last, and no parameter without a name.
ValidPath(path) ==
  \A i \in DOMAIN path : /\ path[i].kind # "static" => path[i].name # ""
                         /\ path[i].kind = "rest" => i = Len(path)

\* to_openapi_path: a name is used once.
NamesOnce(path) ==
  \A i, j \in DOMAIN path : i # j /\ path[i].kind # "static" /\ path[j].kind # "static" => path[i].name # path[j].name

\* Under the same shape of earlier segments, the router keeps apart what is
\* literal and one thing that is not.
SameShape(s, t) == s.kind = t.kind /\ (s.kind = "static" => s.name = t.name)
Clash(p, q) ==
  \/ Len(p) = Len(q) /\ \A i \in DOMAIN p : SameShape(p[i], q[i])
  \/ \E n \in DOMAIN p \cap DOMAIN q : /\ \A i \in 1..n - 1 : SameShape(p[i], q[i])
                                       /\ {p[n].kind, q[n].kind} = {"param", "rest"}

\* What a request's path (a sequence of names) matches, and in which order
\* the router tries it.
Fits(path, names) ==
  /\ IF \E i \in DOMAIN path : path[i].kind = "rest" THEN Len(names) >= Len(path) ELSE Len(names) = Len(path)
  /\ \A i \in DOMAIN path : IF path[i].kind = "static" THEN names[i] = path[i].name ELSE names[i] # ""
Rank(segment) == CASE segment.kind = "static" -> 0 [] segment.kind = "param" -> 1 [] OTHER -> 2
TriedBefore(p, q) ==
  \E n \in DOMAIN p \cap DOMAIN q : /\ \A i \in 1..n - 1 : Rank(p[i]) = Rank(q[i])
                                    /\ Rank(p[n]) < Rank(q[n])

-----------------------------------------------------------------------------
(* Registration *)

NoGroup == 0
EmptyApp == [middleware |-> <<>>, groups |-> <<>>, routes |-> <<>>, statics |-> <<>>, error |-> "none", invalid |-> "none", doc |-> FALSE]
Nobody == [req |-> "none"]
NotLoaded == [chains |-> <<>>, statics |-> <<>>, loaded |-> FALSE]

RoutesInit ==
  /\ appDef = EmptyApp /\ scriptCalls = 0 /\ scriptEdits = 0
  /\ pooled = NotLoaded /\ appState = NotLoaded
  /\ routing = Nobody /\ routed = {}

GroupOf(g) == IF g = NoGroup THEN [prefix |-> <<>>, middleware |-> <<>>] ELSE appDef.groups[g]

\* Mutant: a route leaves its group open.
Sealed_byGroups(groups, g, by) == IF g = NoGroup \/ by = "route" THEN groups ELSE [groups EXCEPT ![g].sealed = TRUE]

\* A group whose middleware was taken may get no more.
Sealed(groups, g, by) == IF g = NoGroup THEN groups ELSE [groups EXCEPT ![g].sealed = TRUE]

CallApp(newDef) == scriptCalls < MaxCalls /\ scriptCalls' = scriptCalls + 1 /\ appDef' = newDef
PoolUnchanged == UNCHANGED <<pooled, appState, routing, routed, scriptEdits>>

\* register_route, through the app or a group.  The group is sealed first,
\* so a registration that is refused (and caught by the script) seals it too.
RegisterRoute(g, e) ==
  LET groups == Sealed(appDef.groups, g, "route")
      route == [method |-> e.method, path |-> GroupOf(g).prefix \o e.path,
                fns |-> GroupOf(g).middleware \o (IF e.own THEN << <<"own", scriptCalls>> >> ELSE <<>>) \o << <<"handler", scriptCalls>> >>,
                input |-> e.input, doc |-> e.doc, limited |-> e.limited, error |-> e.error, invalid |-> e.invalid, group |-> g,
                call |-> scriptCalls, own |-> e.own]
  IN /\ CallApp([appDef EXCEPT !.groups = groups, !.routes = IF e.valid THEN Append(@, route) ELSE @])
     /\ PoolUnchanged

\* group:use
UseInGroup(g) ==
  /\ ~appDef.groups[g].sealed
  /\ CallApp([appDef EXCEPT !.groups[g].middleware = Append(@, <<"group", scriptCalls>>), !.groups[g].given = Append(@, <<"group", scriptCalls>>)])
  /\ PoolUnchanged

\* app:use
Use ==
  /\ appDef.routes = <<>>
  /\ CallApp([appDef EXCEPT !.middleware = Append(@, <<"app", scriptCalls>>)])
  /\ PoolUnchanged

\* group(prefix): on the app, or nested.  The child starts with its parent's
\* middleware; `parent` and `given` only record what the script wrote.
MakeGroup(g, prefix) ==
  LET group == [prefix |-> GroupOf(g).prefix \o TrimEnd(prefix), middleware |-> GroupOf(g).middleware, sealed |-> FALSE,
                parent |-> g, given |-> <<>>]
  IN /\ CallApp([appDef EXCEPT !.groups = Append(Sealed(@, g, "group"), group)])
     /\ PoolUnchanged

OnError == CallApp([appDef EXCEPT !.error = "app"]) /\ PoolUnchanged
OnInvalid == CallApp([appDef EXCEPT !.invalid = "app"]) /\ PoolUnchanged
DocApp == ~appDef.doc /\ CallApp([appDef EXCEPT !.doc = TRUE]) /\ PoolUnchanged
MountStatic(mount) == CallApp([appDef EXCEPT !.statics = Append(@, mount)]) /\ PoolUnchanged

-----------------------------------------------------------------------------
(* Compilation *)

\* Global middleware, the route's own, validation, the handler.
Compose(route) ==
  appDef.middleware \o Front(route.fns) \o (IF route.input THEN << <<"validate", route.call>> >> ELSE <<>>) \o <<Last(route.fns)>>

Chain(route) ==
  [method |-> route.method, path |-> route.path, fns |-> Compose(route), limited |-> route.limited,
   error |-> IF route.error THEN "own" ELSE appDef.error,
   invalid |-> IF route.invalid THEN "own" ELSE appDef.invalid]

\* The words of a path, which make its default operation id: names are taken
\* to be lowercase words already.
WordsOf(path) ==
  LET words[n \in 0..Len(path)] ==
        IF n = 0 THEN <<>> ELSE IF path[n].name = "" THEN words[n - 1] ELSE Append(words[n - 1], path[n].name)
  IN  words[Len(path)]
DefaultId(route) ==
  <<route.method>> \o (IF WordsOf(route.path) = <<>> THEN <<"root">> ELSE WordsOf(route.path))

\* Mutant: the second of its name is numbered, whatever that is taken by.
FreeNumber_two(base, ids) == 2

FreeNumber(base, ids) == CHOOSE n \in 2..Cardinality(ids) + 2 :
  /\ \A id \in ids : id[1] # Append(base, Numerals[n])
  /\ \A k \in 2..n - 1 : \E id \in ids : id[1] = Append(base, Numerals[k])

\* collect(): every visible route claims an operation id; two defaults make
\* room, an explicit one does not.
Claim(acc, route) ==
  LET explicit == route.doc.id # <<>>
      wanted == IF explicit THEN route.doc.id ELSE DefaultId(route)
      taken == {id \in acc.ids : id[1] = wanted}
      given == IF taken = {} THEN wanted ELSE Append(wanted, Numerals[FreeNumber(wanted, acc.ids)])
  IN IF route.doc.hidden THEN [acc EXCEPT !.given = Append(@, wanted)]
     ELSE [ids |-> acc.ids \cup {<<given, explicit>>}, given |-> Append(acc.given, given),
           ok |-> acc.ok /\ (taken = {} \/ (~explicit /\ \A id \in taken : ~id[2]))]
ClaimedBy(defs) ==
  LET claimed[n \in 0..Len(defs)] ==
        IF n = 0 THEN [ids |-> {}, given |-> <<>>, ok |-> TRUE] ELSE Claim(claimed[n - 1], defs[n])
  IN  claimed[Len(defs)]
Collected == ClaimedBy(appDef.routes)

IsUnder(path, top) == Len(top) <= Len(path) /\ \A i \in DOMAIN top : path[i] = Plain(top[i])

\* What compile(), collect() and load() refuse.
Loads ==
  LET rs == appDef.routes IN
  /\ rs # <<>> \/ appDef.statics # <<>>
  /\ \A i \in DOMAIN rs : ValidPath(rs[i].path) /\ NamesOnce(rs[i].path) /\ \A top \in DocPaths : ~IsUnder(rs[i].path, top)
  /\ \A i, j \in DOMAIN rs : i # j => IF rs[i].path = rs[j].path THEN rs[i].method # rs[j].method
                                                                  ELSE ~Clash(rs[i].path, rs[j].path)
  /\ Collected.ok
  /\ \A i \in DOMAIN appDef.statics : appDef.statics[i].exists

\* Script mounts before [static], the longest prefix first.
Longest(mounts) == SortSeq(mounts, LAMBDA a, b : Len(a.prefix) > Len(b.prefix))

CompiledApp ==
  [chains |-> [i \in DOMAIN appDef.routes |-> Chain(appDef.routes[i])],
   ids |-> Collected.given, statics |-> Longest(appDef.statics \o BaseMounts), loaded |-> TRUE, def |-> appDef]

\* routing(): what needs no Lua state.
RoutingOf(app) ==
  [chains |-> [i \in DOMAIN app.chains |-> [method |-> app.chains[i].method, path |-> app.chains[i].path, limited |-> app.chains[i].limited]],
   statics |-> app.statics, loaded |-> TRUE]

\* load(): at startup for the pool's states, whose first gives the routing;
\* later for a state rebuilt in place of one that was damaged.
LoadApp ==
  /\ Loads
  /\ appState' = CompiledApp
  /\ pooled' = IF pooled.loaded THEN pooled ELSE RoutingOf(CompiledApp)
  /\ appDef' = EmptyApp /\ scriptCalls' = MaxCalls
  /\ UNCHANGED <<routing, routed, scriptEdits>>

\* The script on disk is written anew.
EditScript ==
  /\ appState.loaded
  /\ scriptEdits < MaxEdits
  /\ scriptEdits' = scriptEdits + 1
  /\ appDef' = EmptyApp /\ scriptCalls' = MaxCalls - MaxLater
  /\ UNCHANGED <<pooled, appState, routing, routed>>

-----------------------------------------------------------------------------
(* Requests *)

Fingerprint(app) == [i \in DOMAIN app.chains |-> <<app.chains[i].method, app.chains[i].path>>]

\* lookup(): the indices of the pattern the path leads to, one per method.
AtPath(app, names) ==
  LET fits == {i \in DOMAIN app.chains : Fits(app.chains[i].path, names)}
  IN {i \in fits : \A j \in fits : ~TriedBefore(app.chains[j].path, app.chains[i].path)}
Lookup(app, req) ==
  LET at == AtPath(app, req.path)
      of(method) == {i \in at : app.chains[i].method = method}
      found == IF of(req.method) # {} \/ req.method # "head" THEN of(req.method) ELSE of("get")
  IN CASE found # {} -> [kind |-> "route", index |-> CHOOSE i \in found : TRUE, allow |-> {}]
       [] found = {} /\ at = {} -> [kind |-> "none", index |-> 0, allow |-> {}]
       [] OTHER -> [kind |-> IF req.method = "options" THEN "options" ELSE "method", index |-> 0,
                    allow |-> {app.chains[i].method : i \in at}]

\* The mount a GET or HEAD finds its file in; an SPA mount has its page for
\* what no route knows.
Has(mount, req, spa) ==
  /\ Len(mount.prefix) <= Len(req.path) /\ \A i \in DOMAIN mount.prefix : req.path[i] = mount.prefix[i]
  /\ req.path \in mount.files \/ (spa /\ mount.spa /\ req.html)
StaticOr(app, req, found, spa) ==
  LET having == {i \in DOMAIN app.statics : Has(app.statics[i], req, spa)} IN
  IF req.method \in {"get", "head"} /\ having # {}
  THEN [kind |-> "file", mount |-> app.statics[CHOOSE i \in having : \A j \in having : i <= j].prefix, allow |-> {}]
  ELSE [kind |-> found.kind, mount |-> <<>>, allow |-> found.allow]

\* `table` and `index` only record which routes answered, and by which of them.
Answered(app, req, how, index, chain, spent) ==
  [req |-> req, how |-> how, chain |-> chain, spent |-> spent, table |-> Fingerprint(app), index |-> index]
AnsweredBy(answer) == routed' = routed \cup {answer}
NoChain == [none |-> TRUE]
RouteAnswer == [kind |-> "route", mount |-> <<>>, allow |-> {}]

\* Before a state is checked out, against the pool's routing.
AskRoute(req) ==
  LET found == Lookup(pooled, req) IN
  /\ pooled.loaded /\ routing = Nobody /\ Cardinality(routed) < MaxAsks
  /\ IF found.kind = "route"
     THEN routing' = [req |-> req, index |-> found.index] /\ UNCHANGED routed
     ELSE /\ AnsweredBy(Answered(pooled, req, StaticOr(pooled, req, found, found.kind = "none"), 0, NoChain, FALSE))
          /\ UNCHANGED routing
  /\ UNCHANGED <<appDef, scriptCalls, pooled, appState, scriptEdits>>

\* Mutant: the chain at the index, whatever the state compiled.
SameRoutes_assumed == TRUE

\* routed_chain: the index means something only in the same route set.
SameRoutes == Fingerprint(appState) = Fingerprint(pooled)

\* The state is checked out: the chain routed to, or the state's own lookup.
\* The limit spent is the one of the pool's routing.
Dispatch ==
  LET req == routing.req
      own == Lookup(appState, req)
      index == IF SameRoutes THEN routing.index ELSE own.index
      spent == pooled.chains[routing.index].limited
  IN /\ routing # Nobody
     /\ IF SameRoutes \/ own.kind = "route"
        THEN /\ index \in DOMAIN appState.chains
             /\ AnsweredBy(Answered(appState, req, RouteAnswer, index, appState.chains[index], spent))
        ELSE AnsweredBy(Answered(appState, req, StaticOr(appState, req, own, own.kind = "none"), 0, NoChain, spent))
     /\ routing' = Nobody
     /\ UNCHANGED <<appDef, scriptCalls, pooled, appState, scriptEdits>>

RoutesNext ==
  \/ \E g \in 0..Len(appDef.groups) : \E e \in Endpoints : RegisterRoute(g, e)
  \/ \E g \in DOMAIN appDef.groups : UseInGroup(g)
  \/ \E g \in 0..Len(appDef.groups) : \E prefix \in GroupPrefixes : MakeGroup(g, prefix)
  \/ Use \/ OnError \/ OnInvalid \/ DocApp
  \/ \E mount \in Mounts : MountStatic(mount)
  \/ LoadApp \/ EditScript
  \/ \E req \in WebRequests : AskRoute(req)
  \/ Dispatch

RoutesSpec == RoutesInit /\ [][RoutesNext]_routesVars

-----------------------------------------------------------------------------
(* Properties *)

\* What the script gave the groups a route is in, outermost first.
GivenTo(groups, g) ==
  LET to[n \in 0..Len(groups)] == IF n = NoGroup THEN <<>> ELSE to[groups[n].parent] \o groups[n].given
  IN  to[g]

\* Every chain a state compiled runs all of its middleware: what the script
\* gave the app and each group the route is in, wherever in the script it did
\* so, outermost first, then the route's own, and validation directly before
\* the handler.  A group that missed a `use` would serve its routes without
\* the check the script wrote for them (app/mod.rs).
ChainsAreComplete ==
  appState.loaded => \A i \in DOMAIN appState.chains :
    LET route == appState.def.routes[i]
        tail == (IF route.own THEN << <<"own", route.call>> >> ELSE <<>>) \o
                (IF route.input THEN << <<"validate", route.call>> >> ELSE <<>>) \o << <<"handler", route.call>> >>
    IN appState.chains[i].fns = appState.def.middleware \o GivenTo(appState.def.groups, route.group) \o tail

\* A route of a table fits a request, and another one that fits is tried first.
Fitting(table, i, req) == Fits(table[i][2], req.path)
Covered(table, i, req) == \E j \in DOMAIN table : Fitting(table, j, req) /\ TriedBefore(table[j][2], table[i][2])
\* A GET route serves HEAD.
Serves(method, asked) == method = asked \/ (asked = "head" /\ method = "get")

\* The route a table has for a request: it fits and serves it, none that fits
\* is tried first, and for HEAD a route of that method comes before a GET one.
IsRouteFor(table, i, req) ==
  /\ i \in DOMAIN table /\ Fitting(table, i, req) /\ ~Covered(table, i, req) /\ Serves(table[i][1], req.method)
  /\ \A j \in DOMAIN table : Fitting(table, j, req) /\ table[j][1] = req.method /\ table[i][1] # req.method => Covered(table, j, req)

\* A chain that answered a request is of the route that the table of its own
\* state has for it, though the index comes from the pool's routing and the
\* state may have been compiled from another script: routes that were added or
\* moved since misroute nothing.  Where no chain answers, the table has no
\* route for the request but such as another pattern hides, one that fits and
\* is tried first, whatever its methods: with GET /a/id and POST /a/*id,
\* POST /a/id is a 405.  And every method that Allow names is served if the
\* client asks again with it.  (routed_chain, lookup)
RequestsReachTheirRoute ==
  \A a \in routed :
    /\ a.how.kind = "route" => /\ IsRouteFor(a.table, a.index, a.req)
                               /\ a.table[a.index] = <<a.chain.method, a.chain.path>>
    /\ a.how.kind # "route" =>
         \A i \in DOMAIN a.table : Fitting(a.table, i, a.req) /\ Serves(a.table[i][1], a.req.method) => Covered(a.table, i, a.req)
    /\ \A method \in a.how.allow : \E i \in DOMAIN a.table : IsRouteFor(a.table, i, [a.req EXCEPT !.method = method])

\* The operation ids of the visible routes differ, and the document can name
\* each of them (collect).
OperationIdsDiffer ==
  appState.loaded => \A i, j \in DOMAIN appState.ids :
    i # j /\ appState.def.routes[i].doc.hidden = FALSE /\ appState.def.routes[j].doc.hidden = FALSE => appState.ids[i] # appState.ids[j]

\* What load() hands to the pool is the application the script wrote, and a request
\* is answered by the route of it that is its own, while scripts are edited.
AppsServeTheirRoutes == ChainsAreComplete /\ OperationIdsDiffer /\ RequestsReachTheirRoute
=============================================================================
