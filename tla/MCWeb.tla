------------------------------- MODULE MCWeb --------------------------------
(***************************************************************************)
(* The parts of the web application a request passes through, checked in   *)
(* one run: each has its own state, so a behaviour moves one of them and   *)
(* leaves the others where they start.  Below: the files, bodies, schemas, *)
(* routes and requests they are checked with.                              *)
(***************************************************************************)
EXTENDS Content, RouteInput, Session, Credentials, Paths, Negotiation, Validate, OpenApi, Routes, Json, TLC

VARIABLE part    \* the component that moves

webVars ==
  <<part, contentVars, inputVars, sessionVars, credentialVars, pathVars, negotiationVars,
    validateVars, openApiVars, routesVars, jsonVars>>

\* Only where files are served does it matter which sidecars were built.
WebInit ==
  /\ part \in {"content", "input", "sessions", "credentials", "paths", "headers", "validate",
               "document", "routes", "json"}
  /\ ContentInit /\ InputInit /\ SessionInit /\ CredentialsInit
  /\ PathsInit /\ NegotiationInit /\ ValidateInit /\ OpenApiInit /\ RoutesInit /\ JsonInit
  /\ part # "content" => \A r \in Reps : fs[r] # Gone

WebNext ==
  /\ UNCHANGED part
  /\ \/ /\ part = "content" /\ ContentNext
        /\ UNCHANGED <<inputVars, sessionVars, credentialVars, pathVars,
                       negotiationVars, validateVars, openApiVars, routesVars, jsonVars>>
     \/ /\ part = "input" /\ InputNext
        /\ UNCHANGED <<contentVars, sessionVars, credentialVars, pathVars,
                       negotiationVars, validateVars, openApiVars, routesVars, jsonVars>>
     \/ /\ part = "sessions" /\ SessionNext
        /\ UNCHANGED <<contentVars, inputVars, credentialVars, pathVars,
                       negotiationVars, validateVars, openApiVars, routesVars, jsonVars>>
     \/ /\ part = "credentials" /\ CredentialsNext
        /\ UNCHANGED <<contentVars, inputVars, sessionVars, pathVars,
                       negotiationVars, validateVars, openApiVars, routesVars, jsonVars>>
     \/ /\ part = "paths" /\ PathsNext
        /\ UNCHANGED <<contentVars, inputVars, sessionVars, credentialVars,
                       negotiationVars, validateVars, openApiVars, routesVars, jsonVars>>
     \/ /\ part = "headers" /\ NegotiationNext
        /\ UNCHANGED <<contentVars, inputVars, sessionVars, credentialVars,
                       pathVars, validateVars, openApiVars, routesVars, jsonVars>>
     \/ /\ part = "validate" /\ ValidateNext
        /\ UNCHANGED <<contentVars, inputVars, sessionVars, credentialVars,
                       pathVars, negotiationVars, openApiVars, routesVars, jsonVars>>
     \/ /\ part = "document" /\ OpenApiNext
        /\ UNCHANGED <<contentVars, inputVars, sessionVars, credentialVars,
                       pathVars, negotiationVars, validateVars, routesVars, jsonVars>>
     \/ /\ part = "routes" /\ RoutesNext
        /\ UNCHANGED <<contentVars, inputVars, sessionVars, credentialVars,
                       pathVars, negotiationVars, validateVars, openApiVars, jsonVars>>
     \/ /\ part = "json" /\ JsonNext
        /\ UNCHANGED <<contentVars, inputVars, sessionVars, credentialVars,
                       pathVars, negotiationVars, validateVars, openApiVars, routesVars>>

WebSpec == WebInit /\ [][WebNext]_webVars

-----------------------------------------------------------------------------
(* Codings in the server's order, a script's cookie options *)

MCOffered == <<"br", "gzip">>
MCOpts == [http_only |-> FALSE, max_age |-> 9]
-----------------------------------------------------------------------------
(* Schemas and the values checked against them *)

F(name, rule) == [name |-> name, rule |-> rule]
NameRule == [Bare("string") EXCEPT !.trim = TRUE, !.lower = TRUE, !.required = TRUE, !.min_len = 1, !.max_len = 2,
                                    !.custom = TRUE, !.transform = TRUE, !.not_one_of = {Str(2)}]
AgeRule == [Bare("integer") EXCEPT !.min = 0, !.exclusive_min = 0, !.max = 2, !.default = Whole(1), !.check = TRUE]
TagRule == [Bare("string") EXCEPT !.trim = TRUE, !.check = TRUE]
Nested == [BareSchema(<<F("x", [Bare("number") EXCEPT !.required = TRUE, !.multiple_of = 1])>>) EXCEPT !.checks = 1]
TagsRule ==
  [Bare("array") EXCEPT !.items = TagRule, !.unique = TRUE, !.min_items = 1, !.max_items = 2,
                        !.contains = {Str(1)}, !.transform = TRUE]
SizesRule ==
  [Bare("map") EXCEPT !.keys = [Bare("string") EXCEPT !.trim = TRUE, !.max_len = 2],
                      !.items = [Bare("integer") EXCEPT !.max = 1, !.exclusive_max = 2, !.transform = TRUE],
                      !.min_keys = 1, !.max_keys = 2]
MCSchemas ==
  [account |-> [BareSchema(<<F("age", AgeRule), F("name", NameRule)>>) EXCEPT !.checks = 1, !.strict = TRUE],
   tags |-> BareSchema(<<F("tags", TagsRule)>>),
   sizes |-> BareSchema(<<F("sizes", SizesRule)>>),
   place |->
     [BareSchema(<<F("home", [Bare("table") EXCEPT !.fields = Nested]), F("work", Bare("boolean"))>>)
        EXCEPT !.at_least_one = << <<"home", "work">> >>, !.exclusive = << <<"home", "work">> >>],
   span |->
     [BareSchema(<<F("hi", Bare("number")), F("lo", Bare("number")), F("mid", Bare("number"))>>)
        EXCEPT !.ordered = << <<"lo", "mid", "hi">> >>, !.dependent = << <<"mid", "lo", "hi">> >>,
               !.equal = << <<"lo", "lo">> >>],
   query |->
     BareSchema(<<F("flag", Bare("boolean")), F("ids", [Bare("array") EXCEPT !.items = Bare("integer"), !.max_items = 2]),
                  F("page", [Bare("integer") EXCEPT !.max = 2]), F("q", [Bare("string") EXCEPT !.len = 0])>>)]
Case(schema, given) == [schema |-> schema, how |-> "value", strict |-> FALSE, input |-> given, pairs |-> <<>>]
Strictly(c) == [c EXCEPT !.strict = TRUE]
FromText(pairs) == [schema |-> "query", how |-> "text", strict |-> FALSE, input |-> LuaNil, pairs |-> pairs]
X(form, n) == [form |-> form, n |-> n]
Q(name, given) == [name |-> name, text |-> given]
Obj(pairs) == Table([i \in DOMAIN pairs |-> KeyVal(pairs[i][1], 0, pairs[i][2])])
OfAccount ==
  {Case("account", v) : v \in {Whole(1), Obj(<<>>)}}
  \cup {Case("account", Obj(<< <<"name", n>>, <<"age", a>> >>)) :
          n \in {Str(111), Str(3), Str(2), Whole(1), Str(10)}, a \in {Whole(0), Float(3), Float(2), NotFinite, LuaNil}}
  \cup {Case("account", Obj(<< <<"name", Str(1)>>, <<"admin", Bool(TRUE)>> >>))}
OfTags ==
  {Case("tags", Obj(<< <<"tags", t>> >>)) :
     t \in {List(<<>>), List(<<Str(1), Str(11)>>), List(<<Str(1), Str(1)>>), List(<<Str(2)>>),
            List(<<Str(1), Whole(1)>>), List(<<Str(1), Str(2), Str(3)>>), Str(1)}}
OfSizes ==
  {Case("sizes", Obj(<< <<"sizes", Table(es)>> >>)) :
     es \in {<<>>, <<KeyVal("k", 1, Whole(1)), KeyVal("k", 11, Whole(0))>>, <<KeyVal("k", 3, Whole(1))>>,
             <<KeyVal("k", 1, Whole(2)), KeyVal("", 1, Whole(1))>>, <<KeyVal("k", 12, Whole(1))>>}}
HomeAt(n) == <<"home", Obj(<< <<"x", n>> >>)>>
Extra == <<"home", Obj(<< <<"x", Whole(1)>>, <<"admin", Bool(TRUE)>> >>)>>
OfPlace ==
  {Case("place", Obj(es)) :
     es \in {<<>>, <<HomeAt(Float(3))>>, <<HomeAt(Whole(1))>>, << <<"home", Obj(<<>>)>>, <<"work", Bool(TRUE)>> >>,
             <<HomeAt(Whole(1)), <<"work", Bool(TRUE)>> >>, << <<"home", List(<<Whole(1)>>)>> >>}}
  \cup {Case("place", Obj(es)) : es \in {<<Extra>>, <<HomeAt(Whole(1)), <<"admin", Bool(TRUE)>> >>}}
  \cup {Strictly(Case("place", Obj(es))) :
          es \in {<<HomeAt(Whole(1))>>, <<Extra>>, <<HomeAt(Whole(1)), <<"admin", Bool(TRUE)>> >>}}
OfSpan ==
  {Case("span", Obj(<< <<"lo", Whole(1)>>, <<"mid", m>>, <<"hi", h>> >>)) :
     m \in {LuaNil, Float(3), Float(2)}, h \in {LuaNil, Whole(1), Whole(2)}}
  \cup {Case("span", Obj(<< <<"lo", Whole(1)>>, <<"admin", Bool(TRUE)>> >>))}
OfQuery ==
  {FromText(<<Q("page", a), Q("page", b), Q("q", c), Q("ids", a), Q("ids", b), Q("flag", b)>>) :
     a \in {X("plain", 1), X("zeros", 2)}, c \in {X("blank", 0), X("plain", 2)},
     b \in {X("plain", 3), X("blank", 0), X("half", 1), X("plain", 0)}}
MCCases == OfAccount \cup OfTags \cup OfSizes \cup OfPlace \cup OfSpan \cup OfQuery
MCNested ==
  {c \in OfAccount : c.input \in {Obj(<< <<"name", Str(111)>>, <<"age", LuaNil>> >>), Obj(<<>>)}}

-----------------------------------------------------------------------------
(* Schema definitions and the routes that name them *)

Int1(tokens) == Writes("table", "integer", tokens, 0, 2, NoBound, 0, 0, "none")
Req == Token("required", "bare")
Text(low, exact) ==
  Writes("pipe", "string", <<Req, Token("min_len", "number"), Token("len", "number")>>, low, NoBound, exact, 0, 0, "none")
Sub(i) == Writes("schema", "table", <<>>, NoBound, NoBound, NoBound, 0, i, "none")
Bad == Writes("table", "string", <<Req, Token("default", "text")>>, NoBound, NoBound, NoBound, 0, 0, "none")
Deep(n) == Writes("table", "integer", <<>>, NoBound, NoBound, NoBound, n, 0, "none")
Plate == Writes("table", "string", <<Token("format", "text")>>, NoBound, NoBound, NoBound, 0, 0, "plate")
MCTables == {[a |-> Int1(<<Req>>), b |-> Int1(<<>>)], [a |-> Text(1, 2), b |-> Plate], [b |-> Sub(1)], [a |-> Bad]}
MCOptions == {NoOptions, [title |-> "Note", groups |-> [ordered |-> {<<"a", "b">>}]],
              [title |-> "ValidationError", groups |-> NoOptions.groups]}
Adds(rules, removed) == [rules |-> rules, removed |-> removed]
MCExtensions == {Adds([b |-> Int1(<<>>)], {}), Adds([a |-> Deep(1)], {"b"}), Adds([a |-> Deep(2)], {})}
MCOrder == <<"a", "b">>
Shape(at, parts, doc) == [at |-> at, parts |-> parts, doc |-> doc]
MCShapes == {Shape("post /a", <<"body">>, "full"), Shape("get /b", <<"text">>, "full"),
             Shape("get /b", <<>>, "hidden"), Shape("get /b", <<>>, "none")}

-----------------------------------------------------------------------------
(* Graphs of tables: shared, cyclic, with holes, as deep as the limit and deeper *)

TableOf(items) == [marked |-> FALSE, items |-> items]
Marked == [marked |-> TRUE, items |-> <<>>]
Named(v) == TableOf(Val("str", 9) :> v)
FilledWith(keys, values) ==
  {TableOf(f) : f \in UNION {[ks -> values] : ks \in {x \in SUBSET keys : Cardinality(x) \in 1 .. 3}}}
SecondTables ==
  {TableOf(<<>>), Marked, TableOf(Val("int", 1) :> Val("num", 1)), Named(Val("table", 1)), Named(Val("table", 3))}
ThirdTables == {Marked, Named(Val("num", 1)), Named(Val("table", 4))}
MCGraphs ==
  {<<r, a, b, TableOf(<<>>)>> :
     r \in FilledWith({Val("int", 1), Val("str", 2), Val("str", 3)}, {Val("num", 1), Val("table", 2)}),
     a \in SecondTables, b \in ThirdTables}
  \cup {<<r>> : r \in FilledWith({Val("int", n) : n \in {1, 2, 3, 4, 9}} \cup {Val("str", 2)}, {Val("num", 1), Val("nan", 0)})}
  \cup {<<TableOf(k :> Val("num", 1)), Marked>> :
          k \in {Val("half", 1), Val("bool", 1), Val("inf", 0), Val("bytes", 0), Val("table", 1), Val("table", 2)}}
  \cup {<<TableOf(Val("table", 2) :> Val("table", 3)), Named(Val("num", 1)), Marked>>}
  \cup {<<Named(v)>> : v \in {Val("null", 0), Val("bytes", 0), Val("function", 0)}}

-----------------------------------------------------------------------------
(* Handler scripts and requests *)

E(method, path, own, checked, doc, limited, valid) ==
  [method |-> method, path |-> path, own |-> own, input |-> checked, doc |-> doc, limited |-> limited,
   error |-> own, invalid |-> checked, valid |-> valid]
NoDoc == [hidden |-> FALSE, id |-> <<>>]
MCEndpoints == {
  E("get", <<Plain("a"), Param("id")>>, TRUE, FALSE, NoDoc, FALSE, TRUE),
  E("get", <<Plain("a"), Plain("id")>>, FALSE, TRUE, NoDoc, TRUE, TRUE),
  E("post", <<Plain("a"), CatchAll("id")>>, FALSE, FALSE, NoDoc, FALSE, TRUE),
  E("get", <<Plain("a"), Plain("id"), Plain("2")>>, FALSE, FALSE, NoDoc, FALSE, TRUE),
  E("get", <<>>, FALSE, FALSE, NoDoc, FALSE, FALSE)}
MCNumerals == [n \in 2..MaxCalls + 2 |-> ToString(n)]
MCDocPaths == {<<"docs">>}
MCPrefixes == {<<Plain("a"), Plain("")>>}
Mnt(prefix, files, spa) == [prefix |-> prefix, files |-> files, spa |-> spa, exists |-> TRUE]
MCMounts == {Mnt(<<"a">>, {<<"a", "id">>}, FALSE)}
MCBase == <<Mnt(<<>>, {<<"x">>}, TRUE)>>
R(method, path, html) == [method |-> method, path |-> path, html |-> html]
MCRequests == {R("get", <<"a", "id">>, TRUE), R("head", <<"a", "7">>, FALSE), R("options", <<"a", "a", "id">>, FALSE),
               R("post", <<"a", "id">>, FALSE)}
MCContentLists ==
  {<<>>, <<"json", "form", "json">>, <<"raw", "raw", "raw">>} \cup {<<a>> : a \in Names} \cup {<<a, b>> : a, b \in Names}
MCTags == {"a", "b", "*"}
MCWeightings == {<<>>, <<0>>, <<5>>, <<NaN>>, <<Junky>>, <<5, 0>>, <<Junky, 0>>}
MCMediaTypes == {<<"text", "html">>, <<"text", "plain">>, <<"app", "json">>}
MCMediaRanges == {<<"text", "html">>, <<"app", "json">>, <<"text", "*">>, <<"*", "*">>}

\* The tree of the fuzz targets static_resolve and upload_resolve, with a link
\* to nothing and one to a hidden file, a sidecar beside one file and a link
\* out of the mount in the place of another's.
MCFileNames == {"sub", "ok", "escape", "escape-dir", "alias", "leak", "new", "lost", "shown"}
MCRoot == <<"public">>
MCDirs == {<<>>, MCRoot, MCRoot \o <<"sub">>, MCRoot \o <<".well-known">>, <<"outside">>}
MCFiles == {<<"secret">>, <<"outside", "leak">>, <<"outside", "index.html">>,
            MCRoot \o <<"index.html">>, MCRoot \o <<"ok">>, MCRoot \o <<".env">>, MCRoot \o <<Buried>>, MCRoot \o <<Disguised>>,
            MCRoot \o <<"sub", "ok">>, MCRoot \o <<"sub", "ok.br">>, MCRoot \o <<"sub", "index.html">>, MCRoot \o <<".well-known", "ok">>}
MCLinks ==
  LET targets == [escape |-> <<"secret">>, alias |-> MCRoot \o <<"ok">>, lost |-> Nowhere, shown |-> MCRoot \o <<".env">>]
  IN  [p \in {MCRoot \o <<"escape-dir">>, MCRoot \o <<"ok.br">>, MCRoot \o <<"sub", "alias">>}
               \cup {MCRoot \o <<name>> : name \in DOMAIN targets} |->
         CASE Last(p) = "escape-dir" -> <<"outside">>
           [] Last(p) = "ok.br" -> <<"secret">>
           [] OTHER -> targets[Last(p)]]
MCCompressed == [ok |-> "ok.br", leak |-> "leak.br"]

\* Bound: once the request is answered, no further script is run.
AnswersEndIt == routed # {} => appDef = EmptyApp
=============================================================================
