------------------------------ MODULE OpenApi ------------------------------
(***************************************************************************)
(* The OpenAPI document: crates/nitr-std/src/validate/schema_json.rs and   *)
(* crates/nitr-http/src/openapi/.                                          *)
(*                                                                         *)
(* The routes of the handler script declare schemas for what they take and *)
(* document schemas for what they answer.  Each build exports them, in     *)
(* route order, into one document whose titled schemas are components the  *)
(* others refer to, writes it to a file in dev mode, which is the mode     *)
(* modelled, and swaps it in.  Prose, examples, status codes and the page  *)
(* around the document are left out.                                       *)
(***************************************************************************)
EXTENDS Schemas

CONSTANTS
  IncludeUndocumented,   \* [openapi] include_undocumented
  Shapes,                \* what routes look like: where they are, their parts with a schema, in order, and their `doc`
  MaxRoutes              \* bound: routes of a script

ASSUME OpenApiConstants == MaxRoutes \in Nat

VARIABLES
  routes,    \* AppMeta.routes
  served,    \* the document in the slot
  outfile,   \* the document at [openapi] output; none also stands for an older one
  building   \* the document that was made and is not served yet, and where it is

openApiVars == <<schemas, formats, frozen, routes, served, outfile, building>>

-----------------------------------------------------------------------------
(* JSON Schema: one node of the document *)

\* The component names a title may take, in the order they are tried.
Suffixed(title, n) == <<title, n>>

NoProps == [n \in {} |-> n]
Node(kind, bounds, custom) ==
  [ref |-> <<>>, kind |-> kind, bounds |-> bounds, custom |-> custom, props |-> NoProps, required |-> {},
   title |-> Suffixed(NoTitle, 1), groups |-> {}, levels |-> 0]
Reference(name) == [Node("ref", <<NoBound, NoBound>>, FALSE) EXCEPT !.ref = name]

\* A rule's bounds as keywords: `len` writes both, and `min_len` and `max_len`
\* are inserted over them.
Bounds(rule) ==
  << IF rule.low # NoBound THEN rule.low ELSE rule.exact, IF rule.high # NoBound THEN rule.high ELSE rule.exact >>

\* Mutant: whatever stands under the title is taken for the schema.
SameComponent_byTitle(existing, object) == existing.title[1] = object.title[1]

\* Some(existing) if *existing == object: the stored object carries the name
\* it was stored under as its title, so only the first of a title is met again.
SameComponent(existing, object) == existing = object

\* A titled object becomes a component under the first name of its title that
\* is free, or is that very component.
ComponentName(comps, title, object) ==
  LET stops == {n \in 1..(Cardinality(DOMAIN comps) + 1) :
                  Suffixed(title, n) \in DOMAIN comps => SameComponent(comps[Suffixed(title, n)], object)}
  IN  Suffixed(title, CHOOSE n \in stops : \A m \in stops : n <= m)
Stored(comps, object, name) == [node |-> Reference(name), comps |-> comps @@ (name :> [object EXCEPT !.title = name])]
Exported(comps, object, title) ==
  IF title = NoTitle THEN [node |-> object, comps |-> comps]
  ELSE Stored(comps, object, ComponentName(comps, title, object))

\* object_schema() and cross_field()
ObjectSchema(def, props) ==
  [Node("object", <<NoBound, NoBound>>, FALSE) EXCEPT
     !.props = props, !.required = {n \in DOMAIN def.fields : def.fields[n].required},
     !.title = Suffixed(def.title, 1), !.groups = UNION {{<<k, g>> : g \in def.groups[k]} : k \in GroupKeys}]

Inlined(rule, inner) ==
  IF rule.levels = 0 THEN inner
  ELSE [Node("object", <<NoBound, NoBound>>, FALSE) EXCEPT !.props = [inner |-> inner], !.levels = rule.levels]
WithField(acc, n, rule, leaf) == [comps |-> leaf.comps, props |-> acc.props @@ (n :> Inlined(rule, leaf.node))]

RECURSIVE ExportSchema(_, _)
\* rule_schema(): a nested schema is exported first.
RuleSchema(rule, comps) ==
  IF rule.of # 0 THEN ExportSchema(rule.of, comps)
  ELSE [node |-> Node(rule.kind, Bounds(rule), rule.checked), comps |-> comps]
ExportFields(def, walked) == Exported(walked.comps, ObjectSchema(def, walked.props), def.title)

\* export(): the node and the components after it.
ExportSchema(i, comps) ==
  ExportFields(schemas[i],
    FoldLeft(LAMBDA acc, n : WithField(acc, n, schemas[i].fields[n], RuleSchema(schemas[i].fields[n], acc.comps)),
             [comps |-> comps, props |-> NoProps],
             SelectSeq(FieldOrder, LAMBDA n : n \in DOMAIN schemas[i].fields)))

-----------------------------------------------------------------------------
(* spec::build(): one operation per visible route *)

Visible(route) == route.doc # "hidden" /\ (route.doc = "none" => IncludeUndocumented)

\* operation(): parameters, body and responses in that order.  part_object()
\* resolves a titled text part, so its properties stand in the operation; the
\* others stay references.
PartNode(part, e) == IF part = "text" /\ e.node.ref # <<>> THEN e.comps[e.node.ref] ELSE e.node
WithPart(acc, part, e) == [comps |-> e.comps, nodes |-> Append(acc.nodes, PartNode(part, e))]
WithOperation(acc, route, walked) == [comps |-> walked.comps, ops |-> (route.at :> walked.nodes) @@ acc.ops]
Operation(acc, route) ==
  WithOperation(acc, route,
    FoldLeft(LAMBDA a, use : WithPart(a, use.part, ExportSchema(use.schema, a.comps)),
             [comps |-> acc.comps, nodes |-> <<>>], route.uses))

\* The two components every document carries, put over whatever has their name.
OwnComponents ==
  (Suffixed("ValidationError", 1) :> Node("ValidationError", <<NoBound, NoBound>>, FALSE))
  @@ (Suffixed("UnsupportedMediaType", 1) :> Node("UnsupportedMediaType", <<NoBound, NoBound>>, FALSE))

\* paths is a map by template and method.
AsDocument(walked) == [ops |-> walked.ops, comps |-> OwnComponents @@ walked.comps]
Document == AsDocument(FoldLeft(Operation, [comps |-> NoProps, ops |-> NoProps], SelectSeq(routes, Visible)))

NoDocument == [ops |-> NoProps, comps |-> NoProps]
NoBuild == [step |-> "none", doc |-> NoDocument]

OpenApiInit ==
  /\ SchemasInit
  /\ routes = <<>> /\ served = NoDocument /\ building = NoBuild
  /\ outfile = NoDocument

\* The script's schemas and routes change only while it runs.  A schema never
\* changes, so those a script makes after its first route may come before it.
ScriptStep == ~frozen /\ routes = <<>> /\ SchemasNext /\ UNCHANGED <<routes, served, outfile, building>>

\* app:get(path, handler, { input = ..., doc = ... }).  Text parts come first,
\* then the body, then the answers.  A second route of one method and path does
\* not compile.
AddRoute(shape, of) ==
  /\ ~frozen /\ Len(routes) < MaxRoutes
  /\ \A r \in ToSet(routes) : r.at # shape.at
  /\ routes' = Append(routes, [at |-> shape.at, doc |-> shape.doc,
                               uses |-> [i \in DOMAIN shape.parts |-> [part |-> shape.parts[i], schema |-> of[i]]]])
  /\ UNCHANGED <<schemas, formats, frozen, served, outfile, building>>

\* OpenApiDocs::build() makes the document from the first state of the pool.
Build ==
  /\ routes # <<>> /\ ~frozen
  /\ frozen' = TRUE
  /\ building' = [step |-> "made", doc |-> Document]
  /\ UNCHANGED <<schemas, formats, routes, served, outfile>>

\* The document is over MAX_SPEC_BYTES: the build fails.  Sizes are not
\* modelled, so any document may be.
RefuseDocument ==
  /\ building.step = "made"
  /\ building' = NoBuild
  /\ UNCHANGED <<schemas, formats, frozen, routes, served, outfile>>

\* write_if_changed(), in dev mode: a new file under a new name, then renamed
\* into place; a file that holds the document already is left.
WriteOutput ==
  /\ building.step = "made"
  /\ outfile' = building.doc
  /\ building' = [building EXCEPT !.step = "written"]
  /\ UNCHANGED <<schemas, formats, frozen, routes, served>>

\* Mutant: a write that failed is passed over.
AfterFailedWrite_served == [building EXCEPT !.step = "written"]

\* A link stands there or the write fails: so does the build, and the temporary
\* file goes or stays behind under a name nothing reads.
AfterFailedWrite == NoBuild
WriteFails ==
  /\ building.step = "made"
  /\ building' = AfterFailedWrite
  /\ UNCHANGED <<schemas, formats, frozen, routes, served, outfile>>

\* The document is swapped into its slot with the pool it describes.
PublishDocument ==
  /\ building.step = "written"
  /\ served' = building.doc
  /\ building' = NoBuild
  /\ UNCHANGED <<schemas, formats, frozen, routes, outfile>>

OpenApiNext ==
  \/ ScriptStep
  \/ \E shape \in Shapes : \E of \in [DOMAIN shape.parts -> DOMAIN schemas] : AddRoute(shape, of)
  \/ Build \/ RefuseDocument \/ WriteOutput \/ WriteFails \/ PublishDocument

OpenApiSpec == OpenApiInit /\ [][OpenApiNext]_openApiVars

-----------------------------------------------------------------------------
(* Properties *)

\* What the checker holds a length to: `len`, `min_len` and `max_len` all of them.
Enforced(rule) ==
  << IF rule.exact > rule.low THEN rule.exact ELSE rule.low,
     IF rule.exact # NoBound /\ (rule.high = NoBound \/ rule.exact < rule.high) THEN rule.exact ELSE rule.high >>
\* A rule that gives a length twice over.
GivenTwice(rule) == rule.exact # NoBound /\ (rule.low # NoBound \/ rule.high # NoBound)

\* The bounds said are the bounds held, or wider where they are given twice.
BoundsSaid(said, rule) ==
  LET held == Enforced(rule) IN
  /\ GivenTwice(rule) \/ said = held
  /\ said[1] <= held[1] /\ (said[2] = NoBound \/ (held[2] # NoBound /\ said[2] >= held[2]))

RECURSIVE Says(_, _, _)
FieldSaid(prop, rule, comps) ==
  LET node == IF prop.levels > 0 THEN prop.props["inner"] ELSE prop
  IN  IF rule.of # 0 THEN Says(node, rule.of, comps) 
      ELSE node.kind = rule.kind /\ node.custom = rule.checked /\ BoundsSaid(node.bounds, rule)
\* A node, its references followed, tells a reader the schema, unless its title
\* is the name of a component of Nitr's own.
Says(node, i, comps) ==
  LET object == IF node.ref = <<>> THEN node ELSE comps[node.ref]
      def == schemas[i]
  IN  \/ node.ref \in DOMAIN OwnComponents
      \/ /\ DOMAIN object.props = DOMAIN def.fields
         /\ object.required = {n \in DOMAIN def.fields : def.fields[n].required}
         /\ object.groups = UNION {{<<k, g>> : g \in def.groups[k]} : k \in GroupKeys}
         /\ \A n \in DOMAIN def.fields : FieldSaid(object.props[n], def.fields[n], comps)

\* What is served says, at each place of a visible route that names a schema,
\* the fields, kinds, requirements and groups of that schema, whatever shares
\* its title and in whatever order routes were exported; a length it says is
\* the length held, or a wider one where a rule gives `len` beside `min_len`
\* or `max_len`.  A schema that has the title of one of Nitr's own components
\* is the exception: the own one is read in its place, except at text parts.
\* The first schema of a title is one component however often it is named.
\* And no document is served that could not be written.  (export,
\* part_object, build, build_docs)
DocumentSaysTheSchemas ==
  served # NoDocument =>
    /\ \A r \in ToSet(SelectSeq(routes, Visible)) : \A i \in DOMAIN r.uses :
         Says(served.ops[r.at][i], r.uses[i].schema, served.comps)
    /\ \A name \in DOMAIN served.comps :
         LET first == Suffixed(name[1], 1)
         IN  name # first /\ first \notin DOMAIN OwnComponents
               => [served.comps[name] EXCEPT !.title = first] # served.comps[first]
    /\ outfile = served

\* Both together: what schemas say of each other while a script makes them, and what the
\* document says of them once its routes are exported.
SchemasHold == GroupsStaySound /\ DocumentSaysTheSchemas
=============================================================================
