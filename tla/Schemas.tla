------------------------------ MODULE Schemas ------------------------------
(***************************************************************************)
(* nitr.validate.schema() and its derivations: crates/nitr-std/src/        *)
(* validate/compile/, shorthand.rs and lua.rs.                             *)
(*                                                                         *)
(* A script writes rules as tables or in the pipe shorthand, compiles them *)
(* into schemas and derives new schemas from old ones.  A schema never     *)
(* changes; another may hold it as a field.  A rule that does not compile  *)
(* raises and leaves nothing behind, so it is a guard here.  The wording of *)
(* messages is left out.                                                   *)
(***************************************************************************)
EXTENDS Integers, Sequences, FiniteSets, SequencesExt, Functions

CONSTANTS
  FieldOrder,    \* the field names, sorted
  FieldTables,   \* the field tables scripts hand to schema(): name -> written rule
  Extensions,    \* the tables scripts hand to extend(): the rules given, and the names given `false`
  OptionTables,  \* the option tables scripts hand to schema() and with()
  MaxDepth,      \* MAX_DEPTH
  MaxSchemas     \* bound: schemas a script makes

\* A group of an option table is a list of names.
ASSUME SchemasConstants ==
  /\ MaxDepth \in Nat \ {0} /\ MaxSchemas \in Nat
  /\ \A opts \in OptionTables : \A k \in DOMAIN opts.groups : \A g \in opts.groups[k] : g \in Seq(ToSet(g))

VARIABLES
  schemas,    \* the compiled schemas, oldest first
  formats,    \* FormatRegistry: the custom formats registered
  frozen      \* the application has compiled

schemaVars == <<schemas, formats, frozen>>

-----------------------------------------------------------------------------
(* Rules as they are written *)

NoBound == -1
NoTitle == "none"

\* One key of a rule and the sort of value it is given.  "bare" is a flag, or
\* a pipe token without a value.
Token(key, arg) == [key |-> key, arg |-> arg]

\* spelt: "table", "pipe", or "schema" for a compiled schema in a rule's place.
\* levels: the inline tables wrapped around the rule.  of: the nested schema.
\* format: the format it names, or "none".
Writes(spelt, kind, tokens, low, high, exact, levels, of, format) ==
  [spelt |-> spelt, kind |-> kind, tokens |-> tokens, low |-> low, high |-> high, exact |-> exact,
   levels |-> levels, of |-> of, format |-> format]

Kinds == {"string", "number", "integer", "boolean", "array", "table", "map", "any", "file"}
CommonKeys == {"required", "default", "equals", "one_of", "not_one_of", "description", "example", "label", "message",
               "messages", "check", "transform"}
AllowedKeys ==
  [string |-> {"trim", "case", "min_len", "max_len", "len", "format", "starts_with", "ends_with", "contains",
               "does_not_contain", "after", "before"},
   number |-> {"min", "max", "exclusive_min", "exclusive_max", "multiple_of", "decimals"},
   integer |-> {"min", "max", "exclusive_min", "exclusive_max", "multiple_of"},
   boolean |-> {},
   array |-> {"items", "min_items", "max_items", "unique", "contains", "contains_any", "contains_all", "max_total_bytes"},
   table |-> {"fields"},
   map |-> {"keys", "values", "min_keys", "max_keys"},
   any |-> {"max_bytes"},
   file |-> {"max_bytes", "min_bytes", "types", "allow_executables", "extensions", "match_extension", "filename",
             "min_width", "max_width", "min_height", "max_height", "max_pixels", "aspect", "utf8"}]

\* Keys a kind cannot do without: what it holds, or how large it may be.
NeededKeys ==
  [k \in Kinds |-> CASE k = "array" -> {"items"} [] k = "table" -> {"fields"} [] k = "map" -> {"values", "max_keys"}
                     [] k \in {"any", "file"} -> {"max_bytes"} [] OTHER -> {}]

FlagKeys == {"required", "trim", "unique", "utf8", "allow_executables", "match_extension"}
NumberKeys == {"min", "max", "exclusive_min", "exclusive_max", "multiple_of", "decimals", "min_len", "max_len", "len",
               "min_items", "max_items", "min_keys", "max_keys", "min_width", "max_width", "min_height", "max_height",
               "max_pixels"}
ListKeys == {"one_of", "not_one_of", "contains_any", "contains_all", "types", "extensions"}
BuiltinFormats == {"date", "datetime", "time", "email"}
TemporalFormats == {"date", "datetime", "time"}
FunctionKeys == {"check", "transform"}

\* The typed getters: each key takes one sort of value.
ArgOf(key) ==
  CASE key \in FlagKeys -> "bare" [] key \in NumberKeys -> "number" [] key \in ListKeys -> "list"
    [] key \in FunctionKeys -> "function" [] key \in {"items", "fields", "keys", "values"} -> "rule" [] OTHER -> "text"

WrittenKeys(w) == {w.tokens[i].key : i \in DOMAIN w.tokens}

\* A rule names a format under its key only.
ASSUME FormatsHaveTheirKey ==
  LET Keyed(w) == w.format # "none" => "format" \in WrittenKeys(w)
  IN  /\ \A fields \in FieldTables : \A n \in DOMAIN fields : Keyed(fields[n])
      /\ \A x \in Extensions : \A n \in DOMAIN x.rules : Keyed(x.rules[n])

\* expand(): a pipe says each key once, only flags may go without a value, and
\* it cannot spell a function or a rule.
Expands(w) ==
  /\ Cardinality(WrittenKeys(w)) = Len(w.tokens)
  /\ \A t \in ToSet(w.tokens) : t.arg \in {"bare", "number", "list", "text"} /\ t.arg = ArgOf(t.key)

\* compile_common(), compile_string(), compile_number(), compile_array(),
\* compile_table() and compile_map(): what they refuse.
Consistent(w) ==
  LET keys == WrittenKeys(w)
  IN  /\ w.kind \in Kinds
      /\ keys \subseteq CommonKeys \cup AllowedKeys[w.kind]
      /\ \A t \in ToSet(w.tokens) : t.arg = ArgOf(t.key)
      /\ NeededKeys[w.kind] \subseteq keys
      /\ ~({"default", "required"} \subseteq keys)
      /\ "check" \in keys => "description" \in keys
      /\ w.kind # "map" /\ w.low # NoBound /\ w.high # NoBound => w.low <= w.high
      /\ w.format \in BuiltinFormats \cup formats \cup {"none"}
      /\ {"after", "before"} \cap keys # {} => w.format \in TemporalFormats

\* compile_rule_value() at a field: a schema in a rule's place is taken as it is.
Compiles(w) ==
  CASE w.spelt = "schema" -> w.of \in DOMAIN schemas
    [] w.spelt = "pipe" -> Expands(w) /\ Consistent(w)
    [] OTHER -> Consistent(w) /\ w.levels <= MaxDepth /\ w.of \in {0} \cup DOMAIN schemas

Compiled(w) ==
  LET keys == WrittenKeys(w)
  IN  [kind |-> IF w.spelt = "schema" THEN "table" ELSE w.kind, required |-> "required" \in keys,
       default |-> "default" \in keys, checked |-> "check" \in keys,
       format |-> w.format,
       low |-> w.low, high |-> w.high, exact |-> w.exact, levels |-> w.levels, of |-> w.of]

-----------------------------------------------------------------------------
(* Schemas *)

GroupKeys == {"at_least_one", "mutually_exclusive", "equal_fields", "ordered", "dependent_required"}
NoOptions == [title |-> NoTitle, groups |-> [k \in {} |-> {}]]

Numeric(rule) == rule.kind \in {"number", "integer"}
Comparable(a, b) == (Numeric(a) /\ Numeric(b)) \/ a.format = b.format
Temporal(rule) == rule.kind = "string" /\ rule.format \in TemporalFormats

\* compile_group(), compile_dependent(): a group relates two fields or more.
Grouped(opts) == \A k \in DOMAIN opts.groups : \A g \in opts.groups[k] : Len(g) >= 2

\* check_groups()
GroupsFit(def) ==
  /\ \A k \in GroupKeys : \A g \in def.groups[k] : ToSet(g) \subseteq DOMAIN def.fields
  /\ \A g \in def.groups["ordered"] :
       /\ \A i \in DOMAIN g : Numeric(def.fields[g[i]]) \/ Temporal(def.fields[g[i]])
       /\ \A i \in 1..(Len(g) - 1) : Comparable(def.fields[g[i]], def.fields[g[i + 1]])

\* apply_options(): an option that is given replaces what was there.
Applied(def, opts) ==
  [def EXCEPT !.title = IF opts.title = NoTitle THEN @ ELSE opts.title,
              !.groups = [k \in GroupKeys |-> IF k \in DOMAIN opts.groups THEN opts.groups[k] ELSE @[k]]]

Keep(def) == Len(schemas) < MaxSchemas /\ schemas' = Append(schemas, def)

SchemasInit == schemas = <<>> /\ formats = {} /\ frozen = FALSE

\* nitr.validate.schema(fields, opts)
FreshSchema(fields) ==
  [fields |-> [n \in DOMAIN fields |-> Compiled(fields[n])], title |-> NoTitle, groups |-> [k \in GroupKeys |-> {}]]
NewSchema(fields, opts) ==
  /\ \A n \in DOMAIN fields : Compiles(fields[n])
  /\ Grouped(opts) /\ GroupsFit(Applied(FreshSchema(fields), opts))
  /\ Keep(Applied(FreshSchema(fields), opts))
  /\ UNCHANGED <<formats, frozen>>

\* Mutant: a derived schema keeps its groups unseen.
Derivable_always(def) == TRUE

\* derive(): the groups are looked at again.
Derivable(def) == GroupsFit(def)

Derive(i, fields) ==
  LET def == [schemas[i] EXCEPT !.fields = fields]
  IN  /\ Derivable(def)
      /\ Keep(def)
      /\ UNCHANGED <<formats, frozen>>

\* schema:partial()
PartialSchema(i) ==
  Derive(i, [n \in DOMAIN schemas[i].fields |-> [schemas[i].fields[n] EXCEPT !.required = FALSE, !.default = FALSE]])

\* schema:pick(names), and schema:omit(names) with the other names
PickFields(i, names) == names \subseteq DOMAIN schemas[i].fields /\ Derive(i, Restrict(schemas[i].fields, names))

\* schema:extend({ name = rule, other = false }): fields are added, replaced
\* and taken away by one call, and the groups are looked at once, at its end.
ExtendedFields(fields, x) ==
  [n \in (DOMAIN fields \ x.removed) \cup DOMAIN x.rules |-> IF n \in DOMAIN x.rules THEN Compiled(x.rules[n]) ELSE fields[n]]
ExtendSchema(i, x) ==
  /\ \A n \in DOMAIN x.rules : Compiles(x.rules[n])
  /\ Derive(i, ExtendedFields(schemas[i].fields, x))

\* schema:with(opts)
WithOptions(i, opts) ==
  /\ Grouped(opts) /\ GroupsFit(Applied(schemas[i], opts))
  /\ Keep(Applied(schemas[i], opts))
  /\ UNCHANGED <<formats, frozen>>

\* nitr.validate.format(): not over a built-in one, and once.
RegisterFormat(name) ==
  /\ name \notin formats \cup BuiltinFormats
  /\ formats' = formats \cup {name}
  /\ UNCHANGED <<schemas, frozen>>

SchemasNext ==
  \/ \E fields \in FieldTables, opts \in OptionTables : NewSchema(fields, opts)
  \/ \E i \in DOMAIN schemas :
       \/ PartialSchema(i)
       \/ \E names \in SUBSET ToSet(FieldOrder) : PickFields(i, names)
       \/ \E x \in Extensions : ExtendSchema(i, x)
       \/ \E opts \in OptionTables : WithOptions(i, opts)
  \/ RegisterFormat("plate")

SchemasSpec == SchemasInit /\ [][SchemasNext]_schemaVars

-----------------------------------------------------------------------------
(* Properties *)

\* Both are numbers, or texts in one temporal format.
ReadAlike(a, b) == (Numeric(a) /\ Numeric(b)) \/ (Temporal(a) /\ Temporal(b) /\ a.format = b.format)

\* However a schema came about, its rules between fields speak of fields it
\* has, and any two fields of an ordered group compare, though only neighbours
\* are looked at and sharing a format is enough: check_cross() never meets a
\* field it does not know, nor a date beside a number.
\* (check_groups, derive, apply_options)
GroupsStaySound ==
  \A i \in DOMAIN schemas : \A k \in GroupKeys : \A g \in schemas[i].groups[k] : \A m, n \in ToSet(g) :
    /\ {m, n} \subseteq DOMAIN schemas[i].fields
    /\ k = "ordered" => ReadAlike(schemas[i].fields[m], schemas[i].fields[n])
=============================================================================
