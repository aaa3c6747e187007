------------------------------ MODULE Validate ------------------------------
(***************************************************************************)
(* nitr.validate: schema:check() on one Lua state, crates/nitr-std/src/    *)
(* validate/engine/ and coerce.rs.                                         *)
(*                                                                         *)
(* A run walks the input without leaving Rust, collects the script checks  *)
(* the walk deferred, and then calls them one by one.  A script may pass,  *)
(* fail, raise, or call schema:check() itself, so runs form a stack.  A     *)
(* request may also end while a script waits: a timeout collects what its  *)
(* coroutine held, a client that hangs up leaves that to a later collection *)
(* (crates/nitr-core/src/runtime/mod.rs:587-606).                           *)
(* Texts, numbers and tables are abstracted to what the rules tell apart;  *)
(* messages and the order of the error list are left out.                  *)
(***************************************************************************)
EXTENDS Integers, Sequences, FiniteSets, SequencesExt, Functions

CONSTANTS
  Cases,         \* pairs of a schema and an input that runs are started with
  NestedCases,   \* those of them that a script starts a run with
  SchemaNamed,   \* the compiled schema of each name
  MaxNesting,    \* MAX_NESTING
  MaxRuns        \* bound: runs started from a handler

ASSUME ValidateConstants == MaxNesting \in Nat \ {0} /\ MaxRuns \in Nat /\ NestedCases \subseteq Cases

VARIABLES
  nesting,     \* Nesting: the depth counter of the Lua state
  frames,      \* the live runs, innermost last
  outcome,     \* what the run that ended last returned
  runs,        \* runs started from a handler so far
  stranded     \* guards on coroutines that were hung up on and not yet collected

validateVars == <<nesting, frames, outcome, runs, stranded>>

-----------------------------------------------------------------------------
(* Lua values.  A text is base + 10 if blanks surround it + 100 if it is in   *)
(* capitals, and is `base` characters long without them.  A float is counted *)
(* in halves.                                                                *)

Scalar(t, n) == [t |-> t, n |-> n, items |-> <<>>]
LuaNil == Scalar("nil", 0)
Str(n) == Scalar("string", n)
Whole(n) == Scalar("integer", n)
Float(halves) == Scalar("float", halves)
NotFinite == Scalar("nan", 0)
Bool(b) == Scalar("boolean", IF b THEN 1 ELSE 0)
KeyVal(key, idx, val) == [key |-> key, idx |-> idx, val |-> val]
Table(items) == [t |-> "table", n |-> 0, items |-> items]
List(vals) == Table([i \in DOMAIN vals |-> KeyVal("", i, vals[i])])

RawLen(v) == Len(SelectSeq(v.items, LAMBDA e : e.key = ""))
IsSequence(v) == \A e \in ToSet(v.items) : e.key = ""
Member(v, name) ==
  LET found == SelectSeq(v.items, LAMBDA e : e.key = name)
  IN  IF found = <<>> THEN LuaNil ELSE Last(found).val
\* Table::set
Put(v, key, idx, val) ==
  [v EXCEPT !.items = Append(SelectSeq(@, LAMBDA e : e.key # key \/ e.idx # idx), KeyVal(key, idx, val))]

Halves(v) == IF v.t = "integer" THEN 2 * v.n ELSE v.n
TextLen(v) == (v.n % 10) + ((v.n \div 10) % 10)
\* canonical(): 1 and 1.0 are the same value.
CanonicalForm(v) == IF v.t \in {"integer", "float"} THEN Float(Halves(v)) ELSE v
\* Literal::matches
Among(v, literals) == \E l \in literals : CanonicalForm(l) = CanonicalForm(v)

-----------------------------------------------------------------------------
(* Rules *)

Absent == -1

\* empty_rule(): every key of a rule, absent.
Bare(kind) ==
  [kind |-> kind, required |-> FALSE, default |-> LuaNil, one_of |-> {}, not_one_of |-> {},
   trim |-> FALSE, lower |-> FALSE, min_len |-> Absent, max_len |-> Absent, len |-> Absent, format |-> {}, custom |-> FALSE,
   min |-> Absent, max |-> Absent, exclusive_min |-> Absent, exclusive_max |-> Absent, multiple_of |-> Absent,
   min_items |-> Absent, max_items |-> Absent, unique |-> FALSE, contains |-> {}, items |-> "none",
   fields |-> "none", keys |-> "none", min_keys |-> Absent, max_keys |-> Absent,
   check |-> FALSE, transform |-> FALSE]

\* A compiled schema without options.
BareSchema(fields) ==
  [fields |-> fields, strict |-> FALSE, at_least_one |-> <<>>, exclusive |-> <<>>, dependent |-> <<>>, equal |-> <<>>,
   ordered |-> <<>>, checks |-> 0]

RuleNamed(schema, name) == LET r == SelectSeq(schema.fields, LAMBDA f : f.name = name) IN r[1].rule
DeclaredFields(schema) == {schema.fields[i].name : i \in DOMAIN schema.fields}

-----------------------------------------------------------------------------
(* check_value(): one value against one rule *)

\* The value's own type, before the rules.
HasKind(kind, v) ==
  CASE kind = "string" -> v.t = "string"
    [] kind = "integer" -> v.t = "integer" \/ (v.t = "float" /\ v.n % 2 = 0)
    [] kind = "number" -> v.t \in {"integer", "float"}
    [] kind = "boolean" -> v.t = "boolean"
    [] kind = "any" -> v.t # "nan"
    [] OTHER -> v.t = "table"

\* `trim` and `case`.
Transformed(rule, v) ==
  IF rule.kind # "string" THEN v
  ELSE LET a == IF rule.trim THEN v.n - 10 * ((v.n \div 10) % 10) ELSE v.n
       IN  Str(IF rule.lower THEN a % 100 ELSE a)

Given(bound) == bound # Absent

\* The rules of a scalar in the order they are applied, each with whether it
\* holds of the transformed value.  A format stands for every rule that names a
\* set of texts (starts_with, ends_with, contains, does_not_contain, after,
\* before), multiple_of for decimals.
ScalarTests(rule, v, w) ==
  << <<"type", HasKind(rule.kind, v)>>,
     <<"one_of", rule.one_of # {} => Among(w, rule.one_of)>>,
     <<"not_one_of", ~Among(w, rule.not_one_of)>>,
     <<"min_len", Given(rule.min_len) => TextLen(w) >= rule.min_len>>,
     <<"max_len", Given(rule.max_len) => TextLen(w) <= rule.max_len>>,
     <<"len", Given(rule.len) => TextLen(w) = rule.len>>,
     <<"format", rule.format # {} => w.n \in rule.format>>,
     <<"min", Given(rule.min) => Halves(w) >= 2 * rule.min>>,
     <<"max", Given(rule.max) => Halves(w) <= 2 * rule.max>>,
     <<"exclusive_min", Given(rule.exclusive_min) => Halves(w) > 2 * rule.exclusive_min>>,
     <<"exclusive_max", Given(rule.exclusive_max) => Halves(w) < 2 * rule.exclusive_max>>,
     <<"multiple_of", Given(rule.multiple_of) => Halves(w) % (2 * rule.multiple_of) = 0>> >>

FirstBroken(tests) ==
  LET broken == SelectSeq(tests, LAMBDA x : ~x[2]) IN IF broken = <<>> THEN "" ELSE Head(broken)[1]

\* What a walk leaves: whether the value passed, what goes to the output, the
\* errors and the deferred script checks.
Passed(val, errs, pend) == [ok |-> TRUE, val |-> val, errs |-> errs, pend |-> pend]
Broken(errs, pend) == [ok |-> FALSE, val |-> LuaNil, errs |-> errs, pend |-> pend]
Failure(path, rule) == [path |-> path, rule |-> rule]

\* Script checks of a value that passed: its custom format, then `check`, then
\* `transform`.  A place is where the value stands in the output.
DeferredChecks(rule, path, place, val) ==
  LET one(what) == [what |-> what, path |-> path, place |-> place, kind |-> rule.kind, val |-> val]
  IN  (IF rule.custom THEN <<one("format")>> ELSE <<>>)
      \o (IF rule.check THEN <<one("check")>> ELSE <<>>)
      \o (IF rule.transform THEN <<one("transform")>> ELSE <<>>)

ScalarVerdict(rule, path, place, w, broken) ==
  IF broken # "" THEN Broken(<<Failure(path, broken)>>, <<>>) ELSE Passed(w, <<>>, DeferredChecks(rule, path, place, w))

ScalarWalk(rule, v, path, place) ==
  ScalarVerdict(rule, path, place, Transformed(rule, v),
                IF HasKind(rule.kind, v) THEN FirstBroken(ScalarTests(rule, v, Transformed(rule, v))) ELSE "type")

\* A place in a table that is thrown away: the key of a map.
Scratch == <<>>

NothingYet == [stop |-> FALSE, ok |-> TRUE, seen |-> {}, out |-> Table(<<>>), errs |-> <<>>, pend |-> <<>>]
\* The walk so far and what one more value left, put at its key when it passed.
Gathered(acc, w, key, idx) ==
  [acc EXCEPT !.ok = @ /\ w.ok, !.errs = @ \o w.errs, !.pend = @ \o w.pend,
              !.out = IF w.ok THEN Put(@, key, idx, w.val) ELSE @]
WithErrors(acc, errs) == [acc EXCEPT !.ok = FALSE, !.errs = @ \o errs]

\* The items of an array, until a duplicate ends the walk.
ItemStep(rule, acc, e, w) ==
  IF acc.stop THEN acc
  ELSE IF rule.unique /\ CanonicalForm(e.val) \in acc.seen THEN [acc EXCEPT !.stop = TRUE]
  ELSE Gathered([acc EXCEPT !.seen = @ \cup {CanonicalForm(e.val)}], w, "", e.idx)

ItemsWalk(rule, v, path) ==
  FoldLeft(LAMBDA acc, e : ItemStep(rule, acc, e, ScalarWalk(rule.items, e.val, Append(path, <<"", e.idx>>), Append(path, <<"", e.idx>>))),
           NothingYet, v.items)

ArrayTests(rule, v, n) ==
  << <<"type", v.t = "table" /\ IsSequence(v)>>,
     <<"min_items", Given(rule.min_items) => n >= rule.min_items>>,
     <<"max_items", Given(rule.max_items) => n <= rule.max_items>> >>

ArrayVerdict(rule, path, before, walked) ==
  IF before # "" THEN Broken(<<Failure(path, before)>>, <<>>)
  ELSE IF walked.stop THEN Broken(Append(walked.errs, Failure(path, "unique")), walked.pend)
  ELSE IF ~walked.ok THEN Broken(walked.errs, walked.pend)
  ELSE IF \E l \in rule.contains : \A e \in ToSet(walked.out.items) : ~Among(e.val, {l})
       THEN Broken(<<Failure(path, "contains")>>, walked.pend)
  ELSE Passed(walked.out, <<>>, walked.pend \o DeferredChecks(rule, path, path, walked.out))

ArrayWalk(rule, v, path) ==
  ArrayVerdict(rule, path, FirstBroken(ArrayTests(rule, v, RawLen(v))), ItemsWalk(rule, v, path))

\* The entries of a map: key "k" and the key's text.  Keys are checked before
\* their values, and may come out changed.
ValueStep(rule, path, acc, e, k) ==
  IF ~k.ok THEN WithErrors(acc, k.errs)
  ELSE Gathered([acc EXCEPT !.pend = @ \o k.pend],
              ScalarWalk(rule.items, e.val, Append(path, <<e.key, e.idx>>), Append(path, <<e.key, k.val.n>>)), e.key, k.val.n)

EntryStep(rule, path, acc, e) ==
  IF e.key = "" THEN WithErrors(acc, <<Failure(path, "keys")>>)
  ELSE ValueStep(rule, path, acc, e, ScalarWalk(rule.keys, Str(e.idx), Append(path, <<e.key, e.idx>>), Scratch))

EntriesWalk(rule, v, path) == FoldLeft(LAMBDA acc, e : EntryStep(rule, path, acc, e), NothingYet, v.items)

MapTests(rule, v, n) ==
  << <<"type", v.t = "table">>,
     <<"min_keys", Given(rule.min_keys) => n >= rule.min_keys>>,
     <<"max_keys", Given(rule.max_keys) => n <= rule.max_keys>> >>

MapVerdict(rule, path, before, walked) ==
  IF before # "" THEN Broken(<<Failure(path, before)>>, <<>>)
  ELSE IF ~walked.ok THEN Broken(walked.errs, walked.pend)
  ELSE Passed(walked.out, <<>>, walked.pend \o DeferredChecks(rule, path, path, walked.out))

MapWalk(rule, v, path) ==
  MapVerdict(rule, path, FirstBroken(MapTests(rule, v, Len(v.items))), EntriesWalk(rule, v, path))

-----------------------------------------------------------------------------
(* check_cross(): the rules between fields, on the output *)

Present(out, name) == Member(out, name) # LuaNil

AtLeastOne(out, group) == \E n \in ToSet(group) : Present(out, n)
MutuallyExclusive(out, group) == Cardinality({n \in ToSet(group) : Present(out, n)}) <= 1
\* The group carries the field that triggers it first.
DependentRequired(out, group) == Present(out, Head(group)) => \A n \in ToSet(Tail(group)) : Present(out, n)
EqualFields(out, group) ==
  LET there == SelectSeq(group, LAMBDA n : Present(out, n))
  IN  \A i \in DOMAIN there : CanonicalForm(Member(out, there[i])) = CanonicalForm(Member(out, there[1]))
\* Each present field is below the next present one.
Ordered(out, group) ==
  LET there == SelectSeq(group, LAMBDA n : Present(out, n))
  IN  \A i \in 1..(Len(there) - 1) : Halves(Member(out, there[i])) < Halves(Member(out, there[i + 1]))

CrossErrors(schema, out, path) ==
  LET errs(groups, Holds(_, _), rule) ==
        LET bad == SelectSeq(groups, LAMBDA g : ~Holds(out, g))
        IN  [i \in DOMAIN bad |-> Failure(Append(path, <<Last(bad[i]), 0>>), rule)]
  IN  errs(schema.at_least_one, AtLeastOne, "at_least_one")
      \o errs(schema.exclusive, MutuallyExclusive, "mutually_exclusive")
      \o errs(schema.dependent, DependentRequired, "dependent_required")
      \o errs(schema.equal, EqualFields, "equal_fields")
      \o errs(schema.ordered, Ordered, "ordered")

-----------------------------------------------------------------------------
(* check_fields() *)

\* Mutant: an undeclared field is copied to the output when nothing forbids it.
Undeclared_kept(schema, input) == input.items

\* What of the input reaches the output without a rule: nothing.
Undeclared(schema, input) == <<>>

UnknownErrors(schema, input, path) ==
  LET extra == SelectSeq(input.items, LAMBDA e : e.key # "" /\ e.key \notin DeclaredFields(schema))
  IN  [i \in DOMAIN extra |-> Failure(Append(path, <<extra[i].key, 0>>), "unknown")]

FieldValue(input, f) == IF Member(input, f.name) = LuaNil THEN f.rule.default ELSE Member(input, f.name)

\* Walk is check_value() for the kinds the level may hold.
FieldStep(acc, f, v, at, Walk(_, _, _, _)) ==
  IF v # LuaNil THEN Gathered(acc, Walk(f.rule, v, at, at), f.name, 0)
  ELSE IF f.rule.required THEN WithErrors(acc, <<Failure(at, "required")>>) ELSE acc

SchemaChecks(schema, path, out) ==
  [i \in 1..schema.checks |-> [what |-> "schema", path |-> path, place |-> path, kind |-> "table", val |-> out]]

\* Cross-field rules and the schema's own checks are for fields that all passed.
FieldsVerdict(schema, path, walked, unknown, crossed) ==
  [ok |-> walked.ok /\ unknown = <<>> /\ crossed = <<>>, val |-> walked.out, errs |-> walked.errs \o unknown \o crossed,
   pend |-> walked.pend \o (IF walked.ok /\ unknown = <<>> /\ crossed = <<>> THEN SchemaChecks(schema, path, walked.out) ELSE <<>>)]
CrossWalk(schema, path, walked, unknown) ==
  FieldsVerdict(schema, path, walked, unknown,
                IF walked.ok /\ unknown = <<>> THEN CrossErrors(schema, walked.out, path) ELSE <<>>)

FieldsWalk(schema, strict, input, path, Walk(_, _, _, _)) ==
  CrossWalk(schema, path,
            FoldLeft(LAMBDA acc, f : FieldStep(acc, f, FieldValue(input, f), Append(path, <<f.name, 0>>), Walk),
                     [NothingYet EXCEPT !.out = Table(Undeclared(schema, input))], schema.fields),
            IF strict \/ schema.strict THEN UnknownErrors(schema, input, path) ELSE <<>>)

NestedVerdict(rule, path, w) ==
  IF ~w.ok THEN Broken(w.errs, w.pend) ELSE Passed(w.val, <<>>, w.pend \o DeferredChecks(rule, path, path, w.val))
\* A nested table is read as strictly as the run, or as its own schema.
NestedWalk(strict, rule, v, path) ==
  IF v.t # "table" \/ RawLen(v) > 0 THEN Broken(<<Failure(path, "type")>>, <<>>)
  ELSE NestedVerdict(rule, path, FieldsWalk(rule.fields, strict, v, path, ScalarWalk))

CheckValue(strict, rule, v, path, place) ==
  CASE rule.kind = "array" -> ArrayWalk(rule, v, path)
    [] rule.kind = "map" -> MapWalk(rule, v, path)
    [] rule.kind = "table" -> NestedWalk(strict, rule, v, path)
    [] OTHER -> ScalarWalk(rule, v, path, place)

-----------------------------------------------------------------------------
(* Text input: coerce.rs *)

\* A text of a query or form: how it is spelled, and the number it means.
\* parse_integer() takes an integer's own spelling only, parse_number() leading
\* zeros and a fraction as well, parse_boolean() 1, 0, true, false and on.
Coerced(kind, x) ==
  CASE kind = "integer" /\ x.form = "plain" -> Whole(x.n)
    [] kind = "number" /\ x.form \in {"plain", "zeros"} -> Whole(x.n)
    [] kind = "number" /\ x.form = "half" -> Float(2 * x.n + 1)
    [] kind = "boolean" /\ x.form = "plain" /\ x.n \in {0, 1} -> Bool(x.n = 1)
    [] kind = "boolean" /\ x.form = "word" -> Bool(x.n = 1)
    [] OTHER -> Str(x.n)

\* Mutant: a blank counts as absent for strings too.
BlankIsAbsent_always(rule, x) == x.form = "blank"

BlankIsAbsent(rule, x) == rule.kind # "string" /\ x.form = "blank"

\* build_table(): repeated names collect for an array, and otherwise the last
\* one counts, even when it is blank and the ones before it are not.
CoercedList(rule, kept) == List([i \in DOMAIN kept |-> Coerced(rule.kind, kept[i].text)])
BuiltScalar(rule, x) == IF BlankIsAbsent(rule, x) THEN LuaNil ELSE Coerced(rule.kind, x)
BuiltField(rule, xs) ==
  IF rule.kind = "array" THEN CoercedList(rule.items, SelectSeq(xs, LAMBDA p : ~BlankIsAbsent(rule.items, p.text)))
  ELSE BuiltScalar(rule, Last(xs).text)
BuiltValue(schema, name, xs) ==
  IF name \in DeclaredFields(schema) THEN BuiltField(RuleNamed(schema, name), xs) ELSE Str(Last(xs).text.n)
BuildTable(schema, pairs) ==
  Table(SelectSeq(SetToSeq({KeyVal(n, 0, BuiltValue(schema, n, SelectSeq(pairs, LAMBDA p : p.name = n))) :
                              n \in {pairs[i].name : i \in DOMAIN pairs}}),
                  LAMBDA e : e.val # LuaNil))

-----------------------------------------------------------------------------
(* run(): the walk, then the scripts *)

InputOf(c) == IF c.how = "text" THEN BuildTable(SchemaNamed[c.schema], c.pairs) ELSE c.input

WalkedInput(c, input) ==
  IF input.t # "table"
  THEN [ok |-> FALSE, val |-> Table(<<>>), errs |-> <<Failure(<<>>, "body")>>, pend |-> <<>>]
  ELSE FieldsWalk(SchemaNamed[c.schema], c.strict, input, <<>>,
                  LAMBDA rule, v, path, place : CheckValue(c.strict, rule, v, path, place))
Walked(c) == WalkedInput(c, InputOf(c))

\* The run just after its walk.  seen is history: the script calls it made,
\* with the number of errors there were.
FrameOf(c, w) ==
  [case |-> c, out |-> w.val, errs |-> w.errs, failed |-> {}, seen |-> {}, raised |-> FALSE,
   scripts |-> SelectSeq(w.pend, LAMBDA p : p.what # "schema"),
   checks |-> SelectSeq(w.pend, LAMBDA p : p.what = "schema")]
Frame(c) == FrameOf(c, Walked(c))

NoOutcome == [case |-> "none"]

TooDeep == [case |-> "refused"]

ValidateInit == nesting = 0 /\ frames = <<>> /\ outcome = NoOutcome /\ runs = 0 /\ stranded = 0

\* enter() refuses a run that is nested too deeply, and counts it otherwise.
Enter(c) ==
  /\ nesting < MaxNesting
  /\ nesting' = nesting + 1
  /\ frames' = Append(frames, Frame(c))
  /\ outcome' = NoOutcome
  /\ UNCHANGED stranded

\* Mutant: only a run that returns a verdict gives its level back.
Leave_onVerdict(raised) == IF raised THEN nesting ELSE nesting - 1

\* NestingGuard: the level is given back however the run ends.
Leave(raised) == nesting - 1

\* A handler, or the server for a route's input, starts a run.
StartRun(c) ==
  /\ frames = <<>> /\ runs < MaxRuns
  /\ Enter(c)
  /\ runs' = runs + 1

\* The error enter() gives a handler.  One it gives a script is that script's to
\* catch, or the script raises.
RefuseRun ==
  /\ frames = <<>> /\ runs < MaxRuns /\ nesting >= MaxNesting
  /\ outcome' = TooDeep
  /\ runs' = runs + 1
  /\ UNCHANGED <<nesting, frames, stranded>>

Top == Last(frames)
SetTop(f) == frames' = Append(Front(frames), f)

\* run_field_checks(): transforms of a path whose checks failed are skipped.
Skippable(f) == f.scripts # <<>> /\ Head(f.scripts).what = "transform" /\ Head(f.scripts).path \in f.failed

\* Mutant: schema checks run whatever the fields said.
SchemaTurn_always(f) == f.scripts = <<>> /\ f.checks # <<>>

\* run_schema_checks(), only reached when nothing failed before it.
SchemaTurn(f) == f.scripts = <<>> /\ f.checks # <<>> /\ (f.errs = <<>> \/ \E p \in f.seen : p.what = "schema")

Script(f) == IF f.scripts # <<>> THEN Head(f.scripts) ELSE Head(f.checks)
MayCall(f) == (f.scripts # <<>> /\ ~Skippable(f)) \/ SchemaTurn(f)
Called(f) ==
  LET s == Script(f)
  IN  [f EXCEPT !.seen = @ \cup {[what |-> s.what, path |-> s.path, errs |-> Len(f.errs), failed |-> s.path \in f.failed]},
                !.scripts = IF f.scripts # <<>> THEN Tail(@) ELSE @,
                !.checks = IF f.scripts # <<>> THEN @ ELSE Tail(@)]

SkipTransform ==
  /\ frames # <<>> /\ Skippable(Top)
  /\ SetTop([Top EXCEPT !.scripts = Tail(@)])
  /\ UNCHANGED <<nesting, outcome, runs, stranded>>

ScriptPasses ==
  /\ frames # <<>> /\ MayCall(Top) /\ Script(Top).what # "transform"
  /\ SetTop(Called(Top))
  /\ UNCHANGED <<nesting, outcome, runs, stranded>>

\* The error says `check` for a field's check and for a schema's; here the rule
\* also says which of the two it was.
ScriptFails ==
  /\ frames # <<>> /\ MayCall(Top) /\ Script(Top).what # "transform"
  /\ LET s == Script(Top)
     IN  SetTop([Called(Top) EXCEPT !.errs = Append(@, Failure(s.path, s.what)),
                                    !.failed = IF s.what = "schema" THEN @ ELSE @ \cup {s.path}])
  /\ UNCHANGED <<nesting, outcome, runs, stranded>>

\* The output with `val` at a place, if the table around it is still there.
Replaced(out, place, val) ==
  CASE place = Scratch -> out
    [] Len(place) = 1 -> IF Present(out, place[1][1]) THEN Put(out, place[1][1], 0, val) ELSE out
    [] OTHER ->
         LET inner == Member(out, place[1][1])
         IN  IF inner = LuaNil THEN out ELSE Put(out, place[1][1], 0, Put(inner, place[2][1], place[2][2], val))

\* A transform's answer of the rule's own kind; the rules are not applied again.
Replacement(kind) ==
  CASE kind = "string" -> Str(9)
    [] kind \in {"integer", "number"} -> Whole(9)
    [] kind = "boolean" -> Bool(FALSE)
    [] OTHER -> Table(<<>>)

TransformReturns ==
  /\ frames # <<>> /\ MayCall(Top) /\ Script(Top).what = "transform"
  /\ LET s == Script(Top) IN SetTop([Called(Top) EXCEPT !.out = Replaced(@, s.place, Replacement(s.kind))])
  /\ UNCHANGED <<nesting, outcome, runs, stranded>>

\* A script calls schema:check() and waits for its verdict.
ScriptNests(c) ==
  /\ frames # <<>> /\ MayCall(Top)
  /\ Enter(c)
  /\ UNCHANGED runs

\* The innermost run ends and its caller goes on: with a verdict, or with an
\* error of a script, which the caller may catch.
EndRun(f) ==
  /\ frames' = Front(frames)
  /\ nesting' = Leave(f.raised)
  /\ outcome' = [case |-> f.case, errs |-> ToSet(f.errs), out |-> f.out, seen |-> f.seen, raised |-> f.raised]
  /\ UNCHANGED <<runs, stranded>>

ScriptRaises == frames # <<>> /\ MayCall(Top) /\ EndRun([Top EXCEPT !.raised = TRUE])
RunEnds == frames # <<>> /\ Top.scripts = <<>> /\ ~SchemaTurn(Top) /\ EndRun(Top)

\* The request ends while a script is waited for.  After a timeout the runtime
\* drops the coroutine and collects: every guard gives its level back.
CutRun ==
  /\ frames # <<>> /\ MayCall(Top)
  /\ frames' = <<>> /\ nesting' = nesting - Len(frames) /\ outcome' = NoOutcome
  /\ UNCHANGED <<runs, stranded>>

\* A client hangs up: the guards stay with the suspended coroutine.
HangUpRun ==
  /\ frames # <<>> /\ MayCall(Top)
  /\ frames' = <<>> /\ outcome' = NoOutcome
  /\ stranded' = stranded + Len(frames)
  /\ UNCHANGED <<nesting, runs>>

\* The collector comes to one of them.
CollectGuard ==
  /\ stranded > 0
  /\ stranded' = stranded - 1 /\ nesting' = nesting - 1
  /\ UNCHANGED <<frames, outcome, runs>>

ValidateNext ==
  \/ \E c \in Cases : StartRun(c)
  \/ RefuseRun \/ CutRun \/ HangUpRun \/ CollectGuard
  \/ \E c \in NestedCases : ScriptNests(c)
  \/ SkipTransform \/ ScriptPasses \/ ScriptFails \/ TransformReturns \/ ScriptRaises \/ RunEnds

ValidateSpec == ValidateInit /\ [][ValidateNext]_validateVars

-----------------------------------------------------------------------------
(* Properties *)

\* What a rule asks of a value, said once and not as an order of tests.
AllHold(tests) == \A i \in DOMAIN tests : tests[i][2]
Admits(rule, v) == HasKind(rule.kind, v) /\ AllHold(ScalarTests(rule, v, Transformed(rule, v)))

AdmitsAny(strict, rule, v) ==
  CASE rule.kind = "array" ->
         /\ v.t = "table" /\ IsSequence(v) /\ \A e \in ToSet(v.items) : Admits(rule.items, e.val)
         /\ Given(rule.min_items) => Len(v.items) >= rule.min_items
         /\ Given(rule.max_items) => Len(v.items) <= rule.max_items
         /\ rule.unique => \A i, j \in DOMAIN v.items : i # j => CanonicalForm(v.items[i].val) # CanonicalForm(v.items[j].val)
         /\ \A l \in rule.contains : \E e \in ToSet(v.items) : Among(Transformed(rule.items, e.val), {l})
    [] rule.kind = "map" ->
         /\ v.t = "table"
         /\ Given(rule.min_keys) => Len(v.items) >= rule.min_keys
         /\ Given(rule.max_keys) => Len(v.items) <= rule.max_keys
         /\ \A e \in ToSet(v.items) : e.key # "" /\ Admits(rule.keys, Str(e.idx)) /\ Admits(rule.items, e.val)
    [] rule.kind = "table" ->
         /\ v.t = "table" /\ RawLen(v) = 0
         /\ \A i \in DOMAIN rule.fields.fields :
              LET f == rule.fields.fields[i]
              IN  IF FieldValue(v, f) = LuaNil THEN ~f.rule.required ELSE Admits(f.rule, FieldValue(v, f))
         /\ strict \/ rule.fields.strict => \A e \in ToSet(v.items) : e.key \in DeclaredFields(rule.fields)
    [] OTHER -> Admits(rule, v)

\* The input a schema is meant to accept, scripts aside.
Wanted(schema, strict, input) ==
  /\ input.t = "table"
  /\ \A i \in DOMAIN schema.fields :
       LET f == schema.fields[i]
       IN  IF FieldValue(input, f) = LuaNil THEN ~f.rule.required ELSE AdmitsAny(strict, f.rule, FieldValue(input, f))
  /\ strict \/ schema.strict => \A e \in ToSet(input.items) : e.key = "" \/ e.key \in DeclaredFields(schema)

Misfits(schema, strict, input) ==
  {f \in ToSet(schema.fields) : Member(input, f.name) # LuaNil /\ ~AdmitsAny(strict, f.rule, Member(input, f.name))}

Fair(o, schema, input, rust, wanted) ==
  /\ o.errs = {} => wanted /\ \A e \in ToSet(o.out.items) : e.key \in DeclaredFields(schema)
  /\ ~wanted => o.errs # {}
  /\ (wanted /\ CrossErrors(schema, rust.val, <<>>) = <<>>) => rust.errs = <<>>
  /\ input.t = "table" => \A f \in Misfits(schema, o.case.strict, input) : \E e \in o.errs : e.path # <<>> /\ e.path[1][1] = f.name
FairTo(o, schema, input) == Fair(o, schema, input, Walked(o.case), Wanted(schema, o.case.strict, input))

\* schema:check() returns data only for the inputs the schema means and errors for
\* all others, whatever the order of its tests and whichever scripts ran, nested
\* or not, after requests that were cut or hung up on; only declared fields come
\* out, in nested tables too where the run or the table is strict; and every
\* field that breaks its rule is named.  (check_fields, check_value, run, build_table)
VerdictIsTheSchemas ==
  (outcome \notin {NoOutcome, TooDeep} /\ ~outcome.raised) => FairTo(outcome, SchemaNamed[outcome.case.schema], InputOf(outcome.case))

\* A schema's own check is called only when no field failed, by rule or by
\* script, and a transform only for a field whose checks passed.  A level of
\* nesting is held exactly while a run is alive, or while the coroutine of one
\* that was hung up on waits to be collected: only then is a handler's own run
\* refused, where engine/mod.rs:490 takes the counter for exact.
\* (run_field_checks, run, NestingGuard)
ScriptsComeLast ==
  /\ \A i \in DOMAIN frames : \A s \in frames[i].seen :
       /\ s.what = "transform" => ~s.failed
       /\ s.what = "schema" => \A e \in ToSet(frames[i].errs) : e.rule = "schema"
  /\ nesting = Len(frames) + stranded

\* What the last text given for a name must have become.
Reads(kind, text, got) ==
  /\ kind \in {"integer", "number"} /\ text.form = "plain" => got = Whole(text.n)
  /\ kind = "string" => got = Str(text.n)
  /\ kind # "string" /\ text.form = "blank" => got = LuaNil
TextsRead(schema, pairs, built) ==
  \A i \in DOMAIN pairs :
    (pairs[i].name \in DeclaredFields(schema) /\ \A j \in (i + 1)..Len(pairs) : pairs[j].name # pairs[i].name) =>
      \/ RuleNamed(schema, pairs[i].name).kind = "array"
      \/ Reads(RuleNamed(schema, pairs[i].name).kind, pairs[i].text, Member(built, pairs[i].name))

\* A text that is a value's own spelling means that value, and a blank one is
\* an empty string for a string and nothing for the other kinds.  (coerce.rs)
TextsMeanTheirValues ==
  (outcome \notin {NoOutcome, TooDeep} /\ outcome.case.how = "text") =>
    TextsRead(SchemaNamed[outcome.case.schema], outcome.case.pairs, InputOf(outcome.case))

\* The engine's verdict is the schema's, from a Lua value and from text, whatever
\* scripts run in the middle of it.
ValidationHolds == VerdictIsTheSchemas /\ TextsMeanTheirValues /\ ScriptsComeLast
=============================================================================
