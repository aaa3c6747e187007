-------------------------------- MODULE Json --------------------------------
(***************************************************************************)
(* Lua values written as JSON and read back: the serializer of             *)
(* crates/nitr-std/src/bounded.rs, which counts depth and nodes while it   *)
(* writes, json.rs around it, and the walking guard of utils.rs that       *)
(* stands before the writers that do not count (templates, logs).  A       *)
(* script's tables are a graph: shared, cyclic, with holes, with keys that *)
(* JSON has no name for.  A document is the sequence of its tokens.        *)
(***************************************************************************)
EXTENDS Integers, Sequences, FiniteSets, FiniteSetsExt, SequencesExt

CONSTANTS
  Graphs,         \* the tables scripts build: number -> [marked, items]; the first is encoded
  MaxJsonDepth,   \* the deepest nesting a value may have
  MaxJsonNodes    \* the most values one pass may visit

ASSUME JsonConstants == MaxJsonDepth \in Nat \ {0} /\ MaxJsonNodes \in Nat

VARIABLES
  graph,          \* the tables of the value being written
  walk,           \* the pass over it
  document,       \* the finished document
  decoded,        \* what each reading of it gave
  stage           \* "build", "encode", "refused", "written", "read", "unread"

jsonVars == <<graph, walk, document, decoded, stage>>

-----------------------------------------------------------------------------
(* Lua values *)

Val(kind, n) == [kind |-> kind, n |-> n]
Missing == Val("nil", 0)
Nullish == {"nil", "null", "nan"}

\* A value under a key; a hole is nil.
ItemAt(g, t, k) == IF k \in DOMAIN g[t].items THEN g[t].items[k] ELSE Missing

\* Integers, floats and booleans become names by their text, here a number: the integer 2
\* and the string "2" share one.
KeyText(k) == CASE k.kind = "half" -> 100 + k.n [] k.kind = "bool" -> 200 + k.n [] OTHER -> k.n

IsIndex(k) == k.kind = "int" /\ k.n >= 1
Indexes(g, t) == {k.n : k \in {x \in DOMAIN g[t].items : IsIndex(x)}}

\* Lua's `#` may be any border of a table with holes.
Borders(g, t) ==
  {n \in {0} \cup Indexes(g, t) : n + 1 \notin Indexes(g, t)}

-----------------------------------------------------------------------------
(* The bounds of one pass *)

\* A pass starts with its whole budget; the writers behind the guard have none of their own.
NewWalk(counts) == [counts |-> counts, path |-> <<>>, depth |-> 0, spent |-> 0, doc |-> <<>>, err |-> "none"]

Refuse(w, why) == IF w.err = "none" THEN [w EXCEPT !.err = why] ELSE w

\* Every value written is one node, names included.
Visit(w) ==
  IF w.counts /\ w.spent = MaxJsonNodes THEN Refuse(w, "nodes") ELSE [w EXCEPT !.spent = @ + 1]

EnterLevel(w) ==
  IF w.counts /\ w.depth = MaxJsonDepth THEN Refuse(w, "depth") ELSE [w EXCEPT !.depth = @ + 1]

\* Mutant: a finished list or map stays counted as open.
LeaveLevel_mutKept(w) == w

LeaveLevel(w) == [w EXCEPT !.depth = IF @ > 0 THEN @ - 1 ELSE 0]

Emit(w, kind, of) ==
  IF w.err = "none" THEN [w EXCEPT !.doc = Append(@, [kind |-> kind, of |-> of])] ELSE w

-----------------------------------------------------------------------------
(* Writing a value *)

\* What has no JSON spelling is null; a string of bytes is refused after it was charged.
WriteScalar(w, v) ==
  CASE v.kind = "bytes" -> Refuse(Visit(w), "utf8")
    [] v.kind = "function" -> Refuse(w, "value")
    [] v.kind \in Nullish -> Emit(Visit(w), "leaf", <<"null", 0>>)
    [] OTHER -> Emit(Visit(w), "leaf", <<v.kind, v.n>>)

\* A list may have as many holes as items; a sparser one is a map.
\* Mutant: a list is allowed two holes for each item.
IsDense_mutThrice(count, highest) == highest <= 3 * count

IsDense(count, highest) == highest <= 2 * count

\* Mutant: a table with a list part is a list, whatever else it holds.
ListShape_mutUnchecked(g, t) ==
  IF IsDense(Cardinality(Indexes(g, t)), Max(Indexes(g, t))) THEN "list" ELSE "map"

ListShape(g, t) ==
  IF \E k \in DOMAIN g[t].items : ~IsIndex(k) THEN "mixed"
  ELSE IF IsDense(Cardinality(Indexes(g, t)), Max(Indexes(g, t))) THEN "list"
  ELSE "map"

\* An empty table is a map unless it is marked.
TableShapes(g, t) ==
  {CASE n > 0 -> ListShape(g, t)
     [] n = 0 /\ DOMAIN g[t].items = {} /\ g[t].marked -> "list"
     [] OTHER -> "map" : n \in Borders(g, t)}

ListPlaces(g, t) == {Val("int", i) : i \in 1 .. Max({0} \cup Indexes(g, t))}

Opened(g, w, t, shape) ==
  IF shape = "mixed" THEN Refuse(w, "mixed")
  ELSE [Emit(EnterLevel(Visit(w)), shape, <<"", 0>>) EXCEPT
          !.path = Append(@, [table |-> t, shape |-> shape,
                              owed |-> Missing, left |-> IF shape = "list" THEN ListPlaces(g, t) ELSE DOMAIN g[t].items])]

\* The tables being written are known by identity: one that comes round is refused.
OpenTable(g, w, t) ==
  IF \E i \in DOMAIN w.path : w.path[i].table = t THEN {Refuse(w, "recursive")}
  ELSE {Opened(g, w, t, s) : s \in TableShapes(g, t)}

WriteValue(g, w, v) == IF v.kind = "table" THEN OpenTable(g, w, v.n) ELSE {WriteScalar(w, v)}

\* A name goes through the same bounds.  What is no name is refused by the map of a
\* JSON document; a template's context takes it, a table as well.
WriteName(g, w, k) ==
  CASE k.kind = "table" /\ w.counts -> {Refuse(x, "key") : x \in OpenTable(g, w, k.n)}
    [] k.kind = "table" /\ ~w.counts -> OpenTable(g, w, k.n)
    [] k.kind = "inf" /\ w.counts -> {Refuse(Visit(w), "key")}
    [] k.kind = "bytes" -> {Refuse(Visit(w), "utf8")}
    [] OTHER -> {Emit(Visit(w), "name", <<"text", KeyText(k)>>)}

WriteEntry(g, w, k) ==
  UNION {IF x.err = "none" /\ Len(x.path) = Len(w.path)
         THEN WriteValue(g, x, ItemAt(g, Last(w.path).table, k)) ELSE {x} : x \in WriteName(g, w, k)}

\* A map is walked in hash order, which is any order; a list in its own.  What a table
\* used as a key leads to is owed until that table is written.
Turns(frame) ==
  IF frame.shape = "map" THEN frame.left ELSE {k \in frame.left : \A o \in frame.left : k.n <= o.n}

WithoutTurn(w, k) ==
  [w EXCEPT !.path[Len(w.path)].left = @ \ {k},
            !.path[Len(w.path)].owed = IF k.kind = "table" THEN k ELSE @]

-----------------------------------------------------------------------------
(* Reading a document *)

\* The reader's place in the value it builds: the tables made so far, those still open, and
\* the name that waits for its value.
Reader == [made |-> <<>>, open |-> <<>>, name |-> Missing, err |-> "none"]

\* A list item takes the next place, an entry its name: the last of two equal names stays.
PlaceOf(r) ==
  IF r.made[Last(r.open)].marked THEN Val("int", Cardinality(DOMAIN r.made[Last(r.open)].items) + 1)
  ELSE r.name

Store(r, v) ==
  IF r.open = <<>> THEN r
  ELSE [r EXCEPT !.made[Last(r.open)].items =
          [k \in DOMAIN @ \cup {PlaceOf(r)} |-> IF k = PlaceOf(r) THEN v ELSE @[k]]]

BeginTable(r, marked) ==
  [r EXCEPT !.made = Append(@, [marked |-> marked, items |-> <<>>]),
            !.open = Append(@, Len(r.made) + 1)]

\* The parser counts its levels down from the same limit and stops when none is left.
ReadToken(r, token) ==
  IF r.err # "none" THEN r
  ELSE IF token.kind \in {"list", "map"} /\ Len(r.open) + 1 >= MaxJsonDepth THEN [r EXCEPT !.err = "recursion"]
  ELSE CASE token.kind \in {"list", "map"} ->
              BeginTable(Store(r, Val("table", Len(r.made) + 1)), token.kind = "list")
         [] token.kind = "name" -> [r EXCEPT !.name = Val("str", token.of[2])]
         [] token.kind = "leaf" -> Store(r, Val(token.of[1], token.of[2]))
         [] token.kind = "end" -> [r EXCEPT !.open = Front(@)]

Parsed(doc) == FoldLeft(ReadToken, Reader, doc)

-----------------------------------------------------------------------------
(* The walking guard *)

RECURSIVE VisitsOf(_, _, _)
VisitsOf(g, v, remaining) ==
  IF v.kind # "table" \/ remaining = 0 THEN 1
  ELSE 1 + MapThenSumSet(LAMBDA k : VisitsOf(g, k, remaining - 1) + VisitsOf(g, ItemAt(g, v.n, k), remaining - 1),
                         DOMAIN g[v.n].items)

RECURSIVE WithinBounds(_, _, _)
WithinBounds(g, v, remaining) ==
  /\ v.kind # "bytes"
  /\ v.kind = "table" =>
       /\ remaining > 0
       /\ \A k \in DOMAIN g[v.n].items :
            WithinBounds(g, k, remaining - 1) /\ WithinBounds(g, ItemAt(g, v.n, k), remaining - 1)

GuardPasses(g) ==
  WithinBounds(g, Val("table", 1), MaxJsonDepth) /\ VisitsOf(g, Val("table", 1), MaxJsonDepth) <= MaxJsonNodes

-----------------------------------------------------------------------------
(* What a script does with it *)

JsonInit ==
  /\ graph = <<>> /\ walk = NewWalk(TRUE) /\ document = <<>> /\ decoded = <<>>
  /\ stage = "build"

\* Every step of the pass ends in a refusal, in the finished document, or in the next step.
Settle(w) ==
  /\ walk' = w
  /\ stage' = IF w.err # "none" THEN "refused" ELSE IF w.path = <<>> THEN "written" ELSE "encode"
  /\ document' = IF w.err = "none" /\ w.path = <<>> THEN w.doc ELSE document

\* json:encode, on a value of the script or on one it has read.
Encode(g) ==
  /\ graph' = g
  /\ \E w \in WriteValue(g, NewWalk(TRUE), Val("table", 1)) : Settle(w)
  /\ UNCHANGED decoded

EncodeBuilt == stage = "build" /\ \E g \in Graphs : Encode(g)

EncodeRead == stage = "read" /\ Len(decoded) = 1 /\ Encode(decoded[1])

\* template:render: the guard first, then a writer without bounds.
Render ==
  /\ stage = "build"
  /\ \E g \in Graphs :
       /\ graph' = g
       /\ IF GuardPasses(g) THEN \E w \in WriteValue(g, NewWalk(FALSE), Val("table", 1)) : Settle(w)
          ELSE Settle(Refuse(NewWalk(FALSE), "guard"))
  /\ UNCHANGED decoded

WriteItem ==
  /\ stage = "encode" /\ Last(walk.path).owed = Missing
  /\ \E k \in Turns(Last(walk.path)) :
       \E w \in IF Last(walk.path).shape = "map" THEN WriteEntry(graph, WithoutTurn(walk, k), k)
                 ELSE WriteValue(graph, WithoutTurn(walk, k), ItemAt(graph, Last(walk.path).table, k)) : Settle(w)
  /\ UNCHANGED <<graph, decoded>>

WriteOwed ==
  /\ stage = "encode" /\ Last(walk.path).owed # Missing
  /\ \E w \in WriteValue(graph, [walk EXCEPT !.path[Len(walk.path)].owed = Missing],
                          ItemAt(graph, Last(walk.path).table, Last(walk.path).owed)) : Settle(w)
  /\ UNCHANGED <<graph, decoded>>

EndTable ==
  /\ stage = "encode" /\ Last(walk.path).left = {} /\ Last(walk.path).owed = Missing
  /\ Settle([LeaveLevel(Emit(walk, "end", <<"", 0>>)) EXCEPT !.path = Front(@)])
  /\ UNCHANGED <<graph, decoded>>

Decode ==
  /\ stage = "written" /\ walk.counts
  /\ stage' = IF Parsed(document).err = "none" THEN "read" ELSE "unread"
  /\ decoded' = IF Parsed(document).err = "none" THEN Append(decoded, Parsed(document).made) ELSE decoded
  /\ UNCHANGED <<graph, walk, document>>

JsonNext ==
  \/ EncodeBuilt \/ EncodeRead \/ Render
  \/ WriteItem \/ WriteOwed \/ EndTable \/ Decode

-----------------------------------------------------------------------------
(* Properties *)

\* A value without its tables' identities: names and what they hold; exactly, also its
\* nulls and which tables are lists.
RECURSIVE Canon(_, _, _)
Canon(g, v, exact) ==
  IF v.kind # "table" THEN [is |-> <<v.kind, v.n>>, list |-> FALSE, holds |-> {}]
  ELSE [is |-> <<"table", 0>>, list |-> exact /\ g[v.n].marked,
        holds |-> {<<KeyText(k), Canon(g, g[v.n].items[k], exact)>> :
                     k \in {x \in DOMAIN g[v.n].items : exact \/ g[v.n].items[x].kind \notin Nullish}}]

NamesCollide(g) ==
  \E t \in DOMAIN g : \E j, k \in DOMAIN g[t].items : j # k /\ KeyText(j) = KeyText(k)

\* How many tables are open after the i-th token of a document.
NestingAt(doc, i) ==
  Cardinality({j \in 1 .. i : doc[j].kind \in {"list", "map"}}) - Cardinality({j \in 1 .. i : doc[j].kind = "end"})

\* A pass over any graph of tables stays within the bounds, its depth being that of the
\* document it writes: also the pass of a writer that does not count, because the guard
\* before it counted at least as much, whatever holes the lists have.  The pass that counts
\* refuses nothing for its size, depth or strings that the guard lets through.  And what it
\* writes is read back as the same data, in whatever order the tables were walked, unless
\* two keys of a table have the same text or the value is as deep as the limit; then it
\* reads back as itself ever after.  (Bounds, LuaData, check_json_bounds, render, decode)
ValuesTravel ==
  /\ walk.spent <= MaxJsonNodes /\ walk.depth <= MaxJsonDepth
  /\ walk.err = "none" => walk.depth = Len(walk.path) /\ walk.depth = NestingAt(walk.doc, Len(walk.doc))
  /\ stage = "refused" /\ walk.err \in {"nodes", "depth", "utf8"} => ~GuardPasses(graph)
  /\ stage = "refused" => decoded = <<>>
  /\ stage = "unread" => decoded = <<>> /\ \E i \in DOMAIN document : NestingAt(document, i) = MaxJsonDepth
  /\ stage = "read" /\ Len(decoded) = 1 /\ ~NamesCollide(graph) =>
       Canon(decoded[1], Val("table", 1), FALSE) = Canon(graph, Val("table", 1), FALSE)
  /\ stage = "read" /\ Len(decoded) = 2 =>
       Canon(decoded[2], Val("table", 1), TRUE) = Canon(decoded[1], Val("table", 1), TRUE)
=============================================================================
