---------------------------- MODULE Negotiation ----------------------------
(***************************************************************************)
(* The header parsers that decide what a client is sent: Range and         *)
(* If-Range (crates/nitr-http/src/range.rs), the conditional headers       *)
(* (request/fresh.rs), Accept-Encoding (compress.rs) and Accept            *)
(* (crates/nitr-std/src/http/mod.rs), each with the laws its fuzz target   *)
(* asserts (fuzz/fuzz_targets/range_header.rs, conditional_headers.rs,     *)
(* accept_encoding.rs, accept_negotiation.rs).                             *)
(*                                                                         *)
(* A header is what its grammar splits it into; an action hands one header *)
(* to one parser, so that the states are all headers of a bounded size.    *)
(***************************************************************************)
EXTENDS Integers, Sequences, FiniteSets, SequencesExt

CONSTANTS
  TagNames,      \* what is between the quotes of a tag
  Weightings,    \* the q parameters of one member of a list, in order
  MediaTypes,    \* what a handler offers, as type and subtype
  MediaRanges,   \* what a client accepts, * for any
  MaxLen,        \* bound: the length of a representation
  MaxMembers     \* bound: members of a list

ASSUME NegotiationConstants == MaxLen \in Nat /\ MaxMembers \in Nat

VARIABLE header    \* the header a parser was given, and for which offer

negotiationVars == <<header>>

NoHeader == [of |-> "none"]

-----------------------------------------------------------------------------
(* Range and If-Range *)

\* A position of a range: a number, nothing, or text that is no number.
Blank == -1
Junk == -2
Positions == {Blank, Junk} \cup 0..(MaxLen + 1)

\* A Range value: another unit, several ranges, no dash, or one range.
RangeSpecs == [form : {"unit", "many", "nodash"}, start : {Blank}, end : {Blank}]
                \cup [form : {"one"}, start : Positions, end : Positions]

Full == [kind |-> "full", start |-> 0, end |-> 0]
Unsatisfiable == [kind |-> "unsatisfiable", start |-> 0, end |-> 0]
Partial(a, b) == [kind |-> "partial", start |-> a, end |-> b]
Least(a, b) == IF a < b THEN a ELSE b

\* Mutant: the end of a span is not clamped.
ParseRange_unclamped(r, len) ==
  CASE r.form # "one" -> Full
    [] r.form = "one" /\ len = 0 -> Unsatisfiable
    [] r.form = "one" /\ len > 0 /\ Junk \in {r.start, r.end} -> Full
    [] r.form = "one" /\ len > 0 /\ Junk \notin {r.start, r.end} /\ r.start = Blank ->
         (CASE r.end = Blank -> Full
            [] r.end = 0 -> Unsatisfiable
            [] OTHER -> Partial(IF r.end < len THEN len - r.end ELSE 0, len - 1))
    [] OTHER ->
         (IF r.start > len - 1 \/ (r.end # Blank /\ r.start > r.end) THEN Unsatisfiable
          ELSE Partial(r.start, IF r.end = Blank THEN len - 1 ELSE r.end))

\* parse(): what one range means for a representation of len bytes.
ParseRange(r, len) ==
  CASE r.form # "one" -> Full
    [] r.form = "one" /\ len = 0 -> Unsatisfiable
    [] r.form = "one" /\ len > 0 /\ Junk \in {r.start, r.end} -> Full
    [] r.form = "one" /\ len > 0 /\ Junk \notin {r.start, r.end} /\ r.start = Blank ->
         (CASE r.end = Blank -> Full
            [] r.end = 0 -> Unsatisfiable
            [] OTHER -> Partial(IF r.end < len THEN len - r.end ELSE 0, len - 1))
    [] OTHER ->
         (IF r.start > len - 1 \/ (r.end # Blank /\ r.start > r.end) THEN Unsatisfiable
          ELSE Partial(r.start, IF r.end = Blank THEN len - 1 ELSE Least(r.end, len - 1)))

\* If-Range: absent, the tag itself, its weak form, another tag, a date that is
\* some seconds off, text that is no date, or bytes that are no visible ASCII.
IfRanges == {"absent", "same", "weak", "stale", "date", "date_off", "text", "bytes"}

\* if_range_matches(); known: the modification time is.  Bytes that do not read
\* as text count as no header.
IfRangeHolds(v, known) == v \in {"absent", "bytes", "same"} \/ (v = "date" /\ known)

\* resolve(): the validator first.
ResolveRange(r, len, v, known) == IF IfRangeHolds(v, known) THEN ParseRange(r, len) ELSE Full

\* check_partial(): an answer names bytes that exist, and parses back to itself.
CheckPartial(a, len) ==
  a.kind = "partial" =>
    /\ a.start <= a.end /\ a.end < len
    /\ ParseRange([form |-> "one", start |-> a.start, end |-> a.end], len) = a

\* The bytes a well-formed range asks for, of those there are.
AskedBytes(r, len) ==
  {b \in 0..(len - 1) :
     IF r.start = Blank THEN b >= len - r.end
     ELSE b >= r.start /\ (r.end = Blank \/ b <= r.end)}

\* The laws of range_header: the validator only ever takes a range away, another
\* unit is never refused, and a span is the bytes that were asked for.
CheckRange(r, len, v, known) ==
  LET a == ResolveRange(r, len, v, known)
      base == ParseRange(r, len)
  IN
  /\ CheckPartial(a, len) /\ CheckPartial(base, len)
  /\ base = Unsatisfiable => r.form = "one"
  /\ v \in {"weak", "stale", "date_off", "text"} => a = Full
  /\ v = "date" /\ ~known => a = Full
  /\ v \in {"absent", "bytes", "same"} => a = base
  /\ base.kind # "full" => (base.kind = "unsatisfiable") = (AskedBytes(r, len) = {})
  /\ base.kind = "partial" => base.start..base.end = AskedBytes(r, len)

-----------------------------------------------------------------------------
(* If-None-Match and If-Modified-Since *)

\* Tags by what the comparison sees: a name, the weak prefix, the suffix a
\* compressed answer gave it.  A star is the wildcard only without the prefix.
Tags == [name : TagNames, weak : BOOLEAN, suffix : {"", "gzip"}]
BareStar == [name |-> "*", weak |-> FALSE, suffix |-> ""]
NoEtag == [name |-> "none", weak |-> FALSE, suffix |-> ""]
Seconds == 0..1
Unknown == -1

\* strip_weak() and strip_encoding_suffix()
StripWeak(t) == [t EXCEPT !.weak = FALSE]
StripSuffix(t) == [t EXCEPT !.suffix = ""]

\* Mutant: the prefix comes off before the wildcard is looked for.
MemberMatches_weakStar(t, etag) ==
  \/ StripWeak(t) = BareStar
  \/ StripWeak(t) = StripWeak(etag)
  \/ t.suffix # "" /\ StripSuffix(StripWeak(t)) = StripWeak(etag)

\* One member of the list against the tag of the resource.
MemberMatches(t, etag) ==
  \/ t = BareStar
  \/ StripWeak(t) = StripWeak(etag)
  \/ t.suffix # "" /\ StripSuffix(StripWeak(t)) = StripWeak(etag)

\* is_fresh(): list is absent (NoHeader) or a sequence of tags.
FreshFor(present, list, since, etag, modified) ==
  IF present THEN etag # NoEtag /\ \E i \in DOMAIN list : MemberMatches(list[i], etag)
             ELSE since # Unknown /\ modified # Unknown /\ modified <= since

\* under_inm() and expect(): the date says nothing once a list is there, and no
\* list says anything of a resource without a tag.
CheckPrecedence(list, etag) ==
  /\ \A s1, s2, m1, m2 \in {Unknown} \cup Seconds :
       FreshFor(TRUE, list, s1, etag, m1) = FreshFor(TRUE, list, s2, etag, m2)
  /\ ~FreshFor(TRUE, list, Unknown, NoEtag, Unknown)

\* The laws of conditional_headers on lists: a tag echoed back matches wherever
\* it stands and in either strength, the bare star always, another tag never.
CheckList(list, etag) ==
  LET got == FreshFor(TRUE, list, Unknown, etag, Unknown)
      others == \A i \in DOMAIN list : list[i].name # etag.name /\ list[i] # BareStar
  IN
  /\ etag # NoEtag =>
       /\ (\E i \in DOMAIN list : list[i].name = etag.name /\ list[i].suffix = etag.suffix) => got
       /\ BareStar \in ToSet(list) => got
       /\ others => ~got
  /\ list = <<>> => ~got

\* The laws of conditional_headers on dates: second-exact, monotone, and an
\* unknown time is never fresh.
CheckDates(since, etag, modified) ==
  LET got == FreshFor(FALSE, <<>>, since, etag, modified) IN
  /\ Unknown \in {since, modified} => ~got
  /\ got => modified <= since /\ (modified > 0 => FreshFor(FALSE, <<>>, since, etag, modified - 1))
  /\ since # Unknown /\ modified = since => got

-----------------------------------------------------------------------------
(* Accept-Encoding *)

\* A weight: a number in tenths (one below zero refuses as 0 does), NaN, or text
\* that does not parse.
NaN == -1
Junky == -2
ASSUME WeightsAreNumbers == \A ws \in Weightings : ws \in Seq(Nat \cup {NaN, Junky})

Codings == {"br", "gzip"}
Entries == [token : Codings \cup {"other"}, weights : Weightings]

\* accept_encoding_entries(): the first weight that parses, or 1.
WeightOf(e) ==
  LET parsed == {i \in DOMAIN e.weights : e.weights[i] # Junky}
  IN  IF parsed = {} THEN 10 ELSE e.weights[CHOOSE i \in parsed : \A j \in parsed : i <= j]

\* A weight of the comparison `q > 0.0`.
Positive(w) == w # NaN /\ w > 0

\* Compression::negotiate(): the server's order decides.
NegotiateCoding(entries, algorithms) ==
  LET fit == {k \in DOMAIN algorithms :
                \E i \in DOMAIN entries : entries[i].token = algorithms[k] /\ Positive(WeightOf(entries[i]))}
  IN  IF fit = {} THEN "identity" ELSE algorithms[CHOOSE k \in fit : \A j \in fit : k <= j]

\* accepts() of the fuzz target, with_q() and without().
AcceptsCoding(entries, alg) == NegotiateCoding(entries, <<alg>>) # "identity"
WithQ(entries, alg, ws) == [i \in DOMAIN entries |-> IF entries[i].token = alg THEN [entries[i] EXCEPT !.weights = ws] ELSE entries[i]]
WithoutCoding(entries, alg) == [i \in {k \in DOMAIN entries : entries[k].token # alg} |-> entries[i]]

\* The weights of an entry that keep its coding.
KeepingWeights == {<<10>>, <<5>>, <<10, 0>>, <<Junky>>}

\* The laws of accept_encoding: a refusing weight refuses, an accepting one
\* keeps, the first weight wins, an unparsable one is 1, removal removes.
CheckCodings(entries) ==
  \A alg \in Codings :
    LET present == \E i \in DOMAIN entries : entries[i].token = alg IN
    /\ \A w \in {0, NaN} : ~AcceptsCoding(WithQ(entries, alg, <<w>>), alg)
    /\ \A ws \in KeepingWeights : AcceptsCoding(WithQ(entries, alg, ws), alg) = present
    /\ ~AcceptsCoding(WithoutCoding(entries, alg), alg)
    /\ AcceptsCoding(entries, alg) => present
    /\ NegotiateCoding(entries, <<"br", "gzip">>) = "gzip" => ~AcceptsCoding(entries, "br")

-----------------------------------------------------------------------------
(* Accept *)

Items == [range : MediaRanges, weights : Weightings]

\* best_match(): the last weight counts, an unparsable one is 0.
LastWeight(item) == IF item.weights = <<>> THEN 10 ELSE IF Last(item.weights) = Junky THEN 0 ELSE Last(item.weights)

\* How precisely a range names an offer; -1: not at all.
SpecificityOf(range, offer) ==
  CASE range = offer -> 2
    [] range # offer /\ range = <<"*", "*">> -> 0
    [] OTHER -> IF range[2] = "*" /\ range[1] = offer[1] THEN 1 ELSE -1

\* Mutant: a tie goes to the later offer.
Better_laterOffer(c, best) ==
  \/ best.index = 0
  \/ ~(NaN \in {c.q, best.q}) /\ c.q > best.q
  \/ c.q # NaN /\ c.q = best.q /\ (c.spec > best.spec \/ (c.spec = best.spec /\ c.index > best.index))

\* The comparison of best_match(): every one with NaN is false.
Better(c, best) ==
  \/ best.index = 0
  \/ ~(NaN \in {c.q, best.q}) /\ c.q > best.q
  \/ c.q # NaN /\ c.q = best.q /\ (c.spec > best.spec \/ (c.spec = best.spec /\ c.index < best.index))

\* best_match(): every offer against one item, and the items in turn; an item
\* of no weight is passed over.
NoBest == [index |-> 0, q |-> 0, spec |-> 0]
Candidate(item, offers, j) == [index |-> j, q |-> LastWeight(item), spec |-> SpecificityOf(item.range, offers[j])]
BestFor(item, offers, best) ==
  LET scan[j \in 0..Len(offers)] ==
        IF j = 0 THEN best
        ELSE LET c == Candidate(item, offers, j)
                 was == scan[j - 1]
             IN  IF c.spec >= 0 /\ Better(c, was) THEN c ELSE was
  IN  scan[Len(offers)]
PassedOver(item) == LastWeight(item) # NaN /\ LastWeight(item) <= 0
BestMatch(items, offers) ==
  LET scan[i \in 0..Len(items)] ==
        IF i = 0 THEN NoBest
        ELSE LET was == scan[i - 1] IN IF PassedOver(items[i]) THEN was ELSE BestFor(items[i], offers, was)
  IN  scan[Len(items)].index

\* rank() of the fuzz target: the keys an offer can claim, and the greater one.
KeysOf(items, offer) ==
  {<<LastWeight(items[i]), SpecificityOf(items[i].range, offer)>> :
     i \in {k \in DOMAIN items : Positive(LastWeight(items[k])) /\ SpecificityOf(items[k].range, offer) >= 0}}
OutranksKey(a, b) == a[1] > b[1] \/ (a[1] = b[1] /\ a[2] > b[2])

\* The laws of accept_negotiation.  A weight of zero takes its own range off the
\* list and nothing else, so a type refused by name is still sent to a client
\* that also lists a wider range: ByName is when that cannot have happened.
ByName(items, offer) == \A i \in DOMAIN items : SpecificityOf(items[i].range, offer) \in {-1, 2}
RefusedByName(items, offer) ==
  ByName(items, offer) /\ \A i \in DOMAIN items : items[i].range = offer => PassedOver(items[i])
CheckAccept(items, offers) ==
  LET win == BestMatch(items, offers)
      sawNaN == \E i \in DOMAIN items : LastWeight(items[i]) = NaN
  IN
  /\ win > 0 /\ ~sawNaN =>
       \E key \in KeysOf(items, offers[win]) :
         \A j \in DOMAIN offers : \A other \in KeysOf(items, offers[j]) :
           ~OutranksKey(other, key) /\ ~(other = key /\ j < win)
  /\ win > 0 => ~RefusedByName(items, offers[win])
  /\ win > 0 => BestMatch(items, <<offers[win]>>) = 1
  /\ win > 0 => LET own == [range |-> offers[win], weights |-> <<>>]
                IN  offers[BestMatch(<<own>>, offers)] = offers[win]
  /\ win = 0 => \A j \in DOMAIN offers : KeysOf(items, offers[j]) = {} /\ BestMatch(items, <<offers[j]>>) = 0
  /\ \A j \in DOMAIN offers : BestMatch(<<[range |-> offers[j], weights |-> <<0>>]>>, <<offers[j]>>) = 0

-----------------------------------------------------------------------------
(* Inputs *)

SeqsUpTo(S, n) == UNION {[1..k -> S] : k \in 0..n}

GiveRange ==
  /\ header = NoHeader
  /\ \E r \in RangeSpecs, len \in 0..MaxLen, v \in IfRanges, known \in BOOLEAN :
       header' = [of |-> "range", range |-> r, len |-> len, ifRange |-> v, known |-> known]

GiveConditions ==
  /\ header = NoHeader
  /\ \E list \in SeqsUpTo(Tags, MaxMembers), etag \in {NoEtag} \cup [name : {"a", "*"}, weak : BOOLEAN, suffix : {""}] :
       header' = [of |-> "list", list |-> list, etag |-> etag]

GiveDates ==
  /\ header = NoHeader
  /\ \E since, modified \in {Unknown} \cup Seconds, etag \in {NoEtag, BareStar} :
       header' = [of |-> "dates", since |-> since, modified |-> modified, etag |-> etag]

GiveCodings ==
  /\ header = NoHeader
  /\ \E entries \in SeqsUpTo(Entries, MaxMembers) : header' = [of |-> "codings", entries |-> entries]

GiveAccept ==
  /\ header = NoHeader
  /\ \E items \in SeqsUpTo(Items, MaxMembers), offers \in SeqsUpTo(MediaTypes, 2) :
       header' = [of |-> "accept", items |-> items, offers |-> offers]

NegotiationInit == header = NoHeader
NegotiationNext == GiveRange \/ GiveConditions \/ GiveDates \/ GiveCodings \/ GiveAccept
NegotiationSpec == NegotiationInit /\ [][NegotiationNext]_negotiationVars

-----------------------------------------------------------------------------
(* Properties *)

\* Whatever a client asks for, a partial answer is exactly the bytes it asked
\* for, a stale validator never yields one (but one that is no text counts as
\* none), and a conditional request is told
\* "not modified" by its tags alone when it has any, by the same tag only, and
\* by a date that is not before the file's.  (parse, if_range_matches, is_fresh)
ValidatorLaws ==
  /\ header.of = "range" => CheckRange(header.range, header.len, header.ifRange, header.known)
  /\ header.of = "list" => CheckPrecedence(header.list, header.etag) /\ CheckList(header.list, header.etag)
  /\ header.of = "dates" => CheckDates(header.since, header.etag, header.modified)

\* A client is sent a coding it lists with a weight, the first of the server's
\* order whatever the weights, and a media type some range of its header names
\* with a weight: the one of the greatest weight, then of the closest range, then
\* offered first, so long as no weight is NaN.  What a header refuses and names in
\* no wider range is not sent.  (negotiate, best_match)
AcceptanceLaws ==
  /\ header.of = "codings" => CheckCodings(header.entries)
  /\ header.of = "accept" => CheckAccept(header.items, header.offers)

\* Every header a client can send is answered as the fuzz targets' laws say.
HeadersKeepTheirLaws == ValidatorLaws /\ AcceptanceLaws
=============================================================================
