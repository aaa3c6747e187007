------------------------------ MODULE Content ------------------------------
(***************************************************************************)
(* What a client ends up with when it fetches one static file, again and   *)
(* in pieces, while the file is redeployed: crates/nitr-http/src/          *)
(* static_files.rs, range.rs, request/fresh.rs, compress.rs and cors.rs.   *)
(*                                                                         *)
(* A deployment replaces a file by rename.  A request takes two steps, as  *)
(* in the code: locate_for() reads the metadata on the blocking pool, and  *)
(* serve_file() opens the path again for the bytes.  Clients keep copies,  *)
(* revalidate them, resume what a lost connection left of them, and may    *)
(* have a shared cache in front of the server that obeys Vary.             *)
(***************************************************************************)
EXTENDS Integers, Sequences, FiniteSets, SequencesExt

CONSTANTS
  Browsers,        \* clients
  Offered,         \* [compression] algorithms, in the server's order
  Sidecars,        \* codings a sidecar may be deployed for
  Lens,            \* lengths of a file
  CompressOn,      \* [compression] enabled
  MinSize,         \* [compression] min_size
  CorsOrigins,     \* [cors] origins
  MaxDeploys,      \* bound: deployments
  MaxSecond,       \* bound: the clock
  MaxRequests      \* bound: requests of one client

ASSUME ContentConstants ==
  /\ Offered \in Seq(STRING) /\ IsInjective(Offered) /\ Sidecars \subseteq ToSet(Offered)
  /\ Lens \subseteq Nat \ {0} /\ \E n \in Lens : \A k \in Lens : k <= n
  /\ MinSize \in Nat /\ CompressOn \in BOOLEAN /\ CorsOrigins \subseteq STRING

VARIABLES
  fs,          \* fs[r]: the file deployed as representation r
  second,      \* the clock, in the precision of an HTTP date
  deploys,     \* deployments so far; the count names a version
  conn,        \* conn[c]: c's request, then its answer
  copy,        \* copy[c]: what c keeps of the file
  told,        \* told[c]: the copy c's last 304 vouched for, and by what
  shelf,       \* the answer a shared cache holds
  verdict,     \* verdict[c]: the preflight c last saw an answer to
  asks         \* asks[c]: requests of c so far

contentVars == <<fs, second, deploys, conn, copy, told, shelf, verdict, asks>>

Identity == "identity"
Reps == {Identity} \cup Sidecars
Gone == [ver |-> 0, len |-> 0, sec |-> 0]
NoConn == [stage |-> "none"]
NoCopy == [bytes |-> <<>>, total |-> 0]
NoEntry == [kind |-> "none"]

\* A byte of a body, by the version it was read from and the coding it was put
\* in on the way.  late is history: the file was replaced after its metadata
\* had been read.
Byte(rep, v, meta) == [rep |-> rep, ver |-> v.ver, sec |-> v.sec, len |-> v.len, fly |-> Identity, late |-> v.ver # meta.ver]

\* What is there at first, of the greatest length; sidecars may have been built
\* with it.
FirstBuild == [ver |-> 1, len |-> CHOOSE n \in Lens : \A k \in Lens : k <= n, sec |-> 0]

ContentInit ==
  /\ \E built \in SUBSET Sidecars : fs = [r \in Reps |-> IF r \in built \cup {Identity} THEN FirstBuild ELSE Gone]
  /\ second = 0 /\ deploys = 1
  /\ conn = [c \in Browsers |-> NoConn]
  /\ copy = [c \in Browsers |-> NoCopy]
  /\ told = [c \in Browsers |-> NoCopy]
  /\ shelf = NoEntry
  /\ verdict = [c \in Browsers |-> NoEntry]
  /\ asks = [c \in Browsers |-> 0]

-----------------------------------------------------------------------------
(* Validators *)

\* etag_for(): the length and the second.  suffix and weak: see WeakenEtag.
EtagFor(v) == [len |-> v.len, sec |-> v.sec, suffix |-> Identity, weak |-> FALSE]

\* weaken_etag(): `"abc"` under gzip becomes `W/"abc-gzip"`.
WeakenEtag(tag, coding) == [tag EXCEPT !.suffix = coding, !.weak = TRUE]

\* Mutant: any date not before the file's will do.
IfRangeMatches_anyLater(ifRange, v) ==
  \/ ifRange.by = "none"
  \/ ifRange.by = "etag" /\ ifRange.tag = EtagFor(v)
  \/ ifRange.by = "date" /\ ifRange.sec <= v.sec

\* if_range_matches(): the same strong tag, or exactly the same second.
IfRangeMatches(ifRange, v) ==
  \/ ifRange.by = "none"
  \/ ifRange.by = "etag" /\ ifRange.tag = EtagFor(v)
  \/ ifRange.by = "date" /\ ifRange.sec = v.sec

\* Mutant: dates are compared the other way round.
IsFresh_either(req, v) ==
  \/ req.inm # {} /\ \E tag \in req.inm : tag.len = v.len /\ tag.sec = v.sec
  \/ req.ims # -1 /\ req.ims <= v.sec

\* is_fresh(): tags win over the date; the weak prefix and a coding's suffix
\* are not part of the comparison.
IsFresh(req, v) ==
  IF req.inm # {} THEN \E tag \in req.inm : tag.len = v.len /\ tag.sec = v.sec
                  ELSE req.ims # -1 /\ v.sec <= req.ims

-----------------------------------------------------------------------------
(* A request finds its file *)

\* Compression::negotiate(): the server's first coding that the client takes.
Acceptable(accept) == {i \in DOMAIN Offered : Offered[i] \in accept}
NegotiatedFor(accept) == Offered[CHOOSE i \in Acceptable(accept) : \A j \in Acceptable(accept) : i <= j]

\* locate_for(): the sidecar of the negotiated coding when it is there beside the
\* file itself, one look at the file system.
LocatedRep(accept) ==
  LET e == NegotiatedFor(accept)
  IN  IF fs[Identity] # Gone /\ Acceptable(accept) # {} /\ e \in Sidecars /\ fs[e] # Gone THEN e ELSE Identity

SetConn(c, rec) == conn' = [conn EXCEPT ![c] = rec]
NoTag == EtagFor(Gone)
NoIfRange == [by |-> "none", tag |-> NoTag, sec |-> 0]

\* A client asks: for the file, whether its whole copy is current, or for the
\* rest of a broken one.
Request(c, accept, origin, how) ==
  LET k == copy[c]
      whole == k.total > 0 /\ Len(k.bytes) = k.total
      ask == [accept |-> accept, origin |-> origin, inm |-> {}, ims |-> -1, from |-> 0, ifRange |-> NoIfRange]
  IN  CASE how = "plain" -> ask
        [] how = "tag" /\ whole -> [ask EXCEPT !.inm = {k.etag}, !.ims = k.date]
        [] how = "date" /\ whole -> [ask EXCEPT !.ims = k.date]
        [] how = "rest_tag" /\ k.bytes # <<>> /\ ~whole /\ k.ranges ->
             [ask EXCEPT !.from = Len(k.bytes), !.ifRange = [by |-> "etag", tag |-> k.etag, sec |-> 0]]
        [] how = "rest_date" /\ k.bytes # <<>> /\ ~whole /\ k.ranges ->
             [ask EXCEPT !.from = Len(k.bytes), !.ifRange = [by |-> "date", tag |-> NoTag, sec |-> k.date]]
        [] OTHER -> [ask EXCEPT !.from = -1]

\* try_serve() up to the end of locate_for().  A request that goes past the
\* shared cache takes the place of what it holds.
Locate(c) ==
  /\ conn[c] = NoConn /\ asks[c] < MaxRequests /\ verdict[c] = NoEntry
  /\ \E accept \in SUBSET ToSet(Offered), origin \in CorsOrigins \cup {"none", "stranger"},
        how \in {"plain", "tag", "date", "rest_tag", "rest_date"} :
       LET req == Request(c, accept, origin, how)
           rep == LocatedRep(accept)
       IN  /\ req.from >= 0 /\ (how = "plain" \/ origin = "none")
           /\ IF fs[rep] = Gone
              THEN SetConn(c, [stage |-> "answer", status |-> 404])
              ELSE SetConn(c, [stage |-> "located", req |-> req, rep |-> rep, meta |-> fs[rep]])
  /\ asks' = [asks EXCEPT ![c] = @ + 1]
  /\ shelf' = NoEntry
  /\ UNCHANGED <<fs, second, deploys, copy, told, verdict>>

-----------------------------------------------------------------------------
(* serve_file(), Compression::apply() and Cors::apply() *)

\* range::resolve() and parse() for the one form a client resumes with, `N-`.
Resolve(req, v) ==
  IF req.from = 0 \/ ~IfRangeMatches(req.ifRange, v) THEN "full"
  ELSE IF req.from <= v.len - 1 THEN "partial" ELSE "unsatisfiable"

\* read_span() and stream_file(): what the path holds now, from `start`, no
\* more than the metadata promised.
ReadSpan(rep, start, count, meta) ==
  LET v == fs[rep]
      upto == IF start + count < v.len THEN start + count ELSE v.len
  IN  [i \in 1..(IF upto > start THEN upto - start ELSE 0) |-> Byte(rep, v, meta)]

\* should_compress(): not a partial answer, not one already encoded, not a
\* small one.
ShouldCompress(status, rep, len) == status \notin {304, 206} /\ rep = Identity /\ len >= MinSize

\* append_vary() never drops a name that is there.
AppendVary(vary, name) == vary \cup {name}

\* allow_origin(): the origin itself when it is on the list.
AllowOrigin(origin) == IF origin \in CorsOrigins THEN origin ELSE "none"

\* Cors::apply(): nothing at all for a request without an Origin.
CorsApply(a, origin) ==
  IF origin = "none" THEN a
  ELSE [a EXCEPT !.vary = AppendVary(@, "origin"), !.allow = AllowOrigin(origin)]

\* Compression::apply(): ranges are no longer offered on what goes out.
CompressApply(a, req) ==
  LET e == NegotiatedFor(req.accept)
  IN  IF CompressOn /\ Acceptable(req.accept) # {} /\ ShouldCompress(a.status, a.coding, a.declared)
      THEN [a EXCEPT !.coding = e, !.vary = AppendVary(@, "accept-encoding"),
                     !.etag = WeakenEtag(@, e), !.ranges = FALSE,
                     !.body = [i \in DOMAIN @ |-> [@[i] EXCEPT !.fly = e]]]
      ELSE a

\* The status and headers serve_file() makes of the metadata it was given.
Headers(req, rep, v) ==
  LET range == Resolve(req, v)
      a == [stage |-> "answer", req |-> req, status |-> 200, start |-> 0, declared |-> v.len, total |-> v.len,
            coding |-> rep, ranges |-> TRUE, etag |-> EtagFor(v), date |-> v.sec,
            vary |-> {"accept-encoding"}, allow |-> "none", meta |-> v, body |-> <<>>]
  IN  CASE IsFresh(req, v) -> [a EXCEPT !.status = 304, !.declared = 0]
        [] ~IsFresh(req, v) /\ range = "unsatisfiable" -> [a EXCEPT !.status = 416, !.declared = 0]
        [] ~IsFresh(req, v) /\ range = "partial" ->
             [a EXCEPT !.status = 206, !.start = req.from, !.declared = v.len - req.from]
        [] OTHER -> a

\* serve_file() from the metadata on.  The file may have been replaced since,
\* or be gone: then a 404.
ServeFile(c) ==
  /\ conn[c].stage = "located"
  /\ LET k == conn[c]
         a == Headers(k.req, k.rep, k.meta)
         body == IF a.status \in {200, 206} THEN ReadSpan(k.rep, a.start, a.declared, k.meta) ELSE <<>>
     IN  IF a.status \in {200, 206} /\ fs[k.rep] = Gone
         THEN SetConn(c, [stage |-> "answer", status |-> 404])
         ELSE SetConn(c, CorsApply(CompressApply([a EXCEPT !.body = body], k.req), k.req.origin))
  /\ UNCHANGED <<fs, second, deploys, copy, told, shelf, verdict, asks>>

-----------------------------------------------------------------------------
(* Clients and the shared cache (not part of the server) *)

\* A new copy: what came of a 200.  by is the weakest validator its pieces were
\* joined under.
CopyOf(a, n) ==
  [bytes |-> SubSeq(a.body, 1, n), total |-> a.total, etag |-> a.etag, date |-> a.date,
   coding |-> a.coding, allow |-> a.allow, ranges |-> a.ranges, accept |-> a.req.accept, origin |-> a.req.origin, by |-> "etag"]

\* A complete 200 may stay in the shared cache.
Shelve(a) ==
  \/ UNCHANGED shelf
  \/ a.status = 200 /\ Len(a.body) = a.declared /\ shelf' = [kind |-> "get", req |-> a.req, answer |-> a]

\* The answer arrives, or as much of its body as a lost connection lets through.
\* The tail of a 206 goes behind what the client had, as If-Range lets it.
Receive(c) ==
  /\ conn[c].stage = "answer"
  /\ LET a == conn[c] IN
     \/ /\ a.status \in {404, 416}
        /\ UNCHANGED <<copy, told, shelf>>
     \/ /\ a.status = 304
        /\ told' = [told EXCEPT ![c] = [bytes |-> copy[c].bytes, total |-> copy[c].total, req |-> a.req, meta |-> a.meta]]
        /\ UNCHANGED <<copy, shelf>>
     \/ /\ a.status = 200
        /\ \E n \in 0..Len(a.body) :
             /\ copy' = [copy EXCEPT ![c] = CopyOf(a, n)]
             /\ IF n = Len(a.body) THEN Shelve(a) ELSE UNCHANGED shelf
        /\ UNCHANGED told
     \/ /\ a.status = 206
        /\ \E n \in 0..Len(a.body) :
             copy' = [copy EXCEPT ![c].bytes = @ \o SubSeq(a.body, 1, n),
                                  ![c].by = IF a.req.ifRange.by = "date" THEN "date" ELSE @]
        /\ UNCHANGED <<told, shelf>>
  /\ SetConn(c, NoConn)
  /\ UNCHANGED <<fs, second, deploys, verdict, asks>>

\* The fields of a request that a Vary may name.
FieldOf(req, name) ==
  CASE name = "accept-encoding" -> req.accept
    [] name = "origin" -> req.origin
    [] name = "access-control-request-method" -> req.method
    [] name = "access-control-request-headers" -> req.headers

Matches(req) == \A name \in shelf.answer.vary : FieldOf(req, name) = FieldOf(shelf.req, name)

\* The shared cache answers a request that agrees with the one it stored in
\* every header the stored answer's Vary names.
SharedHit(c) ==
  /\ shelf.kind = "get" /\ conn[c] = NoConn /\ asks[c] < MaxRequests
  /\ \E accept \in SUBSET ToSet(Offered), origin \in CorsOrigins \cup {"none", "stranger"} :
       LET req == Request(c, accept, origin, "plain")
           a == [shelf.answer EXCEPT !.req = req]
       IN  Matches(req) /\ copy' = [copy EXCEPT ![c] = CopyOf(a, Len(a.body))]
  /\ asks' = [asks EXCEPT ![c] = @ + 1]
  /\ UNCHANGED <<fs, second, deploys, conn, told, shelf, verdict>>

-----------------------------------------------------------------------------
(* Preflights *)

\* method_allowed() and headers_allowed(), for a policy of GET and PUT and of
\* the header x-token beside the three that are always allowed.
Approved(req) ==
  /\ AllowOrigin(req.origin) # "none"
  /\ req.method \in {"GET", "PUT"}
  /\ req.headers \subseteq {"accept", "accept-language", "content-language", "x-token"}

\* Mutant: the verdict is said to depend on the origin only.
PreflightVary_origin == {"origin"}

\* vary_preflight()
PreflightVary == {"origin", "access-control-request-method", "access-control-request-headers"}

\* preflight(): 204 whatever the verdict; the verdict is in the headers.
Preflight(req) == [approved |-> Approved(req), vary |-> PreflightVary]

\* An OPTIONS with an Origin and a requested method, answered by the server or
\* by a cache that kept an earlier answer.
AskPreflight(c) ==
  /\ conn[c] = NoConn /\ asks[c] < MaxRequests /\ copy[c] = NoCopy
  /\ \E origin \in CorsOrigins \cup {"stranger"}, method \in {"PUT", "DELETE"}, headers \in {{}, {"x-other"}} :
       LET req == [origin |-> origin, method |-> method, headers |-> headers, accept |-> {}]
       IN  \/ /\ verdict' = [verdict EXCEPT ![c] = [kind |-> "seen", req |-> req, approved |-> Preflight(req).approved]]
              /\ shelf' = [kind |-> "preflight", req |-> req, answer |-> Preflight(req)]
           \/ /\ shelf.kind = "preflight" /\ Matches(req)
              /\ verdict' = [verdict EXCEPT ![c] = [kind |-> "seen", req |-> req, approved |-> shelf.answer.approved]]
              /\ UNCHANGED shelf
  /\ asks' = [asks EXCEPT ![c] = @ + 1]
  /\ UNCHANGED <<fs, second, deploys, conn, copy, told>>

-----------------------------------------------------------------------------
(* Deployments *)

\* Nothing is deployed when no answer is left to depend on it.
Asking == \E c \in Browsers : asks[c] < MaxRequests \/ conn[c] # NoConn

Deploy ==
  /\ deploys < MaxDeploys /\ Asking
  /\ deploys' = deploys + 1
  /\ \E r \in Reps, n \in Lens : fs' = [fs EXCEPT ![r] = [ver |-> deploys + 1, len |-> n, sec |-> second]]
  /\ UNCHANGED <<second, conn, copy, told, shelf, verdict, asks>>

Undeploy ==
  /\ Asking
  /\ \E r \in Reps : fs[r] # Gone /\ fs' = [fs EXCEPT ![r] = Gone]
  /\ UNCHANGED <<second, deploys, conn, copy, told, shelf, verdict, asks>>

NextSecond ==
  /\ second < MaxSecond /\ Asking
  /\ second' = second + 1
  /\ UNCHANGED <<fs, deploys, conn, copy, told, shelf, verdict, asks>>

ContentNext ==
  \/ \E c \in Browsers : Locate(c) \/ ServeFile(c) \/ Receive(c) \/ SharedHit(c) \/ AskPreflight(c)
  \/ Deploy \/ Undeploy \/ NextSecond

ContentSpec == ContentInit /\ [][ContentNext]_contentVars

-----------------------------------------------------------------------------
(* Properties *)

\* The validator a client joined two pieces under is the same for both files: a date
\* tells the second they were written in, a tag the second and the length.  Neither
\* tells a sidecar from the file it stands for.
Indistinct(x, y, by) == x.sec = y.sec /\ (by = "etag" => x.len = y.len)

\* Two bytes belong together: one version of one representation, or two files that
\* the validator could not tell apart, be they versions or codings.
Together(x, y, by) ==
  /\ x.fly = y.fly
  /\ (x.rep = y.rep /\ x.ver = y.ver) \/ Indistinct(x, y, by)

WholeCopy(c) == copy[c].total > 0 /\ Len(copy[c].bytes) = copy[c].total

\* A copy that was finished piece by piece is one file, not two spliced ones, and
\* nothing compressed on the way is joined with what was not, however often the file
\* was deployed between the pieces.  The exceptions are a deployment between the two
\* looks of one request, and files written in one second (and, under a tag, of one
\* length), where a piece of a sidecar may also follow one of the file itself.
\* (resolve, if_range_matches, should_compress, weaken_etag)
CopiesAreOneFile ==
  \A c \in Browsers : WholeCopy(c) => LET k == copy[c] IN
    \A i, j \in DOMAIN k.bytes :
      k.bytes[i].late \/ k.bytes[j].late \/ Together(k.bytes[i], k.bytes[j], k.by)

\* A 304 never confirms a copy that is older than the file that was located:
\* no byte the client keeps was written in an earlier second.  (is_fresh, etag_for)
NotModifiedIsTrue ==
  \A c \in Browsers : LET t == told[c] IN
    t.total > 0 => \A i \in DOMAIN t.bytes : t.bytes[i].sec >= t.meta.sec

\* What a client gets through a shared cache is in a coding it asked for and
\* shows no other origin's permission, and a preflight's verdict is the
\* policy's for that very request.  (append_vary, apply, vary_preflight)
CachesMayShare ==
  /\ \A c \in Browsers : LET k == copy[c] IN
       k.total > 0 => k.coding \in k.accept \cup {Identity} /\ k.allow \in {"none", k.origin}
  /\ \A c \in Browsers : verdict[c] # NoEntry => verdict[c].approved = Approved(verdict[c].req)

\* What a cache keeps, or is told it may keep, is what the server would send.
CachesTellTheTruth == NotModifiedIsTrue /\ CachesMayShare
=============================================================================
