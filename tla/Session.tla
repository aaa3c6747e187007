------------------------------ MODULE Session ------------------------------
(***************************************************************************)
(* Sessions, CSRF tokens and their cookies: crates/nitr-std/src/session.rs,*)
(* csrf.rs and http/cookies.rs.                                            *)
(*                                                                         *)
(* All state is with the client, in signed cookies; the server keeps one   *)
(* CSRF slot per pooled Lua state.  A visitor sends any cookie it was ever *)
(* given, under either name: Max-Age and a deletion are advice to it.  The *)
(* signature is taken as sound: a value verifies under the name it was     *)
(* signed for, and only then.                                              *)
(***************************************************************************)
EXTENDS Integers, Sequences, FiniteSets, SequencesExt, TLC

CONSTANTS
  Visitors,      \* clients
  Exchanges,     \* requests that may be on their way at once
  LuaStates,     \* pooled Lua states
  MaxAge,        \* the session's max_age; 0: none is set
  CallerOpts,    \* the `cookie` option of nitr.session and nitr.csrf
  SecureDefault, \* [cookies] secure
  MaxKeys,       \* MAX_SESSION_JSON, in keys
  TrustRequestId,\* [server] trust_request_id: a client may choose its request's id
  MaxClockS,     \* bound: the clock
  MaxSent,       \* bound: requests sent
  MaxSaves       \* bound: session:save() calls of one handler

ASSUME SessionConstants ==
  /\ MaxAge \in Nat /\ MaxKeys \in Nat /\ SecureDefault \in BOOLEAN /\ TrustRequestId \in BOOLEAN
  /\ DOMAIN CallerOpts \subseteq {"path", "same_site", "http_only", "max_age", "secure"}

VARIABLES
  sclock,        \* unix_now()
  exch,          \* exch[x]: a request and what its handler has at hand
  slot,          \* slot[s]: the CsrfSlot of Lua state s
  kept,          \* kept[v]: the signed values visitor v was ever sent
  pages,         \* pages[v]: the tokens on the pages v was sent, and whether the chain had the middleware
  sent           \* requests sent so far; the count is the request's number

sessionVars == <<sclock, exch, slot, kept, pages, sent>>

\* Payloads are sets of names: a session's keys, or a token.
NoToken == {}
TokenNo(n) == {ToString(n)}
Unset == -1
Reserved == {"save", "clear", "_exp"}
DataKeys == {"user", "_exp"}
NoSlot == [id |-> 0, token |-> NoToken]

\* What sign() made: the name it is for and its payload.  at and wrote are
\* history: when it was signed and from what data.
Signed(name, payload, exp, wrote) ==
  [name |-> name, payload |-> payload, exp |-> exp, at |-> sclock, wrote |-> wrote]

NoCookie == [name |-> "none", payload |-> {}, exp |-> 0, at |-> 0, wrote |-> {}]

Idle == [stage |-> "idle"]

SessionInit ==
  /\ sclock = 0
  /\ exch = [x \in Exchanges |-> Idle]
  /\ slot = [s \in LuaStates |-> NoSlot]
  /\ kept = [v \in Visitors |-> {}]
  /\ pages = [v \in Visitors |-> {}]
  /\ sent = 0

InUse(s) == \E x \in Exchanges : exch[x].stage = "run" /\ exch[x].state = s
SetX(x, rec) == exch' = [exch EXCEPT ![x] = rec]

-----------------------------------------------------------------------------
(* Cookies: http/cookies.rs *)

\* A table extended by what another one has and it has not.
Extended(f, g) == [k \in DOMAIN f \cup DOMAIN g |-> IF k \in DOMAIN f THEN f[k] ELSE g[k]]

\* Mutant: http_only is set before the caller's table is merged.
MergeCookieOpts_early(defaults) == Extended(CallerOpts, Extended([http_only |-> TRUE], defaults))

\* merge_cookie_opts(): the caller extends the defaults, http_only is forced.
MergeCookieOpts(defaults) == Extended([http_only |-> TRUE], Extended(CallerOpts, defaults))

\* cookie_opts() of both modules; an age is set after the merge.
CookieOpts(age) ==
  LET merged == MergeCookieOpts([path |-> "/", same_site |-> "Lax"])
  IN  IF age = Unset THEN merged ELSE Extended([max_age |-> age], merged)

\* build_cookie(): `secure` as the options say, or as the server's policy does.
BuildCookie(name, value, age) ==
  [name |-> name, value |-> value, opts |-> Extended(CookieOpts(age), [secure |-> SecureDefault])]

\* attach_cookie(): one more Set-Cookie line.
Attach(out, name, value, age) == Append(out, BuildCookie(name, value, age))

\* verify(): a value counts under the name it was signed for.
Verify(name, c) == c.name = name

-----------------------------------------------------------------------------
(* A request, and nitr.csrf around its handler *)

\* refuses_cross_site()
RefusesCrossSite == ~("same_site" \in DOMAIN CallerOpts /\ CallerOpts.same_site = "None")

\* The check of an unsafe request: the header or the form field supplied it.
TokenOk(req) ==
  /\ ~(RefusesCrossSite /\ req.cross)
  /\ req.supplied # NoToken
  /\ ~req.issue
  /\ req.supplied = req.token

\* request_id(): a fresh id, here the request's number, unless the client's own is
\* trusted, which may be one that an earlier request had.
RequestIds == IF TrustRequestId THEN 1..(sent + 1) ELSE {sent + 1}

\* A visitor sends a request and a Lua state takes it.  mw: the chain has the
\* middleware.  The state is this request's alone until it answers, so that what
\* happens before `next` is called is one step.
SendRequest(v, x, s) ==
  /\ exch[x] = Idle /\ ~InUse(s) /\ sent < MaxSent
  /\ sent' = sent + 1
  /\ \E mw \in BOOLEAN, unsafe \in BOOLEAN, cross \in BOOLEAN, id \in RequestIds,
        sc \in {NoCookie} \cup kept[v], tc \in {NoCookie} \cup kept[v],
        supplied \in {NoToken} \cup {p.token : p \in pages[v]} \cup {c.payload : c \in kept[v]} :
       LET known == Verify("csrf", tc)
           req == [stage |-> "run", visitor |-> v, state |-> s, id |-> id, number |-> sent + 1, mw |-> mw,
                   unsafe |-> unsafe, cross |-> cross, cookie |-> sc, tcookie |-> tc, supplied |-> supplied,
                   issue |-> mw /\ ~known, token |-> IF known THEN tc.payload ELSE TokenNo(sent + 1),
                   session |-> FALSE, data |-> {}, found |-> {}, loaded |-> 0, saves |-> 0,
                   out |-> <<>>, asked |-> NoToken]
       IN  /\ mw \/ (tc = NoCookie /\ supplied = NoToken /\ ~cross /\ ~unsafe)
           /\ unsafe \/ (supplied = NoToken /\ ~cross)
           /\ slot' = IF mw THEN [slot EXCEPT ![s] = [id |-> req.id, token |-> req.token]] ELSE slot
           /\ SetX(x, IF mw /\ unsafe /\ ~TokenOk(req) THEN [req EXCEPT !.stage = "refused"] ELSE req)
  /\ UNCHANGED <<sclock, kept, pages>>

\* Mutant: the slot is read without looking whose it is.
TokenOf_anyRequest(x) == slot[exch[x].state].token

\* nitr.csrf.token(req): the slot's token when the slot is this request's.
TokenOf(x) ==
  IF slot[exch[x].state].id = exch[x].id THEN slot[exch[x].state].token ELSE NoToken

\* The handler puts the token on its page, or the call raises.
AskToken(x) ==
  /\ exch[x].stage = "run" /\ exch[x].asked = NoToken
  /\ TokenOf(x) # NoToken
  /\ SetX(x, [exch[x] EXCEPT !.asked = TokenOf(x)])
  /\ UNCHANGED <<sclock, slot, kept, pages, sent>>

-----------------------------------------------------------------------------
(* nitr.session in a handler *)

\* load_into(): a session is over when its signed expiry has come.
Expired(c) == c.exp # 0 /\ sclock >= c.exp

\* nitr.session(req, opts)
LoadSession(x) ==
  /\ exch[x].stage = "run" /\ ~exch[x].session
  /\ LET c == exch[x].cookie
         found == IF Verify("session", c) /\ ~Expired(c) THEN c.payload \ {"_exp"} ELSE {}
     IN  SetX(x, [exch[x] EXCEPT !.session = TRUE, !.data = found, !.found = found, !.loaded = sclock])
  /\ UNCHANGED <<sclock, slot, kept, pages, sent>>

SetKey(x) ==
  /\ exch[x].stage = "run" /\ exch[x].session
  /\ \E k \in DataKeys \ exch[x].data : SetX(x, [exch[x] EXCEPT !.data = @ \cup {k}])
  /\ UNCHANGED <<sclock, slot, kept, pages, sent>>

\* session:clear()
ClearSession(x) ==
  /\ exch[x].stage = "run" /\ exch[x].data # {}
  /\ SetX(x, [exch[x] EXCEPT !.data = {}])
  /\ UNCHANGED <<sclock, slot, kept, pages, sent>>

\* Mutant: `_exp` may be used as a name.
Serializable_anyName(d) == Cardinality(d) <= MaxKeys

\* serialize(): reserved names and what does not fit are refused.
Serializable(d) == d \cap Reserved = {} /\ Cardinality(d) <= MaxKeys

\* session:save(resp): an empty session deletes its cookie; another one is
\* signed with its expiry inside.  A refusal is caught by the handler or ends it.
SaveSession(x) ==
  /\ exch[x].stage = "run" /\ exch[x].session /\ exch[x].saves < MaxSaves
  /\ LET r == exch[x]
         exp == IF MaxAge > 0 THEN sclock + MaxAge ELSE 0
         line == IF r.data = {} THEN Attach(r.out, "session", NoCookie, 0)
                 ELSE Attach(r.out, "session", Signed("session", r.data, exp, r.data),
                             IF MaxAge > 0 THEN MaxAge ELSE Unset)
     IN  \/ Serializable(r.data) /\ SetX(x, [r EXCEPT !.out = line, !.saves = @ + 1])
         \/ ~Serializable(r.data) /\ SetX(x, [r EXCEPT !.stage = "failed"])
  /\ UNCHANGED <<sclock, slot, kept, pages, sent>>

-----------------------------------------------------------------------------
(* The response *)

\* The handler returns, or is refused by the middleware, and the token's cookie
\* is added to whatever goes out.  An error passes the middleware by.
SendReply(x) ==
  /\ exch[x].stage \in {"run", "refused"}
  /\ LET r == exch[x]
         out == IF r.issue THEN Attach(r.out, "csrf", Signed("csrf", r.token, 0, r.token), Unset) ELSE r.out
     IN  SetX(x, [r EXCEPT !.stage = "answered", !.out = out])
  /\ UNCHANGED <<sclock, slot, kept, pages, sent>>

HandlerFails(x) ==
  /\ exch[x].stage = "run"
  /\ SetX(x, [exch[x] EXCEPT !.stage = "failed"])
  /\ UNCHANGED <<sclock, slot, kept, pages, sent>>

\* A failed handler's cookies and page are not sent.
DeliverReply(x) ==
  /\ exch[x].stage \in {"answered", "failed"}
  /\ LET r == exch[x]
         lines == IF r.stage = "failed" THEN {} ELSE ToSet(r.out)
         page == IF r.stage = "failed" \/ r.asked = NoToken THEN {} ELSE {[token |-> r.asked, mw |-> r.mw]}
     IN  /\ kept' = [kept EXCEPT ![r.visitor] = @ \cup ({l.value : l \in lines} \ {NoCookie})]
         /\ pages' = [pages EXCEPT ![r.visitor] = @ \cup page]
  /\ SetX(x, Idle)
  /\ UNCHANGED <<sclock, slot, sent>>

SecondPasses ==
  /\ sclock < MaxClockS
  /\ sclock' = sclock + 1
  /\ UNCHANGED <<exch, slot, kept, pages, sent>>

SessionNext ==
  \/ \E v \in Visitors, x \in Exchanges, s \in LuaStates : SendRequest(v, x, s)
  \/ \E x \in Exchanges :
       \/ AskToken(x) \/ LoadSession(x) \/ SetKey(x) \/ ClearSession(x) \/ SaveSession(x)
       \/ SendReply(x) \/ HandlerFails(x) \/ DeliverReply(x)
  \/ SecondPasses

SessionSpec == SessionInit /\ [][SessionNext]_sessionVars

-----------------------------------------------------------------------------
(* Properties *)

Live(x) == exch[x] # Idle

\* A session cookie gives a handler exactly what one save wrote, until max_age
\* after that save and not from then on, whoever kept it; any other cookie sent
\* under its name gives an empty session.  (serialize, load_into, sign, verify)
SessionsAreWhole ==
  \A x \in Exchanges : Live(x) /\ exch[x].session =>
    LET c == exch[x].cookie
        live == c.name = "session" /\ (MaxAge > 0 => exch[x].loaded < c.at + MaxAge)
    IN  exch[x].found = IF live THEN c.wrote ELSE {}

\* Under the middleware, what a handler puts on its page is the token of its own
\* request, and the visitor holds the cookie that proves it when the page is there.
\* Without it a handler has no token, unless its client repeated the id of an
\* earlier request, which trust_request_id lets it: then it may be that request's.
\* The handler of an unsafe request (one that loads a session) runs for a token the
\* server once signed as such, and not for a page of another site.
\* (handle, token, CsrfSlot, request_id)
TokensAreOwn ==
  /\ \A x \in Exchanges : Live(x) =>
       /\ exch[x].asked # NoToken =>
            IF exch[x].mw THEN exch[x].asked = exch[x].token
            ELSE TrustRequestId /\ exch[x].id < exch[x].number
       /\ exch[x].mw /\ exch[x].unsafe /\ exch[x].session =>
            /\ exch[x].tcookie.name = "csrf" /\ exch[x].supplied = exch[x].tcookie.wrote
            /\ exch[x].cross => ~RefusesCrossSite
  /\ \A v \in Visitors : \A p \in pages[v] :
       p.mw => \E c \in kept[v] : c.name = "csrf" /\ c.payload = p.token

\* Whatever the caller's options say, the two cookies are out of scripts' reach,
\* and a cleared session is sent as a deletion.  (merge_cookie_opts, cookie_opts)
CookiesAreGuarded ==
  \A x \in Exchanges : Live(x) => \A i \in DOMAIN exch[x].out :
    LET l == exch[x].out[i]
    IN  l.opts.http_only /\ (l.value = NoCookie => l.opts.max_age = 0)

\* A handler finds what its own visitor's cookie carries, and has its own request's
\* token or none, as long as ids are the server's.
VisitorsAreKeptApart == SessionsAreWhole /\ TokensAreOwn /\ CookiesAreGuarded
=============================================================================
