-------------------------------- MODULE Fetch -------------------------------
(***************************************************************************)
(* Outbound calls (crates/nitr-std/src/fetch): the handles of one          *)
(* await_all(...), or the single one of handle:send(), performed under the *)
(* operator's policy with redirects followed by hand and attempts repeated *)
(* where that is safe.                                                     *)
(*                                                                         *)
(* A URL is its origin: one more path on it changes nothing here.  A name  *)
(* may resolve to something else at every lookup.  Proxies, header fields  *)
(* other than credentials, bodies and the length of waits are left out.    *)
(***************************************************************************)
EXTENDS Integers, Sequences, FiniteSets

CONSTANTS
  Home, Away,       \* origins with a public name
  Inside,           \* an origin whose host the operator put in private_hosts
  LocalLiteral,     \* an origin whose host is a local IP address
  OtherScheme,      \* a URL that is neither http nor https
  Unlisted,         \* a host that is not in allowed_hosts
  MaxHandles,       \* bound: handles of one await_all
  MaxConcurrent,    \* fetch.max_concurrent
  MaxPerRequest,    \* fetch.max_per_request, 0 for no limit
  MaxRetries,       \* fetch.max_retries
  MaxRedirects,     \* MAX_REDIRECTS
  MaxCalls          \* bound: calls of one inbound request

ASSUME FetchConstants ==
  /\ MaxConcurrent \in Nat /\ MaxPerRequest \in Nat
  /\ MaxRetries \in Nat /\ MaxRedirects \in Nat /\ MaxHandles \in Nat
  /\ Inside # LocalLiteral

VARIABLES
  jobs,       \* the call's jobs in argument order, empty between calls
  yielded,    \* how many results the call has collected
  outcome,    \* "none" until the call returns "ok" or "error"
  taken,      \* OutboundBudget
  calls,      \* the calls of this inbound request
  performed   \* history: fetches this inbound request was allowed

fetchVars == <<jobs, yielded, outcome, taken, calls, performed>>

Origins == {Home, Away, Inside, LocalLiteral, OtherScheme, Unlisted}
Answers == (SUBSET {"public", "private"}) \cup {{"failure"}}   \* what a lookup yields

\* A handle: what it asks for and how a test double answers it ("none" outside a test).
Handle(m, attempts, vouched, o, double) ==
  [kind |-> "fetch", method |-> m, attempts |-> attempts, vouched |-> vouched,
   origin |-> o, double |-> double]

\* The handles of a call with n of them.  Bound: the variety of one request is explored
\* alone, what several do to each other with plain ones.
Handles(n) ==
  {Handle("GET", 0, FALSE, Home, d) : d \in {"none", "canned", "refused", "error"}}
    \cup {[kind |-> "query"], [kind |-> "foreign"]}
    \cup IF n > 1 THEN {}
         ELSE {Handle(m, 2, v, Home, "none") : m \in {"GET", "POST"}, v \in BOOLEAN}
                \cup {Handle("POST", 0, FALSE, o, "none") : o \in Origins}

-----------------------------------------------------------------------------
(* One attempt's request. *)

\* is_idempotent()
IsIdempotent(h) == h.vouched \/ h.method = "GET"

\* Mutant: a retry is honoured for every method.
Attempts_anyMethod(h) ==
  IF h.attempts > 0
    THEN LET n == IF h.attempts < MaxRetries THEN h.attempts ELSE MaxRetries
         IN  IF n > 1 THEN n ELSE 1
    ELSE 1

\* How often the request may be attempted (attempts = 0: no retry option).
Attempts(h) ==
  IF h.attempts > 0 /\ IsIdempotent(h)
    THEN LET n == IF h.attempts < MaxRetries THEN h.attempts ELSE MaxRetries
         IN  IF n > 1 THEN n ELSE 1
    ELSE 1

\* A job at the start of an attempt: execute() works on a copy of the spec.  The
\* history counts the POSTs the call sent without an upstream asking for a repeat.
Fresh(h, attempt, posts) ==
  [h |-> h, pc |-> "check", attempt |-> attempt, hops |-> 0, method |-> h.method,
   at |-> h.origin, credentials |-> TRUE, peer |-> "none", asked |-> FALSE,
   posts |-> posts]

Queued(h) == [Fresh(h, 1, 0) EXCEPT !.pc = "queued"]

\* A job with nothing to send: a database query, or a fetch a double answered.
NoRequest(h) == [h |-> h, pc |-> "queued"]

-----------------------------------------------------------------------------
(* The budget, and the start of a call. *)

\* Mutant: the count is compared before it is raised, so the first refusal comes late.
TakeFails_late(n) == MaxPerRequest # 0 /\ n > MaxPerRequest

\* take() refuses once n calls have been counted.
TakeFails(n) == MaxPerRequest # 0 /\ n >= MaxPerRequest

\* The fetches among the first n handles.
Fetches(hs, n) == {i \in 1..n : hs[i].kind = "fetch"}

\* Handle i ends the collection: over budget, not a handle, refused or failed by a double.
Stops(hs, i) ==
  \/ hs[i].kind = "foreign"
  \/ /\ hs[i].kind = "fetch"
     /\ \/ TakeFails(taken + Cardinality(Fetches(hs, i - 1)))
        \/ hs[i].double \in {"refused", "error"}

JobOf(h) == IF h.kind = "fetch" /\ h.double = "none" THEN Queued(h) ELSE NoRequest(h)

\* await_all(h1, h2, ...): every handle is counted and copied out before the first wait.
AwaitAll(hs) ==
  /\ jobs = <<>> /\ outcome = "none" /\ calls < MaxCalls
  /\ calls' = calls + 1
  /\ yielded' = 0
  /\ LET stop == {i \in 1..Len(hs) : Stops(hs, i)}
         upTo == IF stop = {} THEN Len(hs) ELSE CHOOSE i \in stop : \A k \in stop : i <= k
         refused == stop # {} /\ hs[upTo].kind = "fetch"
                    /\ TakeFails(taken + Cardinality(Fetches(hs, upTo - 1)))
     IN  /\ taken' = IF MaxPerRequest = 0 THEN taken
                     ELSE taken + Cardinality(Fetches(hs, upTo))
         /\ performed' = performed + Cardinality(Fetches(hs, upTo))
                         - (IF refused THEN 1 ELSE 0)
         /\ IF stop = {} THEN jobs' = [i \in 1..Len(hs) |-> JobOf(hs[i])] /\ outcome' = "none"
                         ELSE jobs' = <<>> /\ outcome' = "error"

-----------------------------------------------------------------------------
(* send_with_retries() and execute(). *)

Running(i) == jobs[i].pc \notin {"queued", "ok", "error"}

\* buffered(): jobs start in order, and an ended one keeps its place until collected.
Room(i) ==
  /\ \A k \in 1..(i - 1) : jobs[k].pc # "queued"
  /\ i <= yielded + (IF MaxConcurrent > 1 THEN MaxConcurrent ELSE 1)

Start(i) ==
  /\ jobs[i].pc = "queued" /\ Room(i)
  /\ jobs' = [jobs EXCEPT ![i].pc = IF "attempt" \in DOMAIN jobs[i] THEN "check" ELSE "local"]
  /\ UNCHANGED <<yielded, outcome, taken, calls, performed>>

\* A query, or a canned response: it ends without the network.
EndLocal(i) ==
  /\ jobs[i].pc = "local"
  /\ \E pc \in (IF jobs[i].h.kind = "query" THEN {"ok", "error"} ELSE {"ok"}) :
       jobs' = [jobs EXCEPT ![i].pc = pc]
  /\ UNCHANGED <<yielded, outcome, taken, calls, performed>>

\* What the attempt's end means for the call.
Ended(j, result) ==
  CASE result = "ok" -> [j EXCEPT !.pc = "ok"]
    [] result = "refused" -> [j EXCEPT !.pc = "error"]
    [] result = "busy" ->
         [j EXCEPT !.pc = IF j.attempt >= Attempts(j.h) THEN "ok" ELSE "backoff"]
    [] result = "lost" ->
         [j EXCEPT !.pc = IF j.attempt >= Attempts(j.h) THEN "error" ELSE "backoff"]

\* check_url(): scheme, allowed_hosts, then a first lookup unless private is allowed here.
CheckUrl(o, answer) ==
  IF o \in {OtherScheme, Unlisted} THEN "refused"
  ELSE IF o = Inside THEN "pass"
  ELSE IF o = LocalLiteral THEN "refused"
  ELSE IF answer = {"failure"} THEN "lost"
  ELSE IF answer = {} \/ "private" \in answer THEN "refused"
  ELSE "pass"

CheckHop(i) ==
  /\ jobs[i].pc = "check"
  /\ \E answer \in Answers :
       LET verdict == CheckUrl(jobs[i].at, answer)
       IN  jobs' = [jobs EXCEPT ![i] =
                      IF verdict = "pass" THEN [@ EXCEPT !.pc = "connect"] ELSE Ended(@, verdict)]
  /\ UNCHANGED <<yielded, outcome, taken, calls, performed>>

\* Mutant: the connector's own lookup is not filtered.
Resolve_unguarded(o, answer) == answer

\* GuardedResolver: the addresses the connector is handed.
Resolve(o, answer) == IF o = Inside THEN answer ELSE answer \ {"private"}

\* The connector looks the name up again and connects to an address it is handed.
Connect(i) ==
  /\ jobs[i].pc = "connect"
  /\ \E answer \in Answers :
       LET handed == Resolve(jobs[i].at, answer)
       IN  \/ /\ answer \in {{}, {"failure"}}
              /\ jobs' = [jobs EXCEPT ![i] = Ended(@, "lost")]
           \/ /\ answer \notin {{}, {"failure"}} /\ handed = {}
              /\ jobs' = [jobs EXCEPT ![i] = Ended(@, "refused")]
           \/ \E a \in handed \ {"failure"} :
                jobs' = [jobs EXCEPT ![i].pc = "sent", ![i].peer = a,
                           ![i].posts = IF jobs[i].method = "POST" /\ ~jobs[i].asked
                                          THEN @ + 1 ELSE @]
  /\ UNCHANGED <<yielded, outcome, taken, calls, performed>>

\* The exchange ends: an answer, one worth repeating, a failure or the timeout.
Answer(i) ==
  /\ jobs[i].pc = "sent"
  /\ \E result \in {"ok", "busy", "lost"} :
       jobs' = [jobs EXCEPT ![i] = Ended([@ EXCEPT !.peer = "none"], result)]
  /\ UNCHANGED <<yielded, outcome, taken, calls, performed>>

\* Mutant: the comparison comes after the URL was replaced.
KeepsCredentials_late(from, to) == to = to

\* same_origin(): credentials travel no further.
KeepsCredentials(from, to) == from = to

TooManyHops(hops) == hops > MaxRedirects

\* A redirect to another URL; 307 and 308 keep the method and the body, and so ask for
\* the request to be made again.
Redirect(i) ==
  /\ jobs[i].pc = "sent"
  /\ LET j == jobs[i]
     IN  IF TooManyHops(j.hops + 1)
           THEN jobs' = [jobs EXCEPT ![i] = Ended([@ EXCEPT !.peer = "none"], "refused")]
           ELSE \E to \in Origins, keep \in BOOLEAN :
                  jobs' = [jobs EXCEPT ![i] =
                    [j EXCEPT !.pc = "check", !.peer = "none", !.hops = j.hops + 1, !.at = to,
                       !.credentials = j.credentials /\ KeepsCredentials(j.at, to),
                       !.method = IF keep THEN j.method ELSE "GET",
                       !.asked = TRUE]]
  /\ UNCHANGED <<yielded, outcome, taken, calls, performed>>

\* A redirect whose Location does not parse fails the attempt for good.
BadLocation(i) ==
  /\ jobs[i].pc = "sent"
  /\ jobs' = [jobs EXCEPT ![i] = Ended([@ EXCEPT !.peer = "none"], "refused")]
  /\ UNCHANGED <<yielded, outcome, taken, calls, performed>>

\* The backoff is over: the whole request again, from its first URL.
Retry(i) ==
  /\ jobs[i].pc = "backoff"
  /\ jobs' = [jobs EXCEPT ![i] = Fresh(@.h, @.attempt + 1, @.posts)]
  /\ UNCHANGED <<yielded, outcome, taken, calls, performed>>

-----------------------------------------------------------------------------
(* The end of a call. *)

\* buffered() hands results over in argument order.
NextResult == {i \in {yielded + 1} \cap 1..Len(jobs) : jobs[i].pc \in {"ok", "error"}}

\* try_collect(): the first error ends the call and drops what is still in flight.
Collect ==
  /\ jobs # <<>>
  /\ \E i \in NextResult :
       \/ /\ jobs[i].pc = "ok" /\ yielded + 1 < Len(jobs)
          /\ yielded' = yielded + 1 /\ UNCHANGED <<jobs, outcome>>
       \/ /\ jobs[i].pc = "ok" /\ yielded + 1 = Len(jobs)
          /\ yielded' = Len(jobs) /\ outcome' = "ok" /\ UNCHANGED jobs
       \/ /\ jobs[i].pc = "error"
          /\ outcome' = "error" /\ yielded' = 0 /\ jobs' = <<>>
  /\ outcome = "none"
  /\ UNCHANGED <<taken, calls, performed>>

\* The handler goes on with what the call returned.
Resume ==
  /\ outcome # "none"
  /\ jobs' = <<>> /\ yielded' = 0 /\ outcome' = "none"
  /\ UNCHANGED <<taken, calls, performed>>

\* The state is dispatched to the next inbound request, whose handler starts over
\* whatever the last one was doing when it ended: reset_outbound_budget().
Dispatch ==
  /\ jobs' = <<>> /\ yielded' = 0 /\ outcome' = "none"
  /\ taken' = 0 /\ calls' = 0 /\ performed' = 0

FetchInit ==
  /\ jobs = <<>> /\ yielded = 0 /\ outcome = "none"
  /\ taken = 0 /\ calls = 0 /\ performed = 0

FetchNext ==
  \/ \E n \in 1..MaxHandles : \E hs \in [1..n -> Handles(n)] : AwaitAll(hs)
  \/ \E i \in 1..Len(jobs) :
       \/ Start(i) \/ EndLocal(i) \/ CheckHop(i) \/ Connect(i) \/ Answer(i)
       \/ Redirect(i) \/ BadLocation(i) \/ Retry(i)
  \/ Collect \/ Resume \/ Dispatch

FetchSpec == FetchInit /\ [][FetchNext]_fetchVars

-----------------------------------------------------------------------------
(* Properties. *)

Sent(j) == j.pc = "sent"

\* A credential the script addressed to one origin is sent to no other, through any
\* chain of redirects, there and back again included (execute, strip_sensitive_headers).
CredentialsStayHome ==
  \A i \in 1..Len(jobs) : Sent(jobs[i]) /\ jobs[i].credentials => jobs[i].at = jobs[i].h.origin

\* Every exchange, each hop's and each attempt's, is with a host and an address the
\* policy allows, also when a name resolves differently at the check and at the
\* connection (check_url, GuardedResolver).
OnlyAllowedPeers ==
  \A i \in 1..Len(jobs) :
    Sent(jobs[i]) => /\ jobs[i].at \notin {OtherScheme, Unlisted, LocalLiteral}
                     /\ jobs[i].peer = "public" \/ jobs[i].at = Inside

\* A POST the caller did not vouch for is sent once, unless the upstream asks for it
\* again with a redirect that keeps the method ("Retrying a POST is how a customer gets
\* charged twice", is_idempotent).
PostedOnce ==
  \A i \in 1..Len(jobs) :
    "attempt" \in DOMAIN jobs[i] /\ ~jobs[i].h.vouched => jobs[i].posts <= 1

\* An attempt is at most one exchange and MAX_REDIRECTS more, and the attempts stay
\* under the operator's ceiling: no upstream keeps a call going for ever.
ExchangesBounded ==
  \A i \in 1..Len(jobs) :
    "attempt" \in DOMAIN jobs[i] =>
      /\ jobs[i].hops <= MaxRedirects
      /\ jobs[i].attempt <= (IF MaxRetries > 1 THEN MaxRetries ELSE 1)

\* One await_all has no more than max_concurrent requests under way.
ConcurrencyCapped ==
  Cardinality({i \in 1..Len(jobs) : Running(i)})
    <= (IF MaxConcurrent > 1 THEN MaxConcurrent ELSE 1)

\* However its calls are cut into await_alls, some of them failing half collected, an
\* inbound request is allowed no more fetches than max_per_request (OutboundBudget),
\* and each of them is bounded, alone and beside the others.
WorkBounded ==
  /\ MaxPerRequest # 0 => performed <= MaxPerRequest
  /\ ExchangesBounded
  /\ ConcurrencyCapped

\* A call goes where it may, with what it may carry there, and does no more than its
\* caller and the configuration allow.
CallsStayInBounds == CredentialsStayHome /\ OnlyAllowedPeers /\ PostedOnce /\ WorkBounded

=============================================================================
