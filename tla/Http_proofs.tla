----------------------------- MODULE Http_proofs -----------------------------
(***************************************************************************)
(* Proofs about outbound calls, for every limit of the configuration,      *)
(* about the header parsers, for headers of every length, about the input  *)
(* a route declares, for content lists of every length, about static files *)
(* and uploads, for every file system and every path, and about the rules  *)
(* between the fields of schemas, for all the schemas a script may write.  *)
(***************************************************************************)
EXTENDS Fetch, Negotiation, RouteInput, Paths, Schemas, FiniteSetTheorems, SequenceTheorems, WellFoundedInduction, NaturalsInduction, TLAPS

Doubles == {"none", "canned", "refused", "error"}
FetchHandles ==
  [kind : {"fetch"}, method : {"GET", "POST"}, attempts : Nat, vouched : BOOLEAN, origin : Origins,
   double : Doubles]
OtherHandles == {[kind |-> "query"], [kind |-> "foreign"]}

Calling == {"queued", "check", "connect", "sent", "backoff", "ok", "error"}
Calls ==
  [h : FetchHandles, pc : Calling, attempt : Nat, hops : Nat, method : {"GET", "POST"}, at : Origins,
   credentials : BOOLEAN, peer : {"none", "public", "private"}, asked : BOOLEAN, posts : Nat]
Locals == [h : FetchHandles \cup OtherHandles, pc : {"queued", "local", "ok", "error"}]

Cap == IF MaxConcurrent > 1 THEN MaxConcurrent ELSE 1
Ceiling == IF MaxRetries > 1 THEN MaxRetries ELSE 1

FetchTypeOK ==
  /\ jobs \in Seq(Calls \cup Locals)
  /\ yielded \in Nat /\ taken \in Nat /\ performed \in Nat /\ calls \in Nat
  /\ outcome \in {"none", "ok", "error"}

\* What holds of a call wherever it is.  A POST that nobody vouched for has one attempt,
\* and before it is sent it has not been sent.
CallInv(j) ==
  /\ 1 <= j.attempt /\ j.attempt <= Attempts(j.h)
  /\ j.pc = "backoff" => j.attempt < Attempts(j.h)
  /\ j.hops <= MaxRedirects
  /\ j.credentials => j.at = j.h.origin
  /\ j.pc \in {"connect", "sent"} => j.at \notin {OtherScheme, Unlisted, LocalLiteral}
  /\ j.pc = "sent" => j.peer = "public" \/ j.at = Inside
  /\ j.method = "POST" => j.h.method = "POST"
  /\ ~j.h.vouched =>
       /\ j.posts <= 1
       /\ j.pc \in {"queued", "check", "connect"} /\ ~j.asked /\ j.method = "POST" => j.posts = 0

\* Where the window of buffered() is.
WindowInv ==
  /\ yielded <= Len(jobs)
  /\ \A i \in 1..Len(jobs) : i <= yielded => jobs[i].pc = "ok"
  /\ \A i \in 1..Len(jobs) : Running(i) => i <= yielded + Cap

BudgetInv == MaxPerRequest # 0 => performed <= taken /\ performed <= MaxPerRequest

FetchInv ==
  /\ FetchTypeOK
  /\ \A i \in 1..Len(jobs) : jobs[i] \in Calls => CallInv(jobs[i])
  /\ WindowInv
  /\ BudgetInv

-----------------------------------------------------------------------------
(* Calls and their fields *)

LEMMA CallTypes ==
  ASSUME NEW j \in Calls
  PROVE  /\ "attempt" \in DOMAIN j /\ j \notin Locals
         /\ j.h \in FetchHandles /\ j.pc \in Calling /\ j.attempt \in Nat /\ j.hops \in Nat
         /\ j.method \in {"GET", "POST"} /\ j.at \in Origins /\ j.credentials \in BOOLEAN
         /\ j.asked \in BOOLEAN /\ j.posts \in Nat
<1>1. ASSUME j \in Locals PROVE "attempt" \notin DOMAIN j
  BY <1>1 DEF Locals
<1>2. "attempt" \in DOMAIN j
  BY DEF Calls
<1> QED BY <1>1, <1>2 DEF Calls

LEMMA LocalTypes ==
  ASSUME NEW j \in Locals
  PROVE  "attempt" \notin DOMAIN j /\ j \notin Calls /\ j.pc \in {"queued", "local", "ok", "error"}
<1>1. "attempt" \notin DOMAIN j /\ j.pc \in {"queued", "local", "ok", "error"}
  BY DEF Locals
<1> QED BY <1>1, CallTypes

\* How often a handle is attempted: within the operator's ceiling, and once when a repeat
\* would not be safe.
LEMMA AttemptsBounded ==
  ASSUME NEW h \in FetchHandles
  PROVE  /\ Attempts(h) \in Nat /\ 1 <= Attempts(h) /\ Attempts(h) <= Ceiling
         /\ h.method = "POST" /\ ~h.vouched => Attempts(h) = 1
<1>1. h.attempts \in Nat /\ MaxRetries \in Nat
  BY FetchConstants DEF FetchHandles
<1>2. Attempts(h) \in Nat /\ 1 <= Attempts(h) /\ Attempts(h) <= Ceiling
  BY <1>1 DEF Attempts, Ceiling
<1>3. h.method = "POST" /\ ~h.vouched => Attempts(h) = 1
  BY DEF Attempts, IsIdempotent
<1> QED BY <1>2, <1>3

\* A call of which only the place and the peer change.
Moved(new, j) ==
  /\ new \in Calls
  /\ new.h = j.h /\ new.attempt = j.attempt /\ new.hops = j.hops /\ new.method = j.method
  /\ new.at = j.at /\ new.credentials = j.credentials /\ new.asked = j.asked /\ new.posts = j.posts

LEMMA MovesPc ==
  ASSUME NEW j \in Calls, NEW p \in Calling, NEW new, new = [j EXCEPT !.pc = p]
  PROVE  Moved(new, j) /\ new.pc = p /\ new.peer = j.peer
BY DEF Calls, Moved

LEMMA MovesPeer ==
  ASSUME NEW j \in Calls, NEW p \in {"none", "public", "private"}, NEW new, new = [j EXCEPT !.peer = p]
  PROVE  Moved(new, j) /\ new.peer = p /\ new.pc = j.pc
BY DEF Calls, Moved

\* A call that comes to rest, or waits for its next attempt.
LEMMA RestInv ==
  ASSUME NEW j \in Calls, CallInv(j), NEW new, Moved(new, j), new.pc \in {"ok", "error", "backoff"},
         new.pc = "backoff" => j.attempt < Attempts(j.h)
  PROVE  CallInv(new)
BY DEF CallInv, Moved

LEMMA EndedInv ==
  ASSUME NEW j \in Calls, CallInv(j), NEW result \in {"ok", "refused", "busy", "lost"}
  PROVE  LET new == Ended(j, result)
         IN  new \in Calls /\ CallInv(new) /\ new.pc \in {"ok", "error", "backoff"}
<1> DEFINE new == Ended(j, result)
<1>1. PICK p \in {"ok", "error", "backoff"} :
        new = [j EXCEPT !.pc = p] /\ (p = "backoff" => ~(j.attempt >= Attempts(j.h)))
  BY DEF Ended
<1>2. Moved(new, j) /\ new.pc = p
  BY <1>1, MovesPc DEF Calling
<1>3. p = "backoff" => j.attempt < Attempts(j.h)
  <2>1. j.attempt \in Nat /\ Attempts(j.h) \in Nat
    BY CallTypes, AttemptsBounded
  <2> QED BY <1>1, <2>1
<1> HIDE DEF new
<1>4. CallInv(new)
  BY <1>2, <1>3, RestInv
<1> QED BY <1>2, <1>4 DEF Moved, new

\* A step of one job.
LEMMA JobStep ==
  ASSUME FetchInv, NEW i \in 1..Len(jobs), NEW new \in Calls \cup Locals,
         jobs' = [jobs EXCEPT ![i] = new], UNCHANGED <<yielded, outcome, taken, calls, performed>>,
         new \in Calls => CallInv(new),
         jobs[i].pc # "ok", Running(i) \/ i <= yielded + Cap
  PROVE  FetchInv'
<1>1. /\ jobs' \in Seq(Calls \cup Locals) /\ Len(jobs') = Len(jobs) /\ jobs'[i] = new
      /\ \A k \in 1..Len(jobs) : k # i => jobs'[k] = jobs[k]
  BY DEF FetchInv, FetchTypeOK
<1>2. FetchTypeOK'
  BY <1>1 DEF FetchInv, FetchTypeOK
<1>3. ASSUME NEW k \in 1..Len(jobs), jobs'[k] \in Calls PROVE CallInv(jobs[k])'
  <2>1. CASE k = i
    BY <1>1, <1>3, <2>1
  <2>2. CASE k # i
    BY <1>1, <1>3, <2>2 DEF FetchInv
  <2> QED BY <2>1, <2>2
<1>4. WindowInv'
  <2>1. ~(i <= yielded)
    BY DEF FetchInv, WindowInv
  <2>2. i <= yielded + Cap
    BY DEF FetchInv, WindowInv
  <2>3. \A k \in 1..Len(jobs) : k # i => (Running(k)' <=> Running(k))
    BY <1>1 DEF Running
  <2> QED BY <1>1, <2>1, <2>2, <2>3 DEF FetchInv, WindowInv
<1>5. BudgetInv'
  BY DEF FetchInv, BudgetInv
<1> QED BY <1>1, <1>2, <1>3, <1>4, <1>5 DEF FetchInv


LEMMA JobFacts ==
  ASSUME FetchInv, NEW i \in 1..Len(jobs)
  PROVE  /\ jobs[i] \in Calls \cup Locals
         /\ jobs[i] \in Calls => CallInv(jobs[i])
         /\ jobs[i].pc \in {"check", "connect", "sent", "backoff"} => jobs[i] \in Calls /\ Running(i)
<1>1. jobs[i] \in Calls \cup Locals
  BY DEF FetchInv, FetchTypeOK
<1>2. jobs[i].pc \in {"check", "connect", "sent", "backoff"} => jobs[i] \in Calls /\ Running(i)
  BY <1>1, LocalTypes DEF Running
<1> QED BY <1>1, <1>2 DEF FetchInv

LEMMA StartKeeps ==
  ASSUME FetchInv, NEW i \in 1..Len(jobs), Start(i)
  PROVE  FetchInv'
<1> DEFINE j == jobs[i]
           new == [j EXCEPT !.pc = IF "attempt" \in DOMAIN j THEN "check" ELSE "local"]
<1>1. /\ j.pc = "queued" /\ jobs' = [jobs EXCEPT ![i] = new] /\ i <= yielded + Cap
      /\ UNCHANGED <<yielded, outcome, taken, calls, performed>>
  BY DEF Start, Room, Cap
<1>2. CASE j \in Calls
  <2>1. new = [j EXCEPT !.pc = "check"] /\ CallInv(j)
    BY <1>2, CallTypes, JobFacts
  <2> HIDE DEF new
  <2>2. Moved(new, j) /\ new.pc = "check"
    BY <1>2, <2>1, MovesPc DEF Calling
  <2>3. CallInv(new)
    BY <1>1, <2>1, <2>2 DEF CallInv, Moved
  <2> QED BY <1>1, <2>2, <2>3, JobStep DEF Moved
<1>3. CASE j \in Locals
  <2>1. new = [j EXCEPT !.pc = "local"]
    BY <1>3, LocalTypes
  <2> HIDE DEF new
  <2>2. new \in Locals
    BY <1>3, <2>1 DEF Locals
  <2> QED BY <1>1, <2>2, LocalTypes, JobStep
<1> QED BY <1>2, <1>3, JobFacts

LEMMA EndLocalKeeps ==
  ASSUME FetchInv, NEW i \in 1..Len(jobs), EndLocal(i)
  PROVE  FetchInv'
<1>1. PICK p \in {"ok", "error"} : jobs' = [jobs EXCEPT ![i].pc = p]
  BY DEF EndLocal
<1> DEFINE j == jobs[i]
           new == [j EXCEPT !.pc = p]
<1>2. /\ j.pc = "local" /\ jobs' = [jobs EXCEPT ![i] = new]
      /\ UNCHANGED <<yielded, outcome, taken, calls, performed>>
  BY <1>1 DEF EndLocal
<1>3. j \in Locals /\ Running(i)
  <2>1. j \notin Calls
    BY <1>2, CallTypes DEF Calling
  <2> QED BY <1>2, <2>1, JobFacts DEF Running
<1>4. new \in Locals
  BY <1>3 DEF Locals
<1> HIDE DEF new
<1> QED BY <1>2, <1>3, <1>4, LocalTypes, JobStep

LEMMA CheckHopKeeps ==
  ASSUME FetchInv, NEW i \in 1..Len(jobs), CheckHop(i)
  PROVE  FetchInv'
<1> DEFINE j == jobs[i]
<1>1. PICK answer \in Answers :
        jobs' = [jobs EXCEPT ![i] = IF CheckUrl(j.at, answer) = "pass" THEN [j EXCEPT !.pc = "connect"]
                                    ELSE Ended(j, CheckUrl(j.at, answer))]
  BY DEF CheckHop
<1>2. j.pc = "check" /\ UNCHANGED <<yielded, outcome, taken, calls, performed>>
  BY DEF CheckHop
<1>3. j \in Calls /\ CallInv(j) /\ Running(i)
  BY <1>2, JobFacts
<1> DEFINE verdict == CheckUrl(j.at, answer)
<1>4. /\ verdict \in {"pass", "refused", "lost"}
      /\ verdict = "pass" => j.at \notin {OtherScheme, Unlisted, LocalLiteral}
  BY FetchConstants DEF CheckUrl
<1> HIDE DEF verdict
<1>5. CASE verdict = "pass"
  <2> DEFINE new == [j EXCEPT !.pc = "connect"]
  <2>1. jobs' = [jobs EXCEPT ![i] = new]
    BY <1>1, <1>5 DEF verdict
  <2>2. Moved(new, j) /\ new.pc = "connect"
    BY <1>3, MovesPc DEF Calling
  <2> HIDE DEF new
  <2>3. CallInv(new)
    BY <1>2, <1>3, <1>4, <1>5, <2>2 DEF CallInv, Moved
  <2> QED BY <1>2, <1>3, <2>1, <2>2, <2>3, JobStep DEF Moved
<1>6. CASE verdict # "pass"
  <2> DEFINE new == Ended(j, verdict)
  <2>1. jobs' = [jobs EXCEPT ![i] = new]
    BY <1>1, <1>6 DEF verdict
  <2>2. new \in Calls /\ CallInv(new)
    BY <1>3, <1>4, <1>6, EndedInv
  <2> HIDE DEF new
  <2> QED BY <1>2, <1>3, <2>1, <2>2, JobStep
<1> QED BY <1>5, <1>6

LEMMA ConnectKeeps ==
  ASSUME FetchInv, NEW i \in 1..Len(jobs), Connect(i)
  PROVE  FetchInv'
<1> DEFINE j == jobs[i]
           count == IF j.method = "POST" /\ ~j.asked THEN j.posts + 1 ELSE j.posts
<1>1. j.pc = "connect" /\ UNCHANGED <<yielded, outcome, taken, calls, performed>>
  BY DEF Connect
<1>2. j \in Calls /\ CallInv(j) /\ Running(i)
  BY <1>1, JobFacts
<1>3. PICK answer \in Answers :
        \/ jobs' = [jobs EXCEPT ![i] = Ended(j, "lost")]
        \/ jobs' = [jobs EXCEPT ![i] = Ended(j, "refused")]
        \/ \E a \in Resolve(j.at, answer) \ {"failure"} :
             jobs' = [jobs EXCEPT ![i].pc = "sent", ![i].peer = a, ![i].posts = count]
  BY DEF Connect
<1>4. ASSUME NEW result \in {"lost", "refused"}, jobs' = [jobs EXCEPT ![i] = Ended(j, result)]
      PROVE  FetchInv'
  <2> DEFINE new == Ended(j, result)
  <2>1. new \in Calls /\ CallInv(new)
    BY <1>2, EndedInv
  <2>2. jobs' = [jobs EXCEPT ![i] = new]
    BY <1>4
  <2> HIDE DEF new
  <2> QED BY <1>1, <1>2, <2>1, <2>2, JobStep
<1>5. ASSUME NEW a \in Resolve(j.at, answer) \ {"failure"},
             jobs' = [jobs EXCEPT ![i].pc = "sent", ![i].peer = a, ![i].posts = count]
      PROVE  FetchInv'
  <2> DEFINE new == [j EXCEPT !.pc = "sent", !.peer = a, !.posts = count]
  <2>1. jobs' = [jobs EXCEPT ![i] = new]
    BY <1>5 DEF FetchInv, FetchTypeOK
  <2>2. a \in {"public", "private"} /\ (a = "public" \/ j.at = Inside)
    BY <1>5 DEF Resolve, Answers
  <2>3. count \in Nat /\ (~j.h.vouched => count <= 1)
    <3>1. j.posts \in Nat
      BY <1>2, CallTypes
    <3>2. ~j.h.vouched => j.posts <= 1 /\ (j.method = "POST" /\ ~j.asked => j.posts = 0)
      BY <1>1, <1>2 DEF CallInv
    <3> QED BY <3>1, <3>2
  <2> HIDE DEF count
  <2>4. /\ new \in Calls /\ new.pc = "sent" /\ new.peer = a /\ new.posts = count
        /\ new.h = j.h /\ new.attempt = j.attempt /\ new.hops = j.hops /\ new.method = j.method
        /\ new.at = j.at /\ new.credentials = j.credentials /\ new.asked = j.asked
    <3> HIDE DEF j
    <3> QED BY <1>2, <2>2, <2>3 DEF Calls, Calling
  <2> HIDE DEF new
  <2>5. CallInv(new)
    BY <1>1, <1>2, <2>2, <2>3, <2>4 DEF CallInv
  <2> QED BY <1>1, <1>2, <2>1, <2>4, <2>5, JobStep
<1> QED BY <1>3, <1>4, <1>5


\* What ends an exchange, whatever comes of it.
LEMMA ExchangeEnds ==
  ASSUME FetchInv, NEW i \in 1..Len(jobs), jobs[i].pc = "sent",
         UNCHANGED <<yielded, outcome, taken, calls, performed>>,
         NEW result \in {"ok", "refused", "busy", "lost"},
         jobs' = [jobs EXCEPT ![i] = Ended([jobs[i] EXCEPT !.peer = "none"], result)]
  PROVE  FetchInv'
<1> DEFINE j == jobs[i]
           closed == [j EXCEPT !.peer = "none"]
           new == Ended(closed, result)
           rest == [closed EXCEPT !.pc = "ok"]
<1>1. j \in Calls /\ CallInv(j) /\ Running(i) /\ j.pc = "sent"
  BY JobFacts
<1>2. Moved(closed, j)
  BY <1>1, MovesPeer
<1>3. jobs' = [jobs EXCEPT ![i] = new]
  OBVIOUS
<1> HIDE DEF closed
<1>4. PICK p \in {"ok", "error", "backoff"} :
        new = [closed EXCEPT !.pc = p] /\ (p = "backoff" => ~(closed.attempt >= Attempts(closed.h)))
  BY DEF Ended
<1>5. Moved(new, closed) /\ new.pc = p
  BY <1>2, <1>4, MovesPc DEF Calling, Moved
<1>6. Moved(new, j)
  BY <1>2, <1>5 DEF Moved
<1>7. p = "backoff" => j.attempt < Attempts(j.h)
  <2>1. j.attempt \in Nat /\ Attempts(j.h) \in Nat /\ closed.attempt = j.attempt /\ closed.h = j.h
    BY <1>1, <1>2, CallTypes, AttemptsBounded DEF Moved
  <2> QED BY <1>4, <2>1
<1> HIDE DEF new
<1>8. CallInv(new)
  BY <1>1, <1>5, <1>6, <1>7, RestInv
<1> QED BY <1>1, <1>3, <1>6, <1>8, JobStep DEF Moved

LEMMA AnswerKeeps ==
  ASSUME FetchInv, NEW i \in 1..Len(jobs), Answer(i)
  PROVE  FetchInv'
<1>1. PICK result \in {"ok", "busy", "lost"} :
        jobs' = [jobs EXCEPT ![i] = Ended([jobs[i] EXCEPT !.peer = "none"], result)]
  BY DEF Answer
<1> QED BY <1>1, ExchangeEnds DEF Answer

LEMMA BadLocationKeeps ==
  ASSUME FetchInv, NEW i \in 1..Len(jobs), BadLocation(i)
  PROVE  FetchInv'
BY ExchangeEnds DEF BadLocation

LEMMA RedirectKeeps ==
  ASSUME FetchInv, NEW i \in 1..Len(jobs), Redirect(i)
  PROVE  FetchInv'
<1> DEFINE j == jobs[i]
<1>1. j.pc = "sent" /\ UNCHANGED <<yielded, outcome, taken, calls, performed>>
  BY DEF Redirect
<1>2. CASE TooManyHops(j.hops + 1)
  BY <1>1, <1>2, ExchangeEnds DEF Redirect
<1>3. CASE ~TooManyHops(j.hops + 1)
  <2>1. PICK to \in Origins, keep \in BOOLEAN :
          jobs' = [jobs EXCEPT ![i] =
                    [j EXCEPT !.pc = "check", !.peer = "none", !.hops = j.hops + 1, !.at = to,
                       !.credentials = j.credentials /\ KeepsCredentials(j.at, to),
                       !.method = IF keep THEN j.method ELSE "GET",
                       !.asked = TRUE]]
    BY <1>3 DEF Redirect
  <2> DEFINE hops == j.hops + 1
             creds == j.credentials /\ KeepsCredentials(j.at, to)
             method == IF keep THEN j.method ELSE "GET"
             new == [j EXCEPT !.pc = "check", !.peer = "none", !.hops = hops, !.at = to,
                       !.credentials = creds, !.method = method, !.asked = TRUE]
  <2>2. jobs' = [jobs EXCEPT ![i] = new]
    BY <2>1
  <2>3. j \in Calls /\ CallInv(j) /\ Running(i)
    BY <1>1, JobFacts
  <2>4. hops \in Nat /\ hops <= MaxRedirects
    <3>1. j.hops \in Nat /\ MaxRedirects \in Nat
      BY <2>3, CallTypes, FetchConstants
    <3> QED BY <1>3, <3>1 DEF TooManyHops
  <2>5. creds \in BOOLEAN /\ (creds => to = j.h.origin)
    BY <2>3, CallTypes DEF KeepsCredentials, CallInv
  <2>6. method \in {"GET", "POST"} /\ (method = "POST" => j.h.method = "POST")
    BY <2>3, CallTypes DEF CallInv
  <2> HIDE DEF hops, creds, method
  <2>7. /\ new \in Calls /\ new.pc = "check" /\ new.hops = hops /\ new.at = to /\ new.method = method
        /\ new.h = j.h /\ new.attempt = j.attempt /\ new.posts = j.posts
    <3> HIDE DEF j
    <3> QED BY <2>3, <2>4, <2>5, <2>6 DEF Calls, Calling
  <2>8. new.credentials = creds /\ new.asked = TRUE
    <3> HIDE DEF j
    <3> QED BY <2>3 DEF Calls
  <2> HIDE DEF new
  <2>9. CallInv(new)
    BY <1>1, <2>3, <2>4, <2>5, <2>6, <2>7, <2>8 DEF CallInv
  <2> QED BY <1>1, <2>2, <2>3, <2>7, <2>9, JobStep
<1> QED BY <1>2, <1>3

LEMMA FreshInv ==
  ASSUME NEW h \in FetchHandles, NEW n \in Nat, 1 <= n, n <= Attempts(h), NEW posts \in Nat,
         ~h.vouched => posts <= 1 /\ (h.method = "POST" => posts = 0)
  PROVE  /\ Fresh(h, n, posts) \in Calls /\ CallInv(Fresh(h, n, posts)) /\ Fresh(h, n, posts).pc = "check"
<1> DEFINE new == Fresh(h, n, posts)
<1>1. h.method \in {"GET", "POST"} /\ h.origin \in Origins
  BY DEF FetchHandles
<1>2. /\ new \in Calls /\ new.pc = "check" /\ new.hops = 0 /\ new.at = h.origin /\ new.method = h.method
      /\ new.h = h /\ new.attempt = n /\ new.posts = posts
  BY <1>1 DEF Fresh, Calls, Calling
<1> HIDE DEF new
<1>3. 0 <= MaxRedirects
  BY FetchConstants
<1>4. CallInv(new)
  BY <1>2, <1>3 DEF CallInv
<1> QED BY <1>2, <1>4 DEF new

LEMMA RetryKeeps ==
  ASSUME FetchInv, NEW i \in 1..Len(jobs), Retry(i)
  PROVE  FetchInv'
<1> DEFINE j == jobs[i]
           new == Fresh(j.h, j.attempt + 1, j.posts)
<1>1. /\ j.pc = "backoff" /\ UNCHANGED <<yielded, outcome, taken, calls, performed>>
      /\ jobs' = [jobs EXCEPT ![i] = new]
  BY DEF Retry
<1>2. j \in Calls /\ CallInv(j) /\ Running(i)
  BY <1>1, JobFacts
<1>3. /\ j.h \in FetchHandles /\ j.attempt \in Nat /\ j.posts \in Nat /\ Attempts(j.h) \in Nat
      /\ j.h.method = "POST" /\ ~j.h.vouched => Attempts(j.h) = 1
  BY <1>2, CallTypes, AttemptsBounded
<1>4. 1 <= j.attempt /\ j.attempt < Attempts(j.h) /\ (~j.h.vouched => j.posts <= 1)
  BY <1>1, <1>2 DEF CallInv
<1>5. ~j.h.vouched => j.h.method # "POST"
  BY <1>3, <1>4
<1>6. j.attempt + 1 \in Nat /\ 1 <= j.attempt + 1 /\ j.attempt + 1 <= Attempts(j.h)
  BY <1>3, <1>4
<1>7. new \in Calls /\ CallInv(new)
  BY <1>3, <1>4, <1>5, <1>6, FreshInv
<1> HIDE DEF new
<1> QED BY <1>1, <1>2, <1>7, JobStep


-----------------------------------------------------------------------------
(* The start of a call, and the budget *)

\* The least-number principle, from the well-foundedness of < on Nat.
LEMMA LeastOfNumbers ==
  ASSUME NEW S \in SUBSET Nat, S # {}
  PROVE  \E x \in S : \A y \in S : x <= y
<1> DEFINE Less == {pair \in Nat \X Nat : pair[1] < pair[2]}
<1>1. IsWellFoundedOn(Less, Nat)
  <2>1. Less = OpToRel(<, Nat)
    BY Zenon DEF OpToRel
  <2> QED BY <2>1, NatLessThanWellFounded, Zenon
<1> HIDE DEF Less
<1>2. PICK x \in S : \A y \in S : ~(<<y, x>> \in Less)
  BY <1>1, WFMin, Zenon
<1>3. ASSUME NEW y \in S PROVE x <= y
  <2>1. ~(y < x)
    BY <1>2, <1>3 DEF Less
  <2> QED BY <2>1
<1> QED BY <1>3

LEMMA HandleTypes ==
  ASSUME NEW n, NEW h \in Handles(n)
  PROVE  h \in FetchHandles \cup OtherHandles /\ (h.kind = "fetch" <=> h \in FetchHandles)
<1>1. ASSUME NEW m \in {"GET", "POST"}, NEW k \in Nat, NEW v \in BOOLEAN, NEW o \in Origins, NEW d \in Doubles
      PROVE  Handle(m, k, v, o, d) \in FetchHandles
  BY DEF Handle, FetchHandles
<1>2. \A f \in FetchHandles : f.kind = "fetch"
  BY DEF FetchHandles
<1>3. h \in FetchHandles \cup OtherHandles
  <2> DEFINE Plain == {Handle("GET", 0, FALSE, Home, d) : d \in Doubles}
             Repeated == {Handle(m, 2, v, Home, "none") : m \in {"GET", "POST"}, v \in BOOLEAN}
             Elsewhere == {Handle("POST", 0, FALSE, o, "none") : o \in Origins}
  <2>1. Home \in Origins
    BY DEF Origins
  <2>2. Plain \subseteq FetchHandles
    BY <1>1, <2>1
  <2>3. Repeated \subseteq FetchHandles
    BY <1>1, <2>1 DEF Doubles
  <2>4. Elsewhere \subseteq FetchHandles
    BY <1>1 DEF Doubles
  <2>5. Handles(n) = Plain \cup OtherHandles \cup (IF n > 1 THEN {} ELSE Repeated \cup Elsewhere)
    BY DEF Handles, Doubles, OtherHandles
  <2> HIDE DEF Plain, Repeated, Elsewhere
  <2>6. CASE n > 1
    BY <2>2, <2>5, <2>6
  <2>7. CASE ~(n > 1)
    BY <2>2, <2>3, <2>4, <2>5, <2>7
  <2> QED BY <2>6, <2>7
<1>4. ASSUME NEW g \in OtherHandles PROVE g.kind # "fetch"
  BY DEF OtherHandles
<1> QED BY <1>2, <1>3, <1>4

\* The job a handle becomes.
LEMMA JobOfInv ==
  ASSUME NEW n, NEW h \in Handles(n)
  PROVE  /\ JobOf(h) \in Calls \cup Locals /\ JobOf(h).pc = "queued"
         /\ JobOf(h) \in Calls => CallInv(JobOf(h))
<1>1. CASE h.kind = "fetch" /\ h.double = "none"
  <2> DEFINE f == Fresh(h, 1, 0)
             new == [f EXCEPT !.pc = "queued"]
  <2>1. h \in FetchHandles
    BY <1>1, HandleTypes
  <2>2. 1 <= Attempts(h)
    BY <2>1, AttemptsBounded
  <2>3. f \in Calls /\ CallInv(f) /\ f.pc = "check"
    BY <2>1, <2>2, FreshInv
  <2>4. JobOf(h) = new
    BY <1>1 DEF JobOf, Queued
  <2> HIDE DEF f
  <2>5. Moved(new, f) /\ new.pc = "queued"
    BY <2>3, MovesPc DEF Calling
  <2> HIDE DEF new
  <2>6. CallInv(new)
    BY <2>3, <2>5 DEF CallInv, Moved
  <2> QED BY <2>4, <2>5, <2>6 DEF Moved
<1>2. CASE ~(h.kind = "fetch" /\ h.double = "none")
  <2>1. JobOf(h) = [h |-> h, pc |-> "queued"]
    BY <1>2 DEF JobOf, NoRequest
  <2>2. JobOf(h) \in Locals /\ JobOf(h).pc = "queued"
    BY <2>1, HandleTypes DEF Locals
  <2> QED BY <2>2, LocalTypes
<1> QED BY <1>1, <1>2

\* One handle more.
LEMMA FetchesGrow ==
  ASSUME NEW hs, NEW n \in Nat
  PROVE  /\ IsFiniteSet(Fetches(hs, n)) /\ Cardinality(Fetches(hs, n)) \in Nat
         /\ Fetches(hs, 0) = {} /\ Cardinality(Fetches(hs, 0)) = 0
         /\ Cardinality(Fetches(hs, n + 1)) =
              Cardinality(Fetches(hs, n)) + (IF hs[n + 1].kind = "fetch" THEN 1 ELSE 0)
<1>1. IsFiniteSet(1..n) /\ Fetches(hs, n) \subseteq 1..n
  BY FS_Interval DEF Fetches
<1>2. IsFiniteSet(Fetches(hs, n)) /\ Cardinality(Fetches(hs, n)) \in Nat
  BY <1>1, FS_Subset, FS_CardinalityType
<1>3. Fetches(hs, 0) = {} /\ Cardinality(Fetches(hs, 0)) = 0
  BY FS_EmptySet DEF Fetches
<1>4. n + 1 \notin Fetches(hs, n)
  BY <1>1
<1>5. CASE hs[n + 1].kind = "fetch"
  <2>1. Fetches(hs, n + 1) = Fetches(hs, n) \cup {n + 1}
    BY <1>5 DEF Fetches
  <2> QED BY <1>2, <1>3, <1>4, <1>5, <2>1, FS_AddElement
<1>6. CASE hs[n + 1].kind # "fetch"
  <2>1. Fetches(hs, n + 1) = Fetches(hs, n)
    BY <1>6 DEF Fetches
  <2> QED BY <1>2, <1>3, <1>6, <2>1
<1> QED BY <1>5, <1>6

\* While take() says yes, what has been allowed stays within the limit.
LEMMA BudgetKept ==
  ASSUME NEW hs, NEW n \in Nat, MaxPerRequest # 0, performed \in Nat, taken \in Nat, performed <= taken,
         performed <= MaxPerRequest,
         \A i \in Fetches(hs, n) : ~TakeFails(taken + Cardinality(Fetches(hs, i - 1)))
  PROVE  performed + Cardinality(Fetches(hs, n)) <= MaxPerRequest
<1> DEFINE C(k) == Cardinality(Fetches(hs, k))
           Wrong == {k \in Nat : k <= n /\ ~(performed + C(k) <= MaxPerRequest)}
<1> SUFFICES ASSUME Wrong # {} PROVE FALSE
  OBVIOUS
<1>1. PICK k \in Wrong : \A m \in Wrong : k <= m
  BY LeastOfNumbers
<1>2. k # 0
  <2>1. C(0) = 0
    BY FetchesGrow
  <2> HIDE DEF C
  <2> QED BY <1>1, <2>1
<1>3. k - 1 \in Nat /\ k - 1 \notin Wrong /\ (k - 1) + 1 = k
  BY <1>1, <1>2
<1>4. C(k - 1) \in Nat /\ C(k) = C(k - 1) + (IF hs[k].kind = "fetch" THEN 1 ELSE 0)
  BY <1>3, FetchesGrow
<1> HIDE DEF C
<1>5. performed + C(k - 1) <= MaxPerRequest /\ ~(performed + C(k) <= MaxPerRequest) /\ k <= n
  BY <1>1, <1>3
<1>6. hs[k].kind = "fetch" /\ C(k) = C(k - 1) + 1
  BY <1>4, <1>5
<1>7. k \in Fetches(hs, n)
  BY <1>1, <1>2, <1>5, <1>6 DEF Fetches
<1>8. ~(taken + C(k - 1) >= MaxPerRequest)
  BY <1>7 DEF TakeFails, C
<1> QED BY <1>4, <1>5, <1>6, <1>8, FetchConstants


\* The handles that were copied out before the collection ended, and the budget.
LEMMA AwaitAllBudget ==
  ASSUME FetchInv, NEW hs, NEW n \in Nat, Len(hs) = n, AwaitAll(hs)
  PROVE  BudgetInv' /\ taken' \in Nat /\ performed' \in Nat
<1> DEFINE stop == {i \in 1..Len(hs) : Stops(hs, i)}
           upTo == IF stop = {} THEN Len(hs) ELSE CHOOSE i \in stop : \A k \in stop : i <= k
           refused == stop # {} /\ hs[upTo].kind = "fetch"
                      /\ TakeFails(taken + Cardinality(Fetches(hs, upTo - 1)))
           C(k) == Cardinality(Fetches(hs, k))
<1>1. /\ taken' = (IF MaxPerRequest = 0 THEN taken ELSE taken + C(upTo))
      /\ performed' = performed + C(upTo) - (IF refused THEN 1 ELSE 0)
  BY DEF AwaitAll
<1>2. /\ performed \in Nat /\ taken \in Nat
      /\ MaxPerRequest # 0 => performed <= taken /\ performed <= MaxPerRequest
  BY DEF FetchInv, FetchTypeOK, BudgetInv
<1> DEFINE over == TakeFails(taken + C(upTo - 1))
<1>9. refused <=> stop # {} /\ hs[upTo].kind = "fetch" /\ over
  OBVIOUS
<1> HIDE DEF refused, C
<1>3. upTo \in Nat /\ upTo <= n /\ (stop # {} => upTo \in stop) /\ \A k \in stop : upTo <= k
  <2>1. CASE stop = {}
    BY <2>1
  <2>2. CASE stop # {}
    <3>1. stop \in SUBSET Nat
      OBVIOUS
    <3>2. \E i \in stop : \A k \in stop : i <= k
      BY <2>2, <3>1, LeastOfNumbers
    <3>3. upTo \in stop /\ \A k \in stop : upTo <= k
      BY <2>2, <3>2
    <3> HIDE DEF upTo
    <3>4. upTo \in 1..n
      BY <3>3
    <3> QED BY <3>3, <3>4
  <2> QED BY <2>1, <2>2
<1> HIDE DEF upTo
<1>4. \A i \in 1..n : i < upTo => ~Stops(hs, i)
  BY <1>3
<1>5. \A i \in 1..n : hs[i].kind = "fetch" /\ ~Stops(hs, i) => ~TakeFails(taken + C(i - 1))
  BY DEF Stops, C
<1>6. CASE refused
  <2>1. upTo \in 1..n /\ upTo - 1 \in Nat /\ (upTo - 1) + 1 = upTo /\ hs[upTo].kind = "fetch"
    BY <1>3, <1>6, <1>9
  <2>2. C(upTo) = C(upTo - 1) + 1 /\ C(upTo - 1) \in Nat
    <3> DEFINE m == upTo - 1
    <3>1. m \in Nat /\ m + 1 = upTo
      BY <2>1
    <3> HIDE DEF m
    <3>2. C(m + 1) = C(m) + (IF hs[m + 1].kind = "fetch" THEN 1 ELSE 0) /\ C(m) \in Nat
      BY <3>1, FetchesGrow DEF C
    <3>3. C(upTo) = C(m) + 1 /\ C(m) \in Nat
      BY <2>1, <3>1, <3>2
    <3> QED BY <3>3 DEF m
  <2>3. \A i \in Fetches(hs, upTo - 1) : i \in 1..n /\ i < upTo /\ hs[i].kind = "fetch"
    BY <2>1 DEF Fetches
  <2>4. \A i \in Fetches(hs, upTo - 1) : ~TakeFails(taken + C(i - 1))
    BY <2>3, <1>4, <1>5
  <2>5. MaxPerRequest # 0 => performed + C(upTo - 1) <= MaxPerRequest
    BY <2>1, <2>4, <1>2, BudgetKept DEF C
  <2>6. performed' = performed + C(upTo) - 1
    BY <1>1, <1>6
  <2> QED BY <1>1, <1>2, <2>2, <2>5, <2>6, FetchConstants DEF BudgetInv
<1>7. CASE ~refused
  <2>1. C(upTo) \in Nat
    BY <1>3, FetchesGrow DEF C
  <2>2. \A i \in Fetches(hs, upTo) : i \in 1..n /\ i <= upTo /\ hs[i].kind = "fetch"
    BY <1>3 DEF Fetches
  <2>3. ASSUME NEW i \in Fetches(hs, upTo) PROVE ~TakeFails(taken + C(i - 1))
    <3>1. i \in 1..n /\ i <= upTo /\ hs[i].kind = "fetch"
      BY <2>2, <2>3
    <3>2. CASE i < upTo
      BY <3>1, <3>2, <1>4, <1>5
    <3>3. CASE i = upTo /\ stop # {}
      BY <3>1, <3>3, <1>7, <1>9
    <3>4. CASE stop = {}
      <4>1. ~Stops(hs, i)
        BY <3>1, <3>4
      <4> QED BY <3>1, <4>1, <1>5
    <3>5. i < upTo \/ i = upTo
      BY <3>1, <1>3
    <3> QED BY <3>2, <3>3, <3>4, <3>5
  <2>4. MaxPerRequest # 0 => performed + C(upTo) <= MaxPerRequest
    BY <1>2, <1>3, <2>3, BudgetKept DEF C
  <2>5. performed' = performed + C(upTo)
    <3>1. performed' = performed + C(upTo) - 0
      BY <1>1, <1>7
    <3> QED BY <3>1, <2>1, <1>2
  <2> QED BY <1>1, <1>2, <2>1, <2>4, <2>5, FetchConstants DEF BudgetInv
<1> QED BY <1>6, <1>7

LEMMA AwaitAllKeeps ==
  ASSUME FetchInv, NEW n \in 1..MaxHandles, NEW hs \in [1..n -> Handles(n)], AwaitAll(hs)
  PROVE  FetchInv'
<1>1. n \in Nat /\ hs \in Seq(Handles(n)) /\ Len(hs) = n
  BY FetchConstants
<1>2. BudgetInv' /\ taken' \in Nat /\ performed' \in Nat
  BY <1>1, AwaitAllBudget
<1>3. /\ yielded' = 0 /\ calls' = calls + 1 /\ outcome' \in {"none", "error"}
      /\ jobs' = <<>> \/ jobs' = [i \in 1..n |-> JobOf(hs[i])]
  BY <1>1 DEF AwaitAll
<1>4. /\ jobs' \in Seq(Calls \cup Locals)
      /\ \A i \in 1..Len(jobs') : jobs'[i].pc = "queued" /\ (jobs'[i] \in Calls => CallInv(jobs'[i]))
  <2>1. CASE jobs' = <<>>
    BY <2>1
  <2>2. CASE jobs' = [i \in 1..n |-> JobOf(hs[i])]
    <3>1. \A i \in 1..n : /\ JobOf(hs[i]) \in Calls \cup Locals /\ JobOf(hs[i]).pc = "queued"
                          /\ JobOf(hs[i]) \in Calls => CallInv(JobOf(hs[i]))
      BY <1>1, JobOfInv
    <3>2. jobs' \in Seq(Calls \cup Locals) /\ Len(jobs') = n /\ \A i \in 1..n : jobs'[i] = JobOf(hs[i])
      BY <1>1, <2>2, <3>1
    <3> QED BY <3>1, <3>2
  <2> QED BY <1>3, <2>1, <2>2
<1>5. FetchTypeOK'
  BY <1>2, <1>3, <1>4 DEF FetchInv, FetchTypeOK
<1>6. WindowInv'
  <2>1. Len(jobs') \in Nat
    BY <1>4
  <2>2. 0 <= Len(jobs') /\ \A i \in 1..Len(jobs') : ~(i <= 0) /\ jobs'[i].pc = "queued"
    BY <1>4, <2>1
  <2> QED BY <1>3, <2>2 DEF WindowInv, Running
<1> QED BY <1>2, <1>4, <1>5, <1>6 DEF FetchInv


-----------------------------------------------------------------------------
(* The end of a call *)

LEMMA EmptyCall ==
  ASSUME FetchInv, jobs' = <<>>, yielded' = 0, outcome' \in {"none", "ok", "error"},
         taken' \in Nat, performed' \in Nat, calls' \in Nat, BudgetInv'
  PROVE  FetchInv'
<1>1. jobs' \in Seq(Calls \cup Locals) /\ Len(jobs') = 0 /\ 1..Len(jobs') = {}
  OBVIOUS
<1> QED BY <1>1 DEF FetchInv, FetchTypeOK, WindowInv, Running

LEMMA CollectKeeps ==
  ASSUME FetchInv, Collect
  PROVE  FetchInv'
<1>1. PICK i \in NextResult :
        \/ /\ jobs[i].pc = "ok" /\ yielded + 1 < Len(jobs)
           /\ yielded' = yielded + 1 /\ UNCHANGED <<jobs, outcome>>
        \/ /\ jobs[i].pc = "ok" /\ yielded + 1 = Len(jobs)
           /\ yielded' = Len(jobs) /\ outcome' = "ok" /\ UNCHANGED jobs
        \/ /\ jobs[i].pc = "error"
           /\ outcome' = "error" /\ yielded' = 0 /\ jobs' = <<>>
  BY DEF Collect
<1>2. UNCHANGED <<taken, calls, performed>>
  BY DEF Collect
<1>3. BudgetInv' /\ taken' \in Nat /\ performed' \in Nat /\ calls' \in Nat
  BY <1>2 DEF FetchInv, FetchTypeOK, BudgetInv
<1>4. CASE jobs[i].pc = "error" /\ outcome' = "error" /\ yielded' = 0 /\ jobs' = <<>>
  BY <1>3, <1>4, EmptyCall
<1>5. CASE jobs[i].pc = "ok" /\ yielded' = yielded + 1 /\ yielded + 1 <= Len(jobs) /\ jobs' = jobs
           /\ outcome' \in {outcome, "ok"}
  <2>1. i = yielded + 1 /\ yielded \in Nat /\ Len(jobs) \in Nat /\ MaxConcurrent \in Nat
    BY FetchConstants DEF NextResult, FetchInv, FetchTypeOK
  <2>2. yielded' \in Nat /\ yielded' <= Len(jobs')
    BY <1>5, <2>1
  <2>3. ASSUME NEW k \in 1..Len(jobs'), k <= yielded' PROVE jobs'[k].pc = "ok"
    <3>1. k = i \/ k <= yielded
      BY <1>5, <2>1, <2>3
    <3> QED BY <1>5, <2>3, <3>1 DEF FetchInv, WindowInv
  <2>4. ASSUME NEW k \in 1..Len(jobs'), Running(k)' PROVE k <= yielded' + Cap
    <3>1. k <= yielded + Cap
      BY <1>5, <2>4 DEF FetchInv, WindowInv, Running
    <3> QED BY <1>5, <2>1, <3>1 DEF Cap
  <2>5. WindowInv'
    BY <2>2, <2>3, <2>4 DEF WindowInv, Cap
  <2>6. FetchTypeOK'
    BY <1>3, <1>5, <2>2 DEF FetchInv, FetchTypeOK
  <2> QED BY <1>3, <1>5, <2>5, <2>6 DEF FetchInv
<1>6. yielded \in Nat /\ Len(jobs) \in Nat
  BY DEF FetchInv, FetchTypeOK
<1> QED BY <1>1, <1>4, <1>5, <1>6

LEMMA ResumeKeeps ==
  ASSUME FetchInv, Resume
  PROVE  FetchInv'
<1>1. jobs' = <<>> /\ yielded' = 0 /\ outcome' = "none" /\ UNCHANGED <<taken, calls, performed>>
  BY DEF Resume
<1>2. BudgetInv' /\ taken' \in Nat /\ performed' \in Nat /\ calls' \in Nat
  BY <1>1 DEF FetchInv, FetchTypeOK, BudgetInv
<1> QED BY <1>1, <1>2, EmptyCall

LEMMA DispatchKeeps ==
  ASSUME FetchInv, Dispatch
  PROVE  FetchInv'
<1>1. /\ jobs' = <<>> /\ yielded' = 0 /\ outcome' = "none"
      /\ taken' = 0 /\ calls' = 0 /\ performed' = 0
  BY DEF Dispatch
<1>2. BudgetInv'
  BY <1>1, FetchConstants DEF BudgetInv
<1> QED BY <1>1, <1>2, EmptyCall

-----------------------------------------------------------------------------
(* The invariant, and what follows from it *)

LEMMA FetchInitial == FetchInit => FetchInv
<1> SUFFICES ASSUME FetchInit PROVE FetchInv
  OBVIOUS
<1>1. jobs \in Seq(Calls \cup Locals) /\ Len(jobs) = 0 /\ 1..Len(jobs) = {}
  BY DEF FetchInit
<1>2. BudgetInv
  BY FetchConstants DEF FetchInit, BudgetInv
<1> QED BY <1>1, <1>2 DEF FetchInit, FetchInv, FetchTypeOK, WindowInv

LEMMA FetchInductive == FetchInv /\ [FetchNext]_fetchVars => FetchInv'
<1> SUFFICES ASSUME FetchInv, [FetchNext]_fetchVars PROVE FetchInv'
  OBVIOUS
<1>1. CASE \E n \in 1..MaxHandles : \E hs \in [1..n -> Handles(n)] : AwaitAll(hs)
  BY <1>1, AwaitAllKeeps
<1>2. ASSUME NEW i \in 1..Len(jobs),
             \/ Start(i) \/ EndLocal(i) \/ CheckHop(i) \/ Connect(i) \/ Answer(i)
             \/ Redirect(i) \/ BadLocation(i) \/ Retry(i)
      PROVE  FetchInv'
  BY <1>2, StartKeeps, EndLocalKeeps, CheckHopKeeps, ConnectKeeps, AnswerKeeps, RedirectKeeps,
     BadLocationKeeps, RetryKeeps
<1>3. CASE Collect \/ Resume \/ Dispatch
  BY <1>3, CollectKeeps, ResumeKeeps, DispatchKeeps
<1>4. CASE UNCHANGED fetchVars
  BY <1>4 DEF fetchVars, FetchInv, FetchTypeOK, WindowInv, BudgetInv, Running, CallInv
<1> QED BY <1>1, <1>2, <1>3, <1>4 DEF FetchNext

LEMMA FetchInvHolds == FetchSpec => []FetchInv
BY FetchInitial, FetchInductive, PTL DEF FetchSpec

\* What is running lies in the window of buffered(), which is no longer than the cap.
LEMMA WindowCaps == FetchInv => ConcurrencyCapped
<1> SUFFICES ASSUME FetchInv PROVE ConcurrencyCapped
  OBVIOUS
<1> DEFINE Under == {i \in 1..Len(jobs) : Running(i)}
           Window == (yielded + 1)..(yielded + Cap)
<1>1. yielded \in Nat /\ Cap \in Nat /\ Len(jobs) \in Nat
  BY FetchConstants DEF FetchInv, FetchTypeOK, Cap
<1>2. \A i \in Under : ~(i <= yielded) /\ i <= yielded + Cap
  BY DEF FetchInv, WindowInv, Running
<1>3. \A i \in Under : i \in Int
  BY <1>1
<1> HIDE DEF Under
<1>4. Under \subseteq Window
  BY <1>1, <1>2, <1>3
<1>5. IsFiniteSet(Window) /\ Cardinality(Window) = Cap
  <2>1. /\ IsFiniteSet(Window)
        /\ Cardinality(Window) = IF yielded + 1 > yielded + Cap THEN 0
                                 ELSE (yielded + Cap) - (yielded + 1) + 1
    BY <1>1, FS_Interval
  <2> HIDE DEF Window
  <2> QED BY <1>1, <2>1
<1>6. Cardinality(Under) <= Cap
  BY <1>4, <1>5, FS_Subset
<1> QED BY <1>6 DEF ConcurrencyCapped, Under, Cap

\* The fields of what an attempt is doing, for a job that has one.
LEMMA InvBoundsCalls == FetchInv => CallsStayInBounds
<1> SUFFICES ASSUME FetchInv PROVE CallsStayInBounds
  OBVIOUS
<1>1. ASSUME NEW i \in 1..Len(jobs)
      PROVE  /\ jobs[i] \in Calls => CallInv(jobs[i])
             /\ jobs[i] \in Calls \/ jobs[i] \in Locals
  BY <1>1 DEF FetchInv, FetchTypeOK
<1>2. \A i \in 1..Len(jobs) : Sent(jobs[i]) => jobs[i] \in Calls
  BY <1>1, LocalTypes DEF Sent
<1>3. \A i \in 1..Len(jobs) : "attempt" \in DOMAIN jobs[i] => jobs[i] \in Calls
  BY <1>1, LocalTypes
<1>4. CredentialsStayHome
  BY <1>1, <1>2 DEF CredentialsStayHome, CallInv
<1>5. OnlyAllowedPeers
  BY <1>1, <1>2 DEF OnlyAllowedPeers, CallInv, Sent
<1>6. PostedOnce
  BY <1>1, <1>3 DEF PostedOnce, CallInv
<1>7. ExchangesBounded
  <2>1. ASSUME NEW i \in 1..Len(jobs), "attempt" \in DOMAIN jobs[i]
        PROVE  jobs[i].hops <= MaxRedirects /\ jobs[i].attempt <= Ceiling
    <3> DEFINE j == jobs[i]
    <3>1. j \in Calls /\ j.h \in FetchHandles /\ j.attempt \in Nat /\ CallInv(j)
      BY <1>1, <1>3, <2>1, CallTypes
    <3>2. Attempts(j.h) \in Nat /\ Attempts(j.h) <= Ceiling /\ Ceiling \in Nat
      BY <3>1, AttemptsBounded, FetchConstants DEF Ceiling
    <3>3. j.attempt <= Attempts(j.h) /\ j.hops <= MaxRedirects
      BY <3>1 DEF CallInv
    <3> HIDE DEF j
    <3> QED BY <3>1, <3>2, <3>3 DEF j
  <2> QED BY <2>1 DEF ExchangesBounded, Ceiling
<1>8. MaxPerRequest # 0 => performed <= MaxPerRequest
  BY DEF FetchInv, BudgetInv
<1> QED BY <1>4, <1>5, <1>6, <1>7, <1>8, WindowCaps DEF CallsStayInBounds, WorkBounded

\* Jobs, budget and results keep their types through every await_all, whatever names
\* resolve to and upstreams answer (fetch/mod.rs, await_all, send_with_retries, execute).
THEOREM FetchTypeCorrect == FetchSpec => []FetchTypeOK
<1>1. FetchInv => FetchTypeOK
  BY DEF FetchInv
<1> QED BY <1>1, FetchInvHolds, PTL

\* Whatever the limits are set to: credentials reach no origin they were not addressed to,
\* no exchange is with a forbidden peer, an unvouched POST is sent once, and attempts,
\* redirects, concurrency and the inbound request's budget are kept.
THEOREM CallsBounded == FetchSpec => []CallsStayInBounds
BY FetchInvHolds, InvBoundsCalls, PTL

-----------------------------------------------------------------------------
(* Induction *)

\* A set of natural numbers has a least one.
LEMMA LeastNatural ==
  ASSUME NEW T \in SUBSET Nat, T # {}
  PROVE  \E n \in T : \A m \in T : n <= m
<1> DEFINE R == {p \in Nat \X Nat : p[1] < p[2]}
<1>1. R = OpToRel(<, Nat)
  BY DEF OpToRel
<1>2. IsWellFoundedOn(R, Nat)
  BY <1>1, NatLessThanWellFounded
<1> HIDE DEF R
<1>3. PICK n \in T : \A m \in T : ~(<<m, n>> \in R)
  BY <1>2, WFMin
<1>4. \A m \in T : ~(m < n)
  BY <1>3 DEF R
<1> QED BY <1>4

-----------------------------------------------------------------------------
(* Range and If-Range *)

\* The fields of a range.
LEMMA RangeTypes ==
  ASSUME NEW r \in RangeSpecs
  PROVE  /\ r.form \in {"unit", "many", "nodash", "one"} /\ r.start \in Int /\ r.end \in Int
         /\ r.start \in {Blank, Junk} \cup Nat /\ r.end \in {Blank, Junk} \cup Nat
<1>1. Positions \subseteq {Blank, Junk} \cup Nat
  BY NegotiationConstants DEF Positions
<1>2. {Blank, Junk} \cup Nat \subseteq Int
  BY DEF Blank, Junk
<1> QED BY <1>1, <1>2 DEF RangeSpecs

\* What parse() makes of one range, by its form.
LEMMA ParseForms ==
  ASSUME NEW r \in RangeSpecs, NEW len \in Nat, NEW a, a = ParseRange(r, len)
  PROVE  \/ r.form # "one" /\ a = Full
         \/ r.form = "one" /\ len = 0 /\ a = Unsatisfiable
         \/ r.form = "one" /\ len > 0 /\ (Junk \in {r.start, r.end} \/ (r.start = Blank /\ r.end = Blank)) /\ a = Full
         \/ /\ r.form = "one" /\ len > 0 /\ r.start = Blank /\ r.end \in Nat
            /\ \/ r.end = 0 /\ a = Unsatisfiable
               \/ r.end > 0 /\ a = Partial(IF r.end < len THEN len - r.end ELSE 0, len - 1)
         \/ /\ r.form = "one" /\ len > 0 /\ r.start \in Nat /\ r.end \in {Blank} \cup Nat
            /\ \/ (r.start > len - 1 \/ (r.end # Blank /\ r.start > r.end)) /\ a = Unsatisfiable
               \/ /\ ~(r.start > len - 1 \/ (r.end # Blank /\ r.start > r.end))
                  /\ a = Partial(r.start, IF r.end = Blank THEN len - 1 ELSE Least(r.end, len - 1))
<1>1. /\ r.form \in {"unit", "many", "nodash", "one"} /\ r.start \in Int /\ r.end \in Int
      /\ r.start \in {Blank, Junk} \cup Nat /\ r.end \in {Blank, Junk} \cup Nat
  BY RangeTypes
<1> DEFINE s == r.start
           e == r.end
<1>2. CASE r.form # "one"
  BY <1>2 DEF ParseRange
<1>3. CASE r.form = "one" /\ len = 0
  BY <1>3 DEF ParseRange
<1>4. CASE r.form = "one" /\ len > 0 /\ Junk \in {s, e}
  BY <1>4 DEF ParseRange
<1>5. CASE r.form = "one" /\ len > 0 /\ Junk \notin {s, e} /\ s = Blank
  <2>1. a = CASE e = Blank -> Full
              [] e = 0 -> Unsatisfiable
              [] OTHER -> Partial(IF e < len THEN len - e ELSE 0, len - 1)
    BY <1>5 DEF ParseRange
  <2>2. e \in {Blank} \cup Nat
    BY <1>1, <1>5
  <2> QED BY <1>5, <2>1, <2>2 DEF Blank
<1>6. CASE r.form = "one" /\ len > 0 /\ Junk \notin {s, e} /\ s # Blank
  <2>1. a = IF s > len - 1 \/ (e # Blank /\ s > e) THEN Unsatisfiable
            ELSE Partial(s, IF e = Blank THEN len - 1 ELSE Least(e, len - 1))
    BY <1>6 DEF ParseRange
  <2>2. e \in {Blank} \cup Nat /\ s \in Nat
    BY <1>1, <1>6
  <2> QED BY <1>6, <2>1, <2>2
<1>7. len = 0 \/ len > 0
  OBVIOUS
<1> QED BY <1>2, <1>3, <1>4, <1>5, <1>6, <1>7

\* A span within the representation is parsed to itself.
LEMMA PartialBack ==
  ASSUME NEW len \in Nat, NEW x \in Nat, NEW y \in Nat, x <= y, y < len
  PROVE  ParseRange([form |-> "one", start |-> x, end |-> y], len) = Partial(x, y)
<1> DEFINE r == [form |-> "one", start |-> x, end |-> y]
<1>1. r.form = "one" /\ r.start = x /\ r.end = y
  OBVIOUS
<1> HIDE DEF r
<1>2. len > 0 /\ len # 0 /\ Junk \notin {x, y} /\ x # Blank /\ y # Blank /\ ~(x > len - 1) /\ ~(x > y) /\ Least(y, len - 1) = y
  BY DEF Junk, Blank, Least
<1>3. ParseRange(r, len) = IF x > len - 1 \/ (y # Blank /\ x > y) THEN Unsatisfiable
                           ELSE Partial(x, IF y = Blank THEN len - 1 ELSE Least(y, len - 1))
  BY <1>1, <1>2 DEF ParseRange
<1> QED BY <1>2, <1>3 DEF r

\* A span is the bytes that were asked for, and there are none without one.
LEMMA ParsedRange ==
  ASSUME NEW r \in RangeSpecs, NEW len \in Nat, NEW a, a = ParseRange(r, len)
  PROVE  /\ a.kind \in {"full", "unsatisfiable", "partial"}
         /\ a.kind = "full" => a = Full
         /\ a.kind = "unsatisfiable" => r.form = "one" /\ AskedBytes(r, len) = {}
         /\ a.kind = "partial" => /\ a.start \in Nat /\ a.end \in Nat /\ a.start <= a.end /\ a.end < len
                                  /\ a = Partial(a.start, a.end) /\ a.start..a.end = AskedBytes(r, len)
<1>1. /\ Full.kind = "full" /\ Unsatisfiable.kind = "unsatisfiable"
      /\ \A x, y : Partial(x, y).kind = "partial" /\ Partial(x, y).start = x /\ Partial(x, y).end = y
  BY DEF Full, Unsatisfiable, Partial
<1>2. CASE r.form # "one" /\ a = Full
  BY <1>1, <1>2
<1>3. CASE r.form = "one" /\ len = 0 /\ a = Unsatisfiable
  <2>1. 0..(len - 1) = {}
    BY <1>3
  <2> QED BY <1>1, <1>3, <2>1 DEF AskedBytes
<1>4. CASE a = Full
  BY <1>1, <1>4
<1>5. CASE /\ r.form = "one" /\ len > 0 /\ r.start = Blank /\ r.end \in Nat
           /\ \/ r.end = 0 /\ a = Unsatisfiable
              \/ r.end > 0 /\ a = Partial(IF r.end < len THEN len - r.end ELSE 0, len - 1)
  <2>1. AskedBytes(r, len) = {b \in 0..(len - 1) : b >= len - r.end}
    BY <1>5 DEF AskedBytes
  <2>2. CASE r.end = 0 /\ a = Unsatisfiable
    <3>1. \A b \in 0..(len - 1) : ~(b >= len - r.end)
      BY <2>2
    <3> QED BY <1>1, <1>5, <2>1, <2>2, <3>1
  <2>3. CASE r.end > 0 /\ a = Partial(IF r.end < len THEN len - r.end ELSE 0, len - 1)
    <3> DEFINE x == IF r.end < len THEN len - r.end ELSE 0
               y == len - 1
               e == r.end
    <3>1. e \in Nat /\ e > 0 /\ len > 0
      BY <1>5, <2>3
    <3>2. x \in Nat /\ y \in Nat /\ x <= y /\ y < len
      BY <3>1
    <3>3. x..y = {b \in 0..(len - 1) : b >= len - e}
      BY <3>1
    <3>4. a = Partial(x, y) /\ AskedBytes(r, len) = {b \in 0..(len - 1) : b >= len - e}
      BY <2>1, <2>3
    <3> HIDE DEF x, y, e
    <3> QED BY <1>1, <3>2, <3>3, <3>4
  <2> QED BY <1>5, <2>2, <2>3
<1>6. CASE /\ r.form = "one" /\ len > 0 /\ r.start \in Nat /\ r.end \in {Blank} \cup Nat
           /\ \/ (r.start > len - 1 \/ (r.end # Blank /\ r.start > r.end)) /\ a = Unsatisfiable
              \/ /\ ~(r.start > len - 1 \/ (r.end # Blank /\ r.start > r.end))
                 /\ a = Partial(r.start, IF r.end = Blank THEN len - 1 ELSE Least(r.end, len - 1))
  <2> DEFINE s == r.start
             e == r.end
  <2>1. s \in Nat /\ e \in {Blank} \cup Nat /\ e \in Int /\ s # Blank /\ len > 0
    BY <1>6 DEF Blank
  <2>2. AskedBytes(r, len) = {b \in 0..(len - 1) : b >= s /\ (e = Blank \/ b <= e)}
    BY <2>1 DEF AskedBytes
  <2>3. CASE (s > len - 1 \/ (e # Blank /\ s > e)) /\ a = Unsatisfiable
    <3>1. \A b \in 0..(len - 1) : ~(b >= s /\ (e = Blank \/ b <= e))
      BY <2>1, <2>3
    <3> QED BY <1>1, <1>6, <2>2, <2>3, <3>1
  <2>4. CASE ~(s > len - 1 \/ (e # Blank /\ s > e)) /\ a = Partial(s, IF e = Blank THEN len - 1 ELSE Least(e, len - 1))
    <3> DEFINE y == IF e = Blank THEN len - 1 ELSE Least(e, len - 1)
    <3>1. y \in Nat /\ s <= y /\ y < len
      BY <2>1, <2>4 DEF Least
    <3>2. s..y = {b \in 0..(len - 1) : b >= s /\ (e = Blank \/ b <= e)}
      BY <2>1, <2>4 DEF Least
    <3>3. a = Partial(s, y)
      BY <2>4
    <3> HIDE DEF y, s, e
    <3> QED BY <1>1, <2>1, <2>2, <3>1, <3>2, <3>3
  <2> QED BY <1>6, <2>3, <2>4
<1> QED BY <1>2, <1>3, <1>4, <1>5, <1>6, ParseForms

LEMMA PartialChecked ==
  ASSUME NEW r \in RangeSpecs, NEW len \in Nat
  PROVE  CheckPartial(ParseRange(r, len), len)
<1> DEFINE a == ParseRange(r, len)
<1>1. a.kind = "partial" => /\ a.start \in Nat /\ a.end \in Nat /\ a.start <= a.end /\ a.end < len
                            /\ a = Partial(a.start, a.end)
  BY ParsedRange
<1> HIDE DEF a
<1>2. a.kind = "partial" => ParseRange([form |-> "one", start |-> a.start, end |-> a.end], len) = Partial(a.start, a.end)
  BY <1>1, PartialBack
<1>3. CheckPartial(a, len)
  BY <1>1, <1>2 DEF CheckPartial
<1> QED BY <1>3 DEF a

LEMMA RangeChecked ==
  ASSUME NEW r \in RangeSpecs, NEW len \in Nat, NEW v \in IfRanges, NEW known \in BOOLEAN
  PROVE  CheckRange(r, len, v, known)
<1> DEFINE base == ParseRange(r, len)
           a == ResolveRange(r, len, v, known)
<1>1. CheckPartial(base, len)
  BY PartialChecked
<1>2. a = IF IfRangeHolds(v, known) THEN base ELSE Full
  BY DEF ResolveRange
<1>3. CheckPartial(Full, len) /\ Full.kind = "full" /\ Unsatisfiable.kind = "unsatisfiable"
  BY DEF CheckPartial, Full, Unsatisfiable
<1>4. /\ base.kind \in {"full", "unsatisfiable", "partial"}
      /\ base.kind = "unsatisfiable" => r.form = "one" /\ AskedBytes(r, len) = {}
      /\ base.kind = "partial" => /\ base.start \in Nat /\ base.end \in Nat /\ base.start <= base.end
                                  /\ base.start..base.end = AskedBytes(r, len)
  BY ParsedRange
<1> HIDE DEF base, a
<1>5. CheckPartial(a, len)
  BY <1>1, <1>2, <1>3
<1>6. base = Unsatisfiable => r.form = "one"
  BY <1>3, <1>4
<1>7. v \in {"weak", "stale", "date_off", "text"} => a = Full
  BY <1>2 DEF IfRangeHolds
<1>8. v = "date" /\ ~known => a = Full
  BY <1>2 DEF IfRangeHolds
<1>9. v \in {"absent", "bytes", "same"} => a = base
  BY <1>2 DEF IfRangeHolds
<1>10. base.kind = "partial" => AskedBytes(r, len) # {}
  <2> SUFFICES ASSUME base.kind = "partial" PROVE AskedBytes(r, len) # {}
    OBVIOUS
  <2>1. base.start \in base.start..base.end
    BY <1>4
  <2> QED BY <1>4, <2>1
<1>11. base.kind # "full" => (base.kind = "unsatisfiable") = (AskedBytes(r, len) = {})
  BY <1>4, <1>10
<1> QED BY <1>1, <1>4, <1>5, <1>6, <1>7, <1>8, <1>9, <1>11 DEF CheckRange, base, a

-----------------------------------------------------------------------------
(* If-None-Match and If-Modified-Since *)

Etags == {NoEtag} \cup [name : {"a", "*"}, weak : BOOLEAN, suffix : {""}]

\* Tags that differ in strength only are one without it.
Like(t, n, f) == t \in [name : {n}, weak : BOOLEAN, suffix : {f}]
LEMMA SameTag ==
  ASSUME NEW p, NEW q, NEW x \in [name : {p}, weak : {FALSE}, suffix : {q}],
         NEW y \in [name : {p}, weak : {FALSE}, suffix : {q}]
  PROVE  x = y
<1>1. x = [name |-> p, weak |-> FALSE, suffix |-> q]
  OBVIOUS
<1>2. y = [name |-> p, weak |-> FALSE, suffix |-> q]
  OBVIOUS
<1> QED BY <1>1, <1>2

LEMMA TagStripped ==
  ASSUME NEW p, NEW q, NEW x, Like(x, p, q)
  PROVE  /\ StripWeak(x) \in [name : {p}, weak : {FALSE}, suffix : {q}]
         /\ StripWeak(x).name = p /\ StripSuffix(StripWeak(x)).name = p
BY DEF StripWeak, StripSuffix, Like

LEMMA TagNamed ==
  ASSUME NEW x, Like(x, x.name, x.suffix)
  PROVE  StripWeak(x).name = x.name /\ StripSuffix(StripWeak(x)).name = x.name
<1> DEFINE p == x.name
           q == x.suffix
<1>1. Like(x, p, q)
  OBVIOUS
<1> HIDE DEF p, q
<1>2. StripWeak(x).name = p /\ StripSuffix(StripWeak(x)).name = p
  BY <1>1, TagStripped
<1> QED BY <1>2 DEF p

LEMMA TagTypes ==
  /\ \A t \in Tags : Like(t, t.name, t.suffix)
  /\ \A e \in Etags : Like(e, e.name, e.suffix)
<1>1. \A t \in Tags : Like(t, t.name, t.suffix)
  BY DEF Tags, Like
<1>2. Like(NoEtag, NoEtag.name, NoEtag.suffix)
  BY DEF NoEtag, Like
<1>3. \A e \in [name : {"a", "*"}, weak : BOOLEAN, suffix : {""}] : Like(e, e.name, e.suffix)
  BY DEF Like
<1> QED BY <1>1, <1>2, <1>3 DEF Etags

LEMMA PrecedenceChecked ==
  ASSUME NEW list, NEW etag
  PROVE  CheckPrecedence(list, etag)
BY DEF CheckPrecedence, FreshFor

LEMMA ListChecked ==
  ASSUME NEW list \in Seq(Tags), NEW etag \in Etags
  PROVE  CheckList(list, etag)
<1> DEFINE got == FreshFor(TRUE, list, Unknown, etag, Unknown)
<1>1. got <=> etag # NoEtag /\ \E i \in DOMAIN list : MemberMatches(list[i], etag)
  BY DEF FreshFor
<1> HIDE DEF got
<1>2. \A i \in DOMAIN list : list[i] \in Tags
  OBVIOUS
<1>3. ASSUME etag # NoEtag, NEW i \in DOMAIN list, list[i].name = etag.name, list[i].suffix = etag.suffix
      PROVE  got
  <2>2. Like(list[i], etag.name, etag.suffix) /\ Like(etag, etag.name, etag.suffix)
    BY <1>2, <1>3, TagTypes
  <2>1. StripWeak(list[i]) = StripWeak(etag)
    <3> DEFINE u == StripWeak(list[i])
               v == StripWeak(etag)
               n == etag.name
               f == etag.suffix
    <3>1. u \in [name : {n}, weak : {FALSE}, suffix : {f}] /\ v \in [name : {n}, weak : {FALSE}, suffix : {f}]
      BY <2>2, TagStripped
    <3> HIDE DEF u, v, n, f
    <3>2. u = v
      BY <3>1, SameTag
    <3> QED BY <3>2 DEF u, v
  <2> QED BY <1>1, <1>3, <2>1 DEF MemberMatches
<1>4. ASSUME etag # NoEtag, BareStar \in ToSet(list)
      PROVE  got
  <2>1. \E i \in DOMAIN list : list[i] = BareStar
    BY <1>4 DEF ToSet
  <2> QED BY <1>1, <1>4, <2>1 DEF MemberMatches
<1>5. ASSUME \A i \in DOMAIN list : list[i].name # etag.name /\ list[i] # BareStar
      PROVE  ~got
  <2>1. ASSUME NEW i \in DOMAIN list
        PROVE  ~MemberMatches(list[i], etag)
    <3> DEFINE t == list[i]
    <3>1. t.name # etag.name /\ t # BareStar /\ t \in Tags
      BY <1>2, <1>5
    <3> HIDE DEF t
    <3>2. /\ StripWeak(t).name = t.name /\ StripSuffix(StripWeak(t)).name = t.name
          /\ StripWeak(etag).name = etag.name
      <4>1. Like(t, t.name, t.suffix) /\ Like(etag, etag.name, etag.suffix)
        BY <3>1, TagTypes
      <4> QED BY <4>1, TagNamed
    <3>3. ~MemberMatches(t, etag)
      BY <3>1, <3>2 DEF MemberMatches
    <3> QED BY <3>3 DEF t
  <2> QED BY <1>1, <2>1
<1>6. list = <<>> => ~got
  BY <1>1
<1> QED BY <1>3, <1>4, <1>5, <1>6 DEF CheckList, got

LEMMA DatesChecked ==
  ASSUME NEW since \in {Unknown} \cup Seconds, NEW modified \in {Unknown} \cup Seconds, NEW etag
  PROVE  CheckDates(since, etag, modified)
<1>1. since \in Int /\ modified \in Int /\ Unknown = -1 /\ (since = Unknown \/ since >= 0)
  BY DEF Seconds, Unknown
<1>2. \A s, m : FreshFor(FALSE, <<>>, s, etag, m) <=> s # Unknown /\ m # Unknown /\ m <= s
  BY DEF FreshFor
<1>3. \A m : m \in Int /\ m > 0 => m - 1 # Unknown /\ \A s \in Int : m <= s => m - 1 <= s
  BY <1>1
<1> DEFINE got == FreshFor(FALSE, <<>>, since, etag, modified)
<1>4. Unknown \in {since, modified} => ~got
  BY <1>2
<1>5. got => modified <= since /\ (modified > 0 => FreshFor(FALSE, <<>>, since, etag, modified - 1))
  BY <1>1, <1>2, <1>3
<1>6. since # Unknown /\ modified = since => got
  <2>1. modified = since => modified <= since
    BY <1>1
  <2> HIDE DEF got
  <2> QED BY <1>2, <2>1 DEF got
<1> QED BY <1>4, <1>5, <1>6 DEF CheckDates

-----------------------------------------------------------------------------
(* Accept-Encoding *)

\* A coding is accepted exactly when an entry of it has a weight above zero.
LEMMA CodingAccepted ==
  ASSUME NEW entries, NEW alg \in Codings
  PROVE  AcceptsCoding(entries, alg)
           <=> \E i \in DOMAIN entries : entries[i].token = alg /\ Positive(WeightOf(entries[i]))
<1> DEFINE F == {k \in DOMAIN <<alg>> :
                   \E i \in DOMAIN entries : entries[i].token = <<alg>>[k] /\ Positive(WeightOf(entries[i]))}
           P == \E i \in DOMAIN entries : entries[i].token = alg /\ Positive(WeightOf(entries[i]))
           g == CHOOSE k \in F : \A j \in F : k <= j
<1>1. NegotiateCoding(entries, <<alg>>) = IF F = {} THEN "identity" ELSE <<alg>>[g]
  BY DEF NegotiateCoding
<1>2. F = IF P THEN {1} ELSE {}
  <2>1. DOMAIN <<alg>> = {1} /\ <<alg>>[1] = alg
    OBVIOUS
  <2> QED BY <2>1
<1>3. P => g = 1
  <2>1. P => F = {1}
    BY <1>2
  <2> HIDE DEF F, P
  <2>2. P => \E k \in F : \A j \in F : k <= j
    BY <2>1
  <2>3. P => g \in F
    BY <2>2
  <2> QED BY <2>1, <2>3
<1>4. <<alg>>[1] = alg /\ alg # "identity"
  BY DEF Codings
<1> HIDE DEF F, P, g
<1>5. AcceptsCoding(entries, alg) <=> P
  BY <1>1, <1>2, <1>3, <1>4 DEF AcceptsCoding
<1> QED BY <1>5 DEF P

\* Of two codings the first one that is accepted is chosen.
LEMMA FirstCoding ==
  ASSUME NEW entries, NegotiateCoding(entries, <<"br", "gzip">>) = "gzip"
  PROVE  ~AcceptsCoding(entries, "br")
<1> DEFINE as == <<"br", "gzip">>
           F == {k \in DOMAIN as :
                   \E i \in DOMAIN entries : entries[i].token = as[k] /\ Positive(WeightOf(entries[i]))}
           g == CHOOSE k \in F : \A j \in F : k <= j
<1>1. NegotiateCoding(entries, as) = IF F = {} THEN "identity" ELSE as[g]
  BY DEF NegotiateCoding
<1> SUFFICES ASSUME AcceptsCoding(entries, "br") PROVE FALSE
  OBVIOUS
<1>2. \E i \in DOMAIN entries : entries[i].token = "br" /\ Positive(WeightOf(entries[i]))
  BY CodingAccepted DEF Codings
<1>3. DOMAIN as = {1, 2} /\ as[1] = "br"
  OBVIOUS
<1>4. 1 \in F /\ F \subseteq {1, 2}
  BY <1>2, <1>3
<1> HIDE DEF F
<1>5. \E k \in F : \A j \in F : k <= j
  BY <1>4
<1>6. g \in F /\ \A j \in F : g <= j
  BY <1>5
<1> HIDE DEF g
<1>7. g = 1
  BY <1>4, <1>6
<1> QED BY <1>1, <1>3, <1>4, <1>7

\* The first weight that parses counts.
LEMMA WeightChosen ==
  ASSUME NEW e
  PROVE  /\ \A w : e.weights = <<w>> => WeightOf(e) = IF w = Junky THEN 10 ELSE w
         /\ e.weights = <<10, 0>> => WeightOf(e) = 10
<1> DEFINE P == {i \in DOMAIN e.weights : e.weights[i] # Junky}
           g == CHOOSE i \in P : \A j \in P : i <= j
<1>1. WeightOf(e) = IF P = {} THEN 10 ELSE e.weights[g]
  BY DEF WeightOf
<1>2. ASSUME 1 \in P, P \subseteq {1, 2} PROVE g = 1
  <2> HIDE DEF P
  <2>1. \E k \in P : \A j \in P : k <= j
    BY <1>2
  <2>2. g \in P /\ \A j \in P : g <= j
    BY <2>1
  <2> HIDE DEF g
  <2> QED BY <1>2, <2>2
<1> HIDE DEF g
<1>3. ASSUME NEW w, e.weights = <<w>> PROVE WeightOf(e) = IF w = Junky THEN 10 ELSE w
  <2>1. DOMAIN <<w>> = {1} /\ <<w>>[1] = w
    OBVIOUS
  <2>2. P = IF w = Junky THEN {} ELSE {1}
    BY <1>3, <2>1
  <2>3. w # Junky => g = 1
    BY <1>2, <2>2
  <2> HIDE DEF P
  <2> QED BY <1>1, <1>3, <2>1, <2>2, <2>3
<1>4. ASSUME e.weights = <<10, 0>> PROVE WeightOf(e) = 10
  <2>1. DOMAIN <<10, 0>> = {1, 2} /\ <<10, 0>>[1] = 10 /\ <<10, 0>>[2] = 0
    OBVIOUS
  <2>2. P = {1, 2}
    BY <1>4, <2>1 DEF Junky
  <2>3. g = 1
    BY <1>2, <2>2
  <2> HIDE DEF P
  <2> QED BY <1>1, <1>4, <2>1, <2>2, <2>3
<1> QED BY <1>3, <1>4

\* The entries of a coding given other weights.
LEMMA Reweighted ==
  ASSUME NEW entries, \A i \in DOMAIN entries : entries[i] \in Entries, NEW alg, NEW ws
  PROVE  LET g == WithQ(entries, alg, ws) IN
         /\ DOMAIN g = DOMAIN entries
         /\ \A i \in DOMAIN entries : g[i].token = entries[i].token
         /\ \A i \in DOMAIN entries : entries[i].token = alg => g[i].weights = ws
<1> DEFINE g == WithQ(entries, alg, ws)
<1>1. DOMAIN g = DOMAIN entries
  BY DEF WithQ
<1>2. ASSUME NEW i \in DOMAIN entries
      PROVE  g[i].token = entries[i].token /\ (entries[i].token = alg => g[i].weights = ws)
  <2>1. g[i] = IF entries[i].token = alg THEN [entries[i] EXCEPT !.weights = ws] ELSE entries[i]
    BY DEF WithQ
  <2>2. entries[i] \in Entries
    OBVIOUS
  <2> HIDE DEF g
  <2> QED BY <2>1, <2>2 DEF Entries
<1> QED BY <1>1, <1>2

LEMMA CodingsChecked ==
  ASSUME NEW entries \in Seq(Entries)
  PROVE  CheckCodings(entries)
<1> SUFFICES ASSUME NEW alg \in Codings
             PROVE  LET present == \E i \in DOMAIN entries : entries[i].token = alg IN
                    /\ \A w \in {0, NaN} : ~AcceptsCoding(WithQ(entries, alg, <<w>>), alg)
                    /\ \A ws \in KeepingWeights : AcceptsCoding(WithQ(entries, alg, ws), alg) = present
                    /\ ~AcceptsCoding(WithoutCoding(entries, alg), alg)
                    /\ AcceptsCoding(entries, alg) => present
                    /\ NegotiateCoding(entries, <<"br", "gzip">>) = "gzip" => ~AcceptsCoding(entries, "br")
  BY DEF CheckCodings
<1> DEFINE present == \E i \in DOMAIN entries : entries[i].token = alg
<1>1. \A i \in DOMAIN entries : entries[i] \in Entries
  OBVIOUS
<1>2. ASSUME NEW w \in {0, NaN} PROVE ~AcceptsCoding(WithQ(entries, alg, <<w>>), alg)
  <2> DEFINE g == WithQ(entries, alg, <<w>>)
  <2>1. /\ DOMAIN g = DOMAIN entries
        /\ \A i \in DOMAIN entries : g[i].token = entries[i].token
        /\ \A i \in DOMAIN entries : entries[i].token = alg => g[i].weights = <<w>>
    BY <1>1, Reweighted
  <2> HIDE DEF g
  <2>2. \A i \in DOMAIN g : g[i].token = alg => WeightOf(g[i]) = w
    <3>1. w # Junky
      BY DEF NaN, Junky
    <3> QED BY <2>1, <3>1, WeightChosen
  <2>3. ~Positive(w)
    BY DEF Positive, NaN
  <2>4. ~AcceptsCoding(g, alg)
    BY <2>2, <2>3, CodingAccepted
  <2> QED BY <2>4 DEF g
<1>3. ASSUME NEW ws \in KeepingWeights
      PROVE  AcceptsCoding(WithQ(entries, alg, ws), alg) = present
  <2> DEFINE g == WithQ(entries, alg, ws)
  <2>1. /\ DOMAIN g = DOMAIN entries
        /\ \A i \in DOMAIN entries : g[i].token = entries[i].token
        /\ \A i \in DOMAIN entries : entries[i].token = alg => g[i].weights = ws
    BY <1>1, Reweighted
  <2> HIDE DEF g
  <2>2. \A e : e.weights = ws => WeightOf(e) \in {5, 10}
    <3>1. 10 # Junky /\ 5 # Junky
      BY DEF Junky
    <3>2. CASE ws = <<10>>
      BY <3>1, <3>2, WeightChosen
    <3>3. CASE ws = <<5>>
      BY <3>1, <3>3, WeightChosen
    <3>4. CASE ws = <<10, 0>>
      BY <3>4, WeightChosen
    <3>5. CASE ws = <<Junky>>
      BY <3>5, WeightChosen
    <3> QED BY <3>2, <3>3, <3>4, <3>5 DEF KeepingWeights
  <2>3. \A i \in DOMAIN g : g[i].token = alg => Positive(WeightOf(g[i]))
    <3>1. Positive(5) /\ Positive(10)
      BY DEF Positive, NaN
    <3>2. \A i \in DOMAIN g : g[i].token = alg => WeightOf(g[i]) \in {5, 10}
      BY <2>1, <2>2
    <3> QED BY <3>1, <3>2
  <2>4. AcceptsCoding(g, alg) <=> present
    BY <2>1, <2>3, CodingAccepted
  <2>5. AcceptsCoding(g, alg) \in BOOLEAN
    BY DEF AcceptsCoding
  <2> QED BY <2>4, <2>5 DEF g
<1>4. ~AcceptsCoding(WithoutCoding(entries, alg), alg)
  <2> DEFINE g == WithoutCoding(entries, alg)
  <2>1. \A i \in DOMAIN g : g[i].token # alg
    BY DEF WithoutCoding
  <2> HIDE DEF g
  <2>2. ~AcceptsCoding(g, alg)
    BY <2>1, CodingAccepted
  <2> QED BY <2>2 DEF g
<1>5. AcceptsCoding(entries, alg) => present
  BY CodingAccepted
<1> QED BY <1>2, <1>3, <1>4, <1>5, FirstCoding

-----------------------------------------------------------------------------
(* Accept *)

Weights == Nat \cup {NaN}
Candidates == [index : Nat \ {0}, q : Weights, spec : Int]

\* What an item of no weight or an offer it does not name does not stand for.
CandidatesOf(item, offers, n) ==
  {c \in Candidates : ~PassedOver(item) /\ \E j \in 1..n : c = Candidate(item, offers, j) /\ c.spec >= 0}
AllCandidates(items, offers, k) ==
  {c \in Candidates : \E i \in 1..k : c \in CandidatesOf(items[i], offers, Len(offers))}

\* c is ranked before b.
Beats(c, b) ==
  c.q > b.q \/ (c.q = b.q /\ (c.spec > b.spec \/ (c.spec = b.spec /\ c.index < b.index)))

\* b is what best_match() keeps of the candidates C: one of them, and without a
\* NaN among them the one no other is ranked before.
BestOf(C, b) ==
  /\ C = {} => b = NoBest
  /\ C # {} => b \in C
  /\ (\A c \in C : c.q # NaN) => \A c \in C : ~Beats(c, b)

LEMMA CandidateTypes ==
  /\ Weights \subseteq Int
  /\ \A c \in Candidates : c.index \in Nat /\ c.index # 0 /\ c.q \in Weights /\ c.q \in Int /\ c.spec \in Int
<1>1. Weights \subseteq Int
  BY DEF Weights, NaN
<1> QED BY <1>1 DEF Candidates

\* Without NaN the comparison of best_match() is the ranking.
LEMMA BetterIsBeats ==
  ASSUME NEW c \in Candidates, NEW b \in Candidates
  PROVE  /\ c.q # NaN /\ b.q # NaN => (Better(c, b) <=> Beats(c, b))
         /\ ~Beats(c, c)
<1>1. b.index # 0 /\ c.q \in Int /\ c.spec \in Int /\ c.index \in Nat
  BY CandidateTypes
<1> QED BY <1>1 DEF Better, Beats

LEMMA BeatsTransitive ==
  ASSUME NEW x \in Candidates, NEW y \in Candidates, NEW z \in Candidates, ~Beats(x, y), ~Beats(y, z)
  PROVE  ~Beats(x, z)
<1> DEFINE xq == x.q
           yq == y.q
           zq == z.q
           xs == x.spec
           ys == y.spec
           zs == z.spec
           xi == x.index
           yi == y.index
           zi == z.index
<1>1. xq \in Int /\ yq \in Int /\ zq \in Int /\ xs \in Int /\ ys \in Int /\ zs \in Int /\ xi \in Int /\ yi \in Int /\ zi \in Int
  BY CandidateTypes
<1>2. ~(xq > yq \/ (xq = yq /\ (xs > ys \/ (xs = ys /\ xi < yi))))
  BY DEF Beats
<1>3. ~(yq > zq \/ (yq = zq /\ (ys > zs \/ (ys = zs /\ yi < zi))))
  BY DEF Beats
<1> HIDE DEF xq, yq, zq, xs, ys, zs, xi, yi, zi
<1>4. ~(xq > zq \/ (xq = zq /\ (xs > zs \/ (xs = zs /\ xi < zi))))
  BY <1>1, <1>2, <1>3
<1> QED BY <1>4 DEF Beats, xq, yq, zq, xs, ys, zs, xi, yi, zi

\* Of two that are not ranked the other way round.
LEMMA BeatsTotal ==
  ASSUME NEW x \in Candidates, NEW y \in Candidates, Beats(x, y)
  PROVE  ~Beats(y, x)
<1> DEFINE xq == x.q
           yq == y.q
           xs == x.spec
           ys == y.spec
           xi == x.index
           yi == y.index
<1>1. xq \in Int /\ yq \in Int /\ xs \in Int /\ ys \in Int /\ xi \in Int /\ yi \in Int
  BY CandidateTypes
<1>2. xq > yq \/ (xq = yq /\ (xs > ys \/ (xs = ys /\ xi < yi)))
  BY DEF Beats
<1> HIDE DEF xq, yq, xs, ys, xi, yi
<1>4. ~(yq > xq \/ (yq = xq /\ (ys > xs \/ (ys = xs /\ yi < xi))))
  BY <1>1, <1>2
<1> QED BY <1>4 DEF Beats, xq, yq, xs, ys, xi, yi

\* One more candidate.
LEMMA BestStep ==
  ASSUME NEW C \in SUBSET Candidates, NEW b, BestOf(C, b), NEW c \in Candidates
  PROVE  BestOf(C \cup {c}, IF Better(c, b) THEN c ELSE b)
<1> DEFINE D == C \cup {c}
           d == IF Better(c, b) THEN c ELSE b
<1>1. D # {} /\ \A x \in D : x \in C \/ x = c
  OBVIOUS
<1>2. CASE C = {}
  <2>1. b.index = 0
    BY <1>2 DEF BestOf, NoBest
  <2>2. d = c
    BY <2>1 DEF Better
  <2> HIDE DEF d
  <2>3. D = {c}
    BY <1>2
  <2>4. BestOf(D, d)
    BY <2>2, <2>3, BetterIsBeats DEF BestOf
  <2> QED BY <2>4 DEF d
<1>3. CASE C # {}
  <2>1. b \in C /\ b \in Candidates
    BY <1>3 DEF BestOf
  <2>2. d \in D
    BY <2>1
  <2>3. ASSUME \A x \in D : x.q # NaN, NEW x \in D PROVE ~Beats(x, d)
    <3>1. \A y \in C : ~Beats(y, b)
      BY <2>3 DEF BestOf
    <3>2. Better(c, b) <=> Beats(c, b)
      BY <2>1, <2>3, BetterIsBeats
    <3>3. CASE Beats(c, b)
      <4>1. d = c
        BY <3>2, <3>3
      <4>2. ~Beats(b, c)
        BY <2>1, <3>3, BeatsTotal
      <4>3. x \in C => ~Beats(x, c)
        BY <2>1, <3>1, <4>2, BeatsTransitive
      <4> QED BY <1>1, <4>1, <4>3, BetterIsBeats
    <3>4. CASE ~Beats(c, b)
      <4>1. d = b
        BY <3>2, <3>4
      <4> QED BY <1>1, <3>1, <3>4, <4>1
    <3> QED BY <3>3, <3>4
  <2> HIDE DEF d, D
  <2>4. BestOf(D, d)
    BY <1>1, <2>2, <2>3 DEF BestOf
  <2> QED BY <2>4 DEF d, D
<1> QED BY <1>2, <1>3

\* The scan of the offers for one item, and of the items.
OfferTaken(item, offers, j, was) ==
  IF Candidate(item, offers, j).spec >= 0 /\ Better(Candidate(item, offers, j), was)
  THEN Candidate(item, offers, j) ELSE was
OfferScan(item, offers, best, k, w) == [j \in 0..k |-> IF j = 0 THEN best ELSE OfferTaken(item, offers, j, w[j - 1])]
ItemTaken(items, offers, i, was) == IF PassedOver(items[i]) THEN was ELSE BestFor(items[i], offers, was)
ItemScan(items, offers, k, w) == [i \in 0..k |-> IF i = 0 THEN NoBest ELSE ItemTaken(items, offers, i, w[i - 1])]

\* The scan of the offers is defined.
LEMMA OfferScanExists ==
  ASSUME NEW item, NEW offers, NEW best, NEW k \in Nat
  PROVE  \E w : w = OfferScan(item, offers, best, k, w)
<1> DEFINE Bad == {m \in Nat : ~\E w : w = OfferScan(item, offers, best, m, w)}
<1> SUFFICES ASSUME Bad # {} PROVE FALSE
  OBVIOUS
<1>1. PICK m \in Bad : \A j \in Bad : m <= j
  BY LeastNatural
<1> DEFINE Step(n, s) == OfferTaken(item, offers, n, s)
<1>2. CASE m = 0
  <2> DEFINE z == [n \in 0..0 |-> best]
  <2>3. \A n \in 0..0 : n = 0
    OBVIOUS
  <2> HIDE DEF Step
  <2>4. z = [n \in 0..0 |-> IF n = 0 THEN best ELSE Step(n, z[n - 1])]
    BY <2>3
  <2>1. z = OfferScan(item, offers, best, 0, z)
    BY <2>4 DEF OfferScan, Step
  <2> QED BY <1>1, <1>2, <2>1
<1>3. CASE m # 0
  <2>1. m \in Nat /\ m - 1 \in Nat /\ m - 1 \notin Bad
    BY <1>1, <1>3
  <2>2. PICK f : f = OfferScan(item, offers, best, m - 1, f)
    BY <2>1
  <2> DEFINE g == [n \in 0..m |-> IF n < m THEN f[n] ELSE Step(m, f[m - 1])]
  <2>3. \A n \in 0..(m - 1) : f[n] = IF n = 0 THEN best ELSE Step(n, f[n - 1])
    <3>1. \A n \in 0..(m - 1) : OfferScan(item, offers, best, m - 1, f)[n] = IF n = 0 THEN best ELSE Step(n, f[n - 1])
      BY DEF OfferScan
    <3> QED BY <2>2, <3>1
  <2> HIDE DEF Step
  <2>4. ASSUME NEW n \in 0..m PROVE g[n] = IF n = 0 THEN best ELSE Step(n, g[n - 1])
    <3>1. CASE n = m
      <4>1. m \in 0..m /\ m - 1 \in 0..m /\ m - 1 < m /\ ~(m < m)
        BY <2>1
      <4>2. g[m] = Step(m, f[m - 1]) /\ g[m - 1] = f[m - 1]
        BY <4>1
      <4> QED BY <1>3, <3>1, <4>2
    <3>2. CASE n # m /\ n # 0
      <4>1. n \in 0..(m - 1) /\ n < m /\ n - 1 \in 0..m /\ n - 1 < m
        BY <2>1, <3>2
      <4>2. g[n] = f[n] /\ g[n - 1] = f[n - 1]
        BY <4>1
      <4> QED BY <2>3, <3>2, <4>1, <4>2
    <3>3. CASE n # m /\ n = 0
      <4>1. 0 \in 0..(m - 1) /\ 0 < m
        BY <1>3, <2>1
      <4>2. g[0] = f[0]
        BY <3>3, <4>1
      <4> QED BY <2>3, <3>3, <4>1, <4>2
    <3> QED BY <3>1, <3>2, <3>3
  <2>5. g = [n \in 0..m |-> g[n]]
    OBVIOUS
  <2> HIDE DEF g
  <2>6. g = [n \in 0..m |-> IF n = 0 THEN best ELSE Step(n, g[n - 1])]
    BY <2>4, <2>5
  <2>7. g = OfferScan(item, offers, best, m, g)
    BY <2>6 DEF OfferScan, Step
  <2> QED BY <1>1, <2>7
<1> QED BY <1>2, <1>3

\* The scan of the items is defined.
LEMMA ItemScanExists ==
  ASSUME NEW items, NEW offers, NEW k \in Nat
  PROVE  \E w : w = ItemScan(items, offers, k, w)
<1> DEFINE Bad == {m \in Nat : ~\E w : w = ItemScan(items, offers, m, w)}
<1> SUFFICES ASSUME Bad # {} PROVE FALSE
  OBVIOUS
<1>1. PICK m \in Bad : \A j \in Bad : m <= j
  BY LeastNatural
<1> DEFINE Step(n, s) == ItemTaken(items, offers, n, s)
<1>2. CASE m = 0
  <2> DEFINE z == [n \in 0..0 |-> NoBest]
  <2>3. \A n \in 0..0 : n = 0
    OBVIOUS
  <2> HIDE DEF Step
  <2>4. z = [n \in 0..0 |-> IF n = 0 THEN NoBest ELSE Step(n, z[n - 1])]
    BY <2>3
  <2>1. z = ItemScan(items, offers, 0, z)
    BY <2>4 DEF ItemScan, Step
  <2> QED BY <1>1, <1>2, <2>1
<1>3. CASE m # 0
  <2>1. m \in Nat /\ m - 1 \in Nat /\ m - 1 \notin Bad
    BY <1>1, <1>3
  <2>2. PICK f : f = ItemScan(items, offers, m - 1, f)
    BY <2>1
  <2> DEFINE g == [n \in 0..m |-> IF n < m THEN f[n] ELSE Step(m, f[m - 1])]
  <2>3. \A n \in 0..(m - 1) : f[n] = IF n = 0 THEN NoBest ELSE Step(n, f[n - 1])
    <3>1. \A n \in 0..(m - 1) : ItemScan(items, offers, m - 1, f)[n] = IF n = 0 THEN NoBest ELSE Step(n, f[n - 1])
      BY DEF ItemScan
    <3> QED BY <2>2, <3>1
  <2> HIDE DEF Step
  <2>4. ASSUME NEW n \in 0..m PROVE g[n] = IF n = 0 THEN NoBest ELSE Step(n, g[n - 1])
    <3>1. CASE n = m
      <4>1. m \in 0..m /\ m - 1 \in 0..m /\ m - 1 < m /\ ~(m < m)
        BY <2>1
      <4>2. g[m] = Step(m, f[m - 1]) /\ g[m - 1] = f[m - 1]
        BY <4>1
      <4> QED BY <1>3, <3>1, <4>2
    <3>2. CASE n # m /\ n # 0
      <4>1. n \in 0..(m - 1) /\ n < m /\ n - 1 \in 0..m /\ n - 1 < m
        BY <2>1, <3>2
      <4>2. g[n] = f[n] /\ g[n - 1] = f[n - 1]
        BY <4>1
      <4> QED BY <2>3, <3>2, <4>1, <4>2
    <3>3. CASE n # m /\ n = 0
      <4>1. 0 \in 0..(m - 1) /\ 0 < m
        BY <1>3, <2>1
      <4>2. g[0] = f[0]
        BY <3>3, <4>1
      <4> QED BY <2>3, <3>3, <4>1, <4>2
    <3> QED BY <3>1, <3>2, <3>3
  <2>5. g = [n \in 0..m |-> g[n]]
    OBVIOUS
  <2> HIDE DEF g
  <2>6. g = [n \in 0..m |-> IF n = 0 THEN NoBest ELSE Step(n, g[n - 1])]
    BY <2>4, <2>5
  <2>7. g = ItemScan(items, offers, m, g)
    BY <2>6 DEF ItemScan, Step
  <2> QED BY <1>1, <2>7
<1> QED BY <1>2, <1>3

LEMMA SpecificityTypes ==
  ASSUME NEW range, NEW offer
  PROVE  SpecificityOf(range, offer) \in {-1, 0, 1, 2}
<1>1. CASE range = offer
  BY <1>1 DEF SpecificityOf
<1>2. CASE range # offer /\ range = <<"*", "*">>
  BY <1>2 DEF SpecificityOf
<1>3. CASE range # offer /\ range # <<"*", "*">>
  <2>1. SpecificityOf(range, offer) = IF range[2] = "*" /\ range[1] = offer[1] THEN 1 ELSE -1
    BY <1>3 DEF SpecificityOf
  <2> QED BY <2>1
<1> QED BY <1>1, <1>2, <1>3

LEMMA CandidateFields ==
  ASSUME NEW item, LastWeight(item) \in Weights, NEW offers, NEW j \in Nat \ {0}
  PROVE  /\ Candidate(item, offers, j) \in Candidates
         /\ Candidate(item, offers, j).index = j /\ Candidate(item, offers, j).q = LastWeight(item)
         /\ Candidate(item, offers, j).spec = SpecificityOf(item.range, offers[j])
<1> DEFINE p == SpecificityOf(item.range, offers[j])
           w == LastWeight(item)
<1>1. p \in Int
  BY SpecificityTypes
<1>2. w \in Weights
  OBVIOUS
<1>3. Candidate(item, offers, j) = [index |-> j, q |-> w, spec |-> p]
  BY DEF Candidate
<1> HIDE DEF p, w
<1>4. [index |-> j, q |-> w, spec |-> p] \in Candidates
  BY <1>1, <1>2 DEF Candidates
<1>5. /\ [index |-> j, q |-> w, spec |-> p].index = j /\ [index |-> j, q |-> w, spec |-> p].q = w
      /\ [index |-> j, q |-> w, spec |-> p].spec = p
  OBVIOUS
<1> QED BY <1>3, <1>4, <1>5 DEF p, w

\* One item: the best of the candidates before it and its own.
LEMMA BestForBest ==
  ASSUME NEW item, LastWeight(item) \in Weights, ~PassedOver(item), NEW offers, Len(offers) \in Nat,
         NEW C \in SUBSET Candidates, NEW best, BestOf(C, best)
  PROVE  BestOf(C \cup CandidatesOf(item, offers, Len(offers)), BestFor(item, offers, best))
<1> DEFINE N == Len(offers)
           w == CHOOSE f : f = OfferScan(item, offers, best, N, f)
<1>1. N \in Nat
  OBVIOUS
<1>2. BestFor(item, offers, best) = w[N]
  BY DEF BestFor, OfferScan, OfferTaken
<1>3. w = OfferScan(item, offers, best, N, w)
  BY <1>1, OfferScanExists
<1> HIDE DEF w
<1>4. \A j \in 0..N : w[j] = IF j = 0 THEN best ELSE OfferTaken(item, offers, j, w[j - 1])
  <2>1. \A j \in 0..N : OfferScan(item, offers, best, N, w)[j] = IF j = 0 THEN best ELSE OfferTaken(item, offers, j, w[j - 1])
    BY DEF OfferScan
  <2> QED BY <1>3, <2>1
<1> HIDE DEF N
<1> DEFINE So(j) == C \cup CandidatesOf(item, offers, j)
           Bad == {j \in Nat : j <= N /\ ~BestOf(So(j), w[j])}
<1>5. So(0) = C
  BY DEF CandidatesOf
<1>6. ASSUME NEW j \in Nat, j # 0
      PROVE  So(j) = IF Candidate(item, offers, j).spec >= 0 THEN So(j - 1) \cup {Candidate(item, offers, j)} ELSE So(j - 1)
  <2> DEFINE c == Candidate(item, offers, j)
  <2>1. 1..j = (1..(j - 1)) \cup {j}
    BY <1>6
  <2>2. c \in Candidates
    BY <1>6, CandidateFields
  <2>3. \A x \in Candidates : x \in CandidatesOf(item, offers, j) <=> x \in CandidatesOf(item, offers, j - 1) \/ (x = c /\ c.spec >= 0)
    BY <2>1 DEF CandidatesOf
  <2>4. \A k : CandidatesOf(item, offers, k) \subseteq Candidates
    BY DEF CandidatesOf
  <2> HIDE DEF c
  <2>5. CandidatesOf(item, offers, j) = IF c.spec >= 0 THEN CandidatesOf(item, offers, j - 1) \cup {c} ELSE CandidatesOf(item, offers, j - 1)
    BY <2>2, <2>3, <2>4
  <2>6. So(j) = IF c.spec >= 0 THEN So(j - 1) \cup {c} ELSE So(j - 1)
    BY <2>5
  <2> QED BY <2>6 DEF c
<1>7. \A j : So(j) \in SUBSET Candidates
  BY DEF CandidatesOf
<1>8. ASSUME Bad # {} PROVE FALSE
  <2>1. PICK m \in Bad : \A j \in Bad : m <= j
    BY <1>8, LeastNatural
  <2>2. m \in Nat /\ m <= N /\ ~BestOf(So(m), w[m])
    BY <2>1
  <2>3. CASE m = 0
    <3>1. 0 \in 0..N
      BY <1>1
    <3>2. w[0] = best
      BY <1>4, <3>1
    <3> QED BY <1>5, <2>2, <2>3, <3>2
  <2>4. CASE m # 0
    <3>1. m - 1 \in Nat /\ m - 1 <= N /\ m - 1 \notin Bad /\ m \in 0..N
      <4> HIDE DEF Bad
      <4> QED BY <1>1, <2>1, <2>2, <2>4
    <3>2. BestOf(So(m - 1), w[m - 1])
      BY <3>1
    <3> DEFINE c == Candidate(item, offers, m)
               S == So(m - 1)
               b == w[m - 1]
    <3>3. w[m] = IF c.spec >= 0 /\ Better(c, b) THEN c ELSE b
      <4>1. w[m] = OfferTaken(item, offers, m, b)
        BY <1>4, <2>4, <3>1
      <4> QED BY <4>1 DEF OfferTaken
    <3>4. c \in Candidates
      BY <2>2, <2>4, CandidateFields
    <3>5. So(m) = IF c.spec >= 0 THEN S \cup {c} ELSE S
      <4> HIDE DEF So
      <4> QED BY <1>6, <2>2, <2>4
    <3>6. S \in SUBSET Candidates /\ BestOf(S, b)
      BY <1>7, <3>2
    <3> HIDE DEF c, S, b, So
    <3>7. BestOf(S \cup {c}, IF Better(c, b) THEN c ELSE b)
      BY <3>4, <3>6, BestStep
    <3>8. BestOf(So(m), w[m])
      <4>1. CASE c.spec >= 0
        BY <3>3, <3>5, <3>7, <4>1
      <4>2. CASE ~(c.spec >= 0)
        BY <3>3, <3>5, <3>6, <4>2
      <4> QED BY <4>1, <4>2
    <3> QED BY <2>2, <3>8
  <2> QED BY <2>3, <2>4
<1>9. N \in Nat /\ N <= N
  BY <1>1
<1>10. BestOf(So(N), w[N])
  BY <1>8, <1>9
<1> QED BY <1>2, <1>10 DEF N

\* All items: the answer is the index of the best of all candidates.
LEMMA BestMatched ==
  ASSUME NEW items, Len(items) \in Nat, \A i \in 1..Len(items) : LastWeight(items[i]) \in Weights,
         NEW offers, Len(offers) \in Nat
  PROVE  \E b : BestOf(AllCandidates(items, offers, Len(items)), b) /\ BestMatch(items, offers) = b.index
<1> DEFINE N == Len(items)
           w == CHOOSE f : f = ItemScan(items, offers, N, f)
<1>1. N \in Nat
  OBVIOUS
<1>2. BestMatch(items, offers) = w[N].index
  BY DEF BestMatch, ItemScan, ItemTaken
<1>3. w = ItemScan(items, offers, N, w)
  BY <1>1, ItemScanExists
<1> HIDE DEF w
<1>4. \A i \in 0..N : w[i] = IF i = 0 THEN NoBest ELSE ItemTaken(items, offers, i, w[i - 1])
  <2>1. \A i \in 0..N : ItemScan(items, offers, N, w)[i] = IF i = 0 THEN NoBest ELSE ItemTaken(items, offers, i, w[i - 1])
    BY DEF ItemScan
  <2> QED BY <1>3, <2>1
<1>a. \A i \in 1..N : LastWeight(items[i]) \in Weights
  OBVIOUS
<1> HIDE DEF N
<1> DEFINE So(i) == AllCandidates(items, offers, i)
           Own(i) == CandidatesOf(items[i], offers, Len(offers))
           Bad == {i \in Nat : i <= N /\ ~BestOf(So(i), w[i])}
<1>5. So(0) = {}
  BY DEF AllCandidates
<1>6. ASSUME NEW i \in Nat, i # 0 PROVE So(i) = So(i - 1) \cup Own(i)
  <2>1. 1..i = (1..(i - 1)) \cup {i}
    BY <1>6
  <2>2. Own(i) \subseteq Candidates
    BY DEF CandidatesOf
  <2> HIDE DEF Own
  <2>3. \A k : AllCandidates(items, offers, k) = {c \in Candidates : \E n \in 1..k : c \in Own(n)}
    BY DEF AllCandidates, Own
  <2> QED BY <2>1, <2>2, <2>3
<1>7. \A i : So(i) \in SUBSET Candidates
  BY DEF AllCandidates
<1>b. BestOf({}, NoBest)
  BY DEF BestOf
<1>8. ASSUME Bad # {} PROVE FALSE
  <2>1. PICK m \in Bad : \A j \in Bad : m <= j
    BY <1>8, LeastNatural
  <2>2. m \in Nat /\ m <= N /\ ~BestOf(So(m), w[m])
    BY <2>1
  <2>3. CASE m = 0
    <3>1. 0 \in 0..N
      BY <1>1
    <3>2. w[0] = NoBest
      BY <1>4, <3>1
    <3> QED BY <1>5, <1>b, <2>2, <2>3, <3>2
  <2>4. CASE m # 0
    <3>1. m - 1 \in Nat /\ m - 1 <= N /\ m - 1 \notin Bad /\ m \in 0..N /\ m \in 1..N
      BY <1>1, <2>1, <2>4
    <3>2. BestOf(So(m - 1), w[m - 1])
      BY <3>1
    <3> DEFINE S == So(m - 1)
               b == w[m - 1]
               item == items[m]
    <3>3. w[m] = IF PassedOver(item) THEN b ELSE BestFor(item, offers, b)
      BY <1>4, <2>4, <3>1 DEF ItemTaken
    <3>4. So(m) = S \cup CandidatesOf(item, offers, Len(offers))
      BY <1>6, <2>2, <2>4
    <3>5. LastWeight(item) \in Weights
      BY <1>a, <3>1
    <3>6. S \in SUBSET Candidates /\ BestOf(S, b)
      BY <1>7, <3>2
    <3> HIDE DEF S, b, So, item
    <3>7. CASE PassedOver(item)
      <4>1. CandidatesOf(item, offers, Len(offers)) = {}
        BY <3>7 DEF CandidatesOf
      <4>2. So(m) = S /\ w[m] = b
        BY <3>3, <3>4, <3>7, <4>1
      <4> QED BY <2>2, <3>6, <4>2
    <3>8. CASE ~PassedOver(item)
      <4>1. BestOf(S \cup CandidatesOf(item, offers, Len(offers)), BestFor(item, offers, b))
        BY <3>5, <3>6, <3>8, BestForBest
      <4>2. w[m] = BestFor(item, offers, b)
        BY <3>3, <3>8
      <4> QED BY <2>2, <3>4, <4>1, <4>2
    <3> QED BY <3>7, <3>8
  <2> QED BY <2>3, <2>4
<1>9. N \in Nat /\ N <= N
  BY <1>1
<1>10. BestOf(So(N), w[N])
  BY <1>8, <1>9
<1> QED BY <1>2, <1>10 DEF N

\* The weight of an item that counts.
LEMMA LastWeightTypes ==
  ASSUME NEW item \in Items
  PROVE  LastWeight(item) \in Weights
<1> DEFINE ws == item.weights
<1>1. ws \in Seq(Nat \cup {NaN, Junky})
  BY WeightsAreNumbers DEF Items
<1>2. LastWeight(item) = IF ws = <<>> THEN 10 ELSE IF Last(ws) = Junky THEN 0 ELSE Last(ws)
  BY DEF LastWeight
<1> HIDE DEF ws
<1>3. ws # <<>> => Last(ws) \in Nat \cup {NaN, Junky}
  BY <1>1 DEF Last
<1> QED BY <1>2, <1>3 DEF Weights

\* Lists best_match() can be given.
Weighted(items) == Len(items) \in Nat /\ \A i \in 1..Len(items) : LastWeight(items[i]) \in Weights

\* Which candidates there are.
LEMMA CandidateStands ==
  ASSUME NEW items, Weighted(items), NEW offers, NEW i \in 1..Len(items), NEW j \in 1..Len(offers), Len(offers) \in Nat,
         ~PassedOver(items[i]), SpecificityOf(items[i].range, offers[j]) >= 0
  PROVE  Candidate(items[i], offers, j) \in AllCandidates(items, offers, Len(items))
<1> DEFINE c == Candidate(items[i], offers, j)
<1>1. c \in Candidates /\ c.spec = SpecificityOf(items[i].range, offers[j])
  BY CandidateFields DEF Weighted
<1>2. c \in CandidatesOf(items[i], offers, Len(offers))
  BY <1>1 DEF CandidatesOf
<1> HIDE DEF c
<1>3. c \in AllCandidates(items, offers, Len(items))
  BY <1>1, <1>2 DEF AllCandidates
<1> QED BY <1>3 DEF c

LEMMA CandidateOrigin ==
  ASSUME NEW items, Weighted(items), NEW offers, Len(offers) \in Nat, NEW c \in AllCandidates(items, offers, Len(items))
  PROVE  /\ c \in Candidates /\ c.index \in 1..Len(offers)
         /\ \E i \in 1..Len(items) : /\ ~PassedOver(items[i]) /\ c.q = LastWeight(items[i])
                                     /\ c.spec = SpecificityOf(items[i].range, offers[c.index]) /\ c.spec >= 0
<1>1. c \in Candidates
  BY DEF AllCandidates
<1>2. PICK i \in 1..Len(items) : c \in CandidatesOf(items[i], offers, Len(offers))
  BY DEF AllCandidates
<1>3. ~PassedOver(items[i])
  BY <1>2 DEF CandidatesOf
<1>4. PICK j \in 1..Len(offers) : c = Candidate(items[i], offers, j) /\ c.spec >= 0
  BY <1>2 DEF CandidatesOf
<1>5. c.index = j /\ c.q = LastWeight(items[i]) /\ c.spec = SpecificityOf(items[i].range, offers[j])
  BY <1>4, CandidateFields DEF Weighted
<1> QED BY <1>1, <1>3, <1>4, <1>5

\* best_match() answers nothing exactly when there is no candidate.
LEMMA MatchFacts ==
  ASSUME NEW items, Weighted(items), NEW offers, Len(offers) \in Nat
  PROVE  /\ AllCandidates(items, offers, Len(items)) = {} => BestMatch(items, offers) = 0
         /\ AllCandidates(items, offers, Len(items)) # {} =>
              \E b \in AllCandidates(items, offers, Len(items)) :
                 /\ BestMatch(items, offers) = b.index
                 /\ (\A c \in AllCandidates(items, offers, Len(items)) : c.q # NaN) =>
                      \A c \in AllCandidates(items, offers, Len(items)) : ~Beats(c, b)
<1> DEFINE A == AllCandidates(items, offers, Len(items))
<1>1. PICK b : BestOf(A, b) /\ BestMatch(items, offers) = b.index
  BY BestMatched DEF Weighted
<1> HIDE DEF A
<1>2. A = {} => b.index = 0
  BY <1>1 DEF BestOf, NoBest
<1>3. A # {} => b \in A /\ ((\A c \in A : c.q # NaN) => \A c \in A : ~Beats(c, b))
  BY <1>1 DEF BestOf
<1>4. A = {} => BestMatch(items, offers) = 0
  BY <1>1, <1>2
<1>5. A # {} => \E d \in A : /\ BestMatch(items, offers) = d.index
                             /\ (\A c \in A : c.q # NaN) => \A c \in A : ~Beats(c, d)
  BY <1>1, <1>3
<1> QED BY <1>4, <1>5 DEF A

LEMMA Exact ==
  ASSUME NEW range, NEW offer
  PROVE  SpecificityOf(range, offer) = 2 <=> range = offer
<1>1. CASE range = offer
  BY <1>1 DEF SpecificityOf
<1>2. CASE range # offer /\ range = <<"*", "*">>
  BY <1>2 DEF SpecificityOf
<1>3. CASE range # offer /\ range # <<"*", "*">>
  <2>1. SpecificityOf(range, offer) = IF range[2] = "*" /\ range[1] = offer[1] THEN 1 ELSE -1
    BY <1>3 DEF SpecificityOf
  <2> QED BY <1>3, <2>1
<1> QED BY <1>1, <1>2, <1>3

LEMMA WeightPassed ==
  ASSUME NEW item, LastWeight(item) \in Weights
  PROVE  /\ Positive(LastWeight(item)) => ~PassedOver(item)
         /\ ~PassedOver(item) /\ LastWeight(item) # NaN => Positive(LastWeight(item))
<1>1. LastWeight(item) \in Int
  BY CandidateTypes
<1> QED BY <1>1 DEF Positive, PassedOver

\* The winner holds a key no other offer's key outranks, nor equals at an
\* earlier place.
LEMMA WinnerRanks ==
  ASSUME NEW items \in Seq(Items), NEW offers, Len(offers) \in Nat, DOMAIN offers = 1..Len(offers), Weighted(items),
         NEW b \in AllCandidates(items, offers, Len(items)),
         \A i \in DOMAIN items : LastWeight(items[i]) # NaN,
         \A c \in AllCandidates(items, offers, Len(items)) : ~Beats(c, b)
  PROVE  \E key \in KeysOf(items, offers[b.index]) :
           \A j \in DOMAIN offers : \A other \in KeysOf(items, offers[j]) :
             ~OutranksKey(other, key) /\ ~(other = key /\ j < b.index)
<1> DEFINE A == AllCandidates(items, offers, Len(items))
           win == b.index
           bq == b.q
           bs == b.spec
           key == <<bq, bs>>
<1>1. PICK i \in 1..Len(items) : /\ ~PassedOver(items[i]) /\ b.q = LastWeight(items[i])
                                 /\ b.spec = SpecificityOf(items[i].range, offers[b.index]) /\ b.spec >= 0
  BY CandidateOrigin
<1>2. DOMAIN items = 1..Len(items)
  OBVIOUS
<1>3. Positive(LastWeight(items[i]))
  BY <1>1, <1>2, WeightPassed DEF Weighted
<1>4. key \in KeysOf(items, offers[win])
  BY <1>1, <1>2, <1>3 DEF KeysOf
<1>5. b \in Candidates
  BY CandidateOrigin
<1>6. ASSUME NEW j \in DOMAIN offers, NEW other \in KeysOf(items, offers[j])
      PROVE  ~OutranksKey(other, key) /\ ~(other = key /\ j < win)
  <2>1. PICK k \in DOMAIN items : /\ Positive(LastWeight(items[k])) /\ SpecificityOf(items[k].range, offers[j]) >= 0
                                  /\ other = <<LastWeight(items[k]), SpecificityOf(items[k].range, offers[j])>>
    BY DEF KeysOf
  <2>2. LastWeight(items[k]) \in Weights /\ ~PassedOver(items[k])
    BY <1>2, <2>1, WeightPassed DEF Weighted
  <2> DEFINE c == Candidate(items[k], offers, j)
             cq == LastWeight(items[k])
             cs == SpecificityOf(items[k].range, offers[j])
  <2>3. c \in A
    BY <1>2, <2>1, <2>2, CandidateStands
  <2>4. c.index = j /\ c.q = cq /\ c.spec = cs /\ c \in Candidates
    BY <2>2, CandidateFields
  <2>5. ~Beats(c, b)
    BY <2>3
  <2>6. other = <<cq, cs>>
    BY <2>1
  <2> HIDE DEF c, cq, cs, bq, bs, win
  <2>7. ~(cq > bq \/ (cq = bq /\ (cs > bs \/ (cs = bs /\ j < win))))
    BY <2>4, <2>5 DEF Beats, bq, bs, win
  <2>8. other[1] = cq /\ other[2] = cs /\ key[1] = bq /\ key[2] = bs
    BY <2>6
  <2>9. ~OutranksKey(other, key)
    BY <2>7, <2>8 DEF OutranksKey
  <2>10. ~(other = key /\ j < win)
    BY <2>7, <2>8
  <2> QED BY <2>9, <2>10
<1> QED BY <1>4, <1>6

\* An offer an item names wins alone.
LEMMA WinsAlone ==
  ASSUME NEW items, Weighted(items), NEW offers, Len(offers) \in Nat, NEW b \in AllCandidates(items, offers, Len(items))
  PROVE  BestMatch(items, <<offers[b.index]>>) = 1
<1> DEFINE one == <<offers[b.index]>>
<1>1. Len(one) = 1 /\ one[1] = offers[b.index]
  OBVIOUS
<1>2. PICK i \in 1..Len(items) : /\ ~PassedOver(items[i])
                                 /\ b.spec = SpecificityOf(items[i].range, offers[b.index]) /\ b.spec >= 0
  BY CandidateOrigin
<1> HIDE DEF one
<1>3. Candidate(items[i], one, 1) \in AllCandidates(items, one, Len(items))
  <2>1. SpecificityOf(items[i].range, one[1]) >= 0 /\ 1 \in 1..Len(one) /\ Len(one) \in Nat
    BY <1>1, <1>2
  <2> QED BY <1>2, <2>1, CandidateStands
<1>4. PICK d \in AllCandidates(items, one, Len(items)) : BestMatch(items, one) = d.index
  BY <1>1, <1>3, MatchFacts
<1>5. d.index \in 1..Len(one)
  BY <1>1, CandidateOrigin
<1> QED BY <1>1, <1>4, <1>5 DEF one

\* An offer asked for by its name is what is sent.
LEMMA AskedByName ==
  ASSUME NEW offers, Len(offers) \in Nat, NEW k \in 1..Len(offers)
  PROVE  offers[BestMatch(<<[range |-> offers[k], weights |-> <<>>]>>, offers)] = offers[k]
<1> DEFINE own == [range |-> offers[k], weights |-> <<>>]
           items == <<own>>
<1>1. own.range = offers[k] /\ LastWeight(own) = 10
  BY DEF LastWeight
<1>2. Len(items) = 1 /\ items[1] = own
  OBVIOUS
<1>3. 10 \in Weights /\ 10 # NaN /\ ~PassedOver(own)
  BY <1>1 DEF Weights, NaN, PassedOver
<1> HIDE DEF own, items
<1> DEFINE A == AllCandidates(items, offers, Len(items))
           c == Candidate(own, offers, k)
<1>4. Weighted(items)
  BY <1>1, <1>2, <1>3 DEF Weighted
<1>5. SpecificityOf(own.range, offers[k]) = 2
  BY <1>1, Exact
<1>6. c \in A
  <2>1. 1 \in 1..Len(items) /\ ~PassedOver(items[1]) /\ SpecificityOf(items[1].range, offers[k]) >= 0
    BY <1>2, <1>3, <1>5
  <2> QED BY <1>2, <1>4, <2>1, CandidateStands
<1>7. c.q = 10 /\ c.spec = 2
  BY <1>1, <1>3, <1>5, CandidateFields
<1>8. ASSUME NEW d \in A
      PROVE  d.q = 10 /\ d.index \in 1..Len(offers) /\ d.spec = SpecificityOf(own.range, offers[d.index])
  <2>1. PICK i \in 1..Len(items) : /\ d.q = LastWeight(items[i])
                                   /\ d.spec = SpecificityOf(items[i].range, offers[d.index])
    BY <1>4, CandidateOrigin
  <2>2. i = 1
    BY <1>2
  <2>3. d.index \in 1..Len(offers)
    BY <1>4, CandidateOrigin
  <2> QED BY <1>1, <1>2, <2>1, <2>2, <2>3
<1>9. PICK b \in A : BestMatch(items, offers) = b.index /\ ((\A d \in A : d.q # NaN) => \A d \in A : ~Beats(d, b))
  BY <1>4, <1>6, MatchFacts
<1>10. ~Beats(c, b)
  BY <1>3, <1>6, <1>8, <1>9
<1>11. b.q = 10 /\ b.spec = SpecificityOf(own.range, offers[b.index])
  BY <1>8
<1>12. ~(2 > b.spec)
  BY <1>7, <1>10, <1>11 DEF Beats
<1>13. b.spec = 2
  BY <1>11, <1>12, SpecificityTypes
<1>14. own.range = offers[b.index]
  BY <1>11, <1>13, Exact
<1> QED BY <1>1, <1>9, <1>14 DEF own, items

\* Without a winner no offer is named, and none wins alone.
LEMMA NoneWins ==
  ASSUME NEW items \in Seq(Items), Weighted(items), NEW offers, Len(offers) \in Nat, NEW j \in 1..Len(offers),
         AllCandidates(items, offers, Len(items)) = {}
  PROVE  KeysOf(items, offers[j]) = {} /\ BestMatch(items, <<offers[j]>>) = 0
<1>1. DOMAIN items = 1..Len(items)
  OBVIOUS
<1>2. \A i \in 1..Len(items) : ~(~PassedOver(items[i]) /\ SpecificityOf(items[i].range, offers[j]) >= 0)
  <2> SUFFICES ASSUME NEW i \in 1..Len(items), ~PassedOver(items[i]), SpecificityOf(items[i].range, offers[j]) >= 0
               PROVE FALSE
    OBVIOUS
  <2>1. Candidate(items[i], offers, j) \in AllCandidates(items, offers, Len(items))
    BY CandidateStands
  <2> QED BY <2>1
<1>3. KeysOf(items, offers[j]) = {}
  <2>1. \A i \in DOMAIN items : ~(Positive(LastWeight(items[i])) /\ SpecificityOf(items[i].range, offers[j]) >= 0)
    BY <1>1, <1>2, WeightPassed DEF Weighted
  <2> QED BY <2>1 DEF KeysOf
<1> DEFINE one == <<offers[j]>>
<1>4. Len(one) = 1 /\ one[1] = offers[j]
  OBVIOUS
<1> HIDE DEF one
<1>5. AllCandidates(items, one, Len(items)) = {}
  <2> SUFFICES ASSUME NEW c \in AllCandidates(items, one, Len(items)) PROVE FALSE
    OBVIOUS
  <2>1. c.index \in 1..Len(one)
    BY <1>4, CandidateOrigin
  <2>2. c.index = 1
    BY <1>4, <2>1
  <2>3. PICK i \in 1..Len(items) : ~PassedOver(items[i]) /\ c.spec = SpecificityOf(items[i].range, one[c.index]) /\ c.spec >= 0
    BY <1>4, CandidateOrigin
  <2> QED BY <1>2, <1>4, <2>2, <2>3
<1>6. BestMatch(items, one) = 0
  BY <1>4, <1>5, MatchFacts
<1> QED BY <1>3, <1>6 DEF one

\* An item of weight 0 refuses.
LEMMA RefusedByWeight ==
  ASSUME NEW r, NEW offer
  PROVE  BestMatch(<<[range |-> r, weights |-> <<0>>]>>, <<offer>>) = 0
<1> DEFINE no == [range |-> r, weights |-> <<0>>]
           items == <<no>>
           one == <<offer>>
<1>1. LastWeight(no) = 0
  <2>1. no.weights = <<0>> /\ <<0>> # <<>> /\ Last(<<0>>) = 0 /\ 0 # Junky
    BY DEF Last, Junky
  <2> QED BY <2>1 DEF LastWeight
<1>2. Len(items) = 1 /\ items[1] = no /\ Len(one) = 1
  OBVIOUS
<1> HIDE DEF no, items, one
<1>3. PassedOver(no) /\ 0 \in Weights
  BY <1>1 DEF PassedOver, NaN, Weights
<1>a. Len(one) \in Nat
  BY <1>2
<1>4. Weighted(items)
  BY <1>1, <1>2, <1>3 DEF Weighted
<1>5. AllCandidates(items, one, Len(items)) = {}
  <2> SUFFICES ASSUME NEW c \in AllCandidates(items, one, Len(items)) PROVE FALSE
    OBVIOUS
  <2>1. PICK i \in 1..Len(items) : ~PassedOver(items[i])
    BY <1>a, <1>4, CandidateOrigin
  <2> QED BY <1>2, <1>3, <2>1
<1>6. BestMatch(items, one) = 0
  BY <1>a, <1>4, <1>5, MatchFacts
<1> QED BY <1>6 DEF no, items, one

LEMMA AcceptChecked ==
  ASSUME NEW items \in Seq(Items), NEW offers \in Seq(MediaTypes)
  PROVE  CheckAccept(items, offers)
<1> DEFINE win == BestMatch(items, offers)
           A == AllCandidates(items, offers, Len(items))
           sawNaN == \E i \in DOMAIN items : LastWeight(items[i]) = NaN
<1>1. Weighted(items) /\ DOMAIN items = 1..Len(items)
  BY LastWeightTypes DEF Weighted
<1>2. Len(offers) \in Nat /\ DOMAIN offers = 1..Len(offers)
  OBVIOUS
<1>3. A = {} => win = 0
  BY <1>1, <1>2, MatchFacts
<1>4. ASSUME A # {}
      PROVE  \E b \in A : win = b.index /\ ((\A c \in A : c.q # NaN) => \A c \in A : ~Beats(c, b))
  BY <1>1, <1>2, <1>4, MatchFacts
<1>5. \A b \in A : b.index \in 1..Len(offers)
  BY <1>1, <1>2, CandidateOrigin
<1>6. ASSUME ~sawNaN, NEW c \in A PROVE c.q # NaN
  <2>1. PICK i \in 1..Len(items) : c.q = LastWeight(items[i])
    BY <1>1, <1>2, CandidateOrigin
  <2> QED BY <1>1, <1>6, <2>1
<1> DEFINE L1 == \E key \in KeysOf(items, offers[win]) :
                   \A j \in DOMAIN offers : \A other \in KeysOf(items, offers[j]) :
                     ~OutranksKey(other, key) /\ ~(other = key /\ j < win)
           L2 == BestMatch(items, <<offers[win]>>) = 1
           L3 == offers[BestMatch(<<[range |-> offers[win], weights |-> <<>>]>>, offers)] = offers[win]
           L4 == \A j \in DOMAIN offers : KeysOf(items, offers[j]) = {} /\ BestMatch(items, <<offers[j]>>) = 0
           L0 == ~RefusedByName(items, offers[win])
           L5 == \A j \in DOMAIN offers : BestMatch(<<[range |-> offers[j], weights |-> <<0>>]>>, <<offers[j]>>) = 0
<1>7. ASSUME win > 0 PROVE (~sawNaN => L1) /\ L0 /\ L2 /\ L3
  <2>1. A # {}
    BY <1>3, <1>7
  <2>2. PICK b \in A : win = b.index /\ ((\A c \in A : c.q # NaN) => \A c \in A : ~Beats(c, b))
    BY <1>4, <2>1
  <2>3. L2
    <3>1. BestMatch(items, <<offers[b.index]>>) = 1
      BY <1>1, <1>2, WinsAlone
    <3> QED BY <2>2, <3>1
  <2>4. L3
    <3>1. b.index \in 1..Len(offers)
      BY <1>5
    <3>2. offers[BestMatch(<<[range |-> offers[b.index], weights |-> <<>>]>>, offers)] = offers[b.index]
      BY <1>2, <3>1, AskedByName
    <3> QED BY <2>2, <3>2
  <2>5. ASSUME ~sawNaN PROVE L1
    <3>1. \A c \in A : ~Beats(c, b)
      BY <1>6, <2>2, <2>5
    <3>2. \E key \in KeysOf(items, offers[b.index]) :
            \A j \in DOMAIN offers : \A other \in KeysOf(items, offers[j]) :
              ~OutranksKey(other, key) /\ ~(other = key /\ j < b.index)
      BY <1>1, <1>2, <2>5, <3>1, WinnerRanks
    <3> QED BY <2>2, <3>2
  <2>6. L0
    <3>1. PICK i \in 1..Len(items) : ~PassedOver(items[i]) /\ SpecificityOf(items[i].range, offers[b.index]) >= 0
      BY <1>1, <1>2, CandidateOrigin
    <3>2. SpecificityOf(items[i].range, offers[b.index]) = 2 => items[i].range = offers[b.index]
      BY DEF SpecificityOf
    <3>3. ASSUME RefusedByName(items, offers[b.index]) PROVE FALSE
      <4>1. SpecificityOf(items[i].range, offers[b.index]) \in {-1, 2}
        BY <1>1, <3>3 DEF RefusedByName, ByName
      <4>2. items[i].range = offers[b.index]
        BY <3>1, <3>2, <4>1
      <4> QED BY <1>1, <3>1, <3>3, <4>2 DEF RefusedByName
    <3> QED BY <2>2, <3>3
  <2> QED BY <2>3, <2>4, <2>5, <2>6
<1>8. ASSUME win = 0 PROVE L4
  <2>1. A = {}
    <3> SUFFICES ASSUME A # {} PROVE FALSE
      OBVIOUS
    <3>1. PICK b \in A : win = b.index
      BY <1>4
    <3> QED BY <1>2, <1>5, <1>8, <3>1
  <2>2. \A j \in 1..Len(offers) : KeysOf(items, offers[j]) = {} /\ BestMatch(items, <<offers[j]>>) = 0
    BY <1>1, <1>2, <2>1, NoneWins
  <2> QED BY <1>2, <2>2
<1>9. L5
  BY RefusedByWeight
<1>10. CheckAccept(items, offers) <=> /\ win > 0 /\ ~sawNaN => L1
                                      /\ win > 0 => L0
                                      /\ win > 0 => L2
                                      /\ win > 0 => L3
                                      /\ win = 0 => L4
                                      /\ L5
  BY DEF CheckAccept
<1> HIDE DEF L0, L1, L2, L3, L4, L5, win, sawNaN
<1> QED BY <1>7, <1>8, <1>9, <1>10

-----------------------------------------------------------------------------
(* The specification *)

\* A header is one of those a client can send.
HeaderInv ==
  \/ header = NoHeader
  \/ \E r \in RangeSpecs, len \in 0..MaxLen, v \in IfRanges, known \in BOOLEAN :
       header = [of |-> "range", range |-> r, len |-> len, ifRange |-> v, known |-> known]
  \/ \E list \in Seq(Tags), etag \in Etags : header = [of |-> "list", list |-> list, etag |-> etag]
  \/ \E since, modified \in {Unknown} \cup Seconds, etag \in Etags :
       header = [of |-> "dates", since |-> since, modified |-> modified, etag |-> etag]
  \/ \E entries \in Seq(Entries) : header = [of |-> "codings", entries |-> entries]
  \/ \E items \in Seq(Items), offers \in Seq(MediaTypes) : header = [of |-> "accept", items |-> items, offers |-> offers]

LEMMA BoundedSeqs ==
  ASSUME NEW S, NEW n, NEW s \in SeqsUpTo(S, n)
  PROVE  s \in Seq(S)
BY DEF SeqsUpTo

LEMMA HeaderLaws ==
  ASSUME HeaderInv
  PROVE  HeadersKeepTheirLaws
<1>1. CASE header = NoHeader
  <2>1. header.of = "none"
    BY <1>1 DEF NoHeader
  <2> QED BY <2>1 DEF HeadersKeepTheirLaws, ValidatorLaws, AcceptanceLaws
<1>2. ASSUME NEW r \in RangeSpecs, NEW len \in 0..MaxLen, NEW v \in IfRanges, NEW known \in BOOLEAN,
             header = [of |-> "range", range |-> r, len |-> len, ifRange |-> v, known |-> known]
      PROVE  HeadersKeepTheirLaws
  <2>1. header.of = "range" /\ header.range = r /\ header.len = len /\ header.ifRange = v /\ header.known = known
    BY <1>2
  <2>2. CheckRange(r, len, v, known)
    <3>1. len \in Nat
      BY NegotiationConstants
    <3> QED BY <3>1, RangeChecked
  <2> QED BY <2>1, <2>2 DEF HeadersKeepTheirLaws, ValidatorLaws, AcceptanceLaws
<1>3. ASSUME NEW list \in Seq(Tags), NEW etag \in Etags, header = [of |-> "list", list |-> list, etag |-> etag]
      PROVE  HeadersKeepTheirLaws
  <2>1. header.of = "list" /\ header.list = list /\ header.etag = etag
    BY <1>3
  <2>2. CheckPrecedence(list, etag) /\ CheckList(list, etag)
    BY PrecedenceChecked, ListChecked
  <2> QED BY <2>1, <2>2 DEF HeadersKeepTheirLaws, ValidatorLaws, AcceptanceLaws
<1>4. ASSUME NEW since \in {Unknown} \cup Seconds, NEW modified \in {Unknown} \cup Seconds, NEW etag \in Etags,
             header = [of |-> "dates", since |-> since, modified |-> modified, etag |-> etag]
      PROVE  HeadersKeepTheirLaws
  <2>1. header.of = "dates" /\ header.since = since /\ header.modified = modified /\ header.etag = etag
    BY <1>4
  <2>2. CheckDates(since, etag, modified)
    BY DatesChecked
  <2> QED BY <2>1, <2>2 DEF HeadersKeepTheirLaws, ValidatorLaws, AcceptanceLaws
<1>5. ASSUME NEW entries \in Seq(Entries), header = [of |-> "codings", entries |-> entries]
      PROVE  HeadersKeepTheirLaws
  <2>1. header.of = "codings" /\ header.entries = entries
    BY <1>5
  <2>2. CheckCodings(entries)
    BY CodingsChecked
  <2> QED BY <2>1, <2>2 DEF HeadersKeepTheirLaws, ValidatorLaws, AcceptanceLaws
<1>6. ASSUME NEW items \in Seq(Items), NEW offers \in Seq(MediaTypes),
             header = [of |-> "accept", items |-> items, offers |-> offers]
      PROVE  HeadersKeepTheirLaws
  <2>1. header.of = "accept" /\ header.items = items /\ header.offers = offers
    BY <1>6
  <2>2. CheckAccept(items, offers)
    BY AcceptChecked
  <2> QED BY <2>1, <2>2 DEF HeadersKeepTheirLaws, ValidatorLaws, AcceptanceLaws
<1> QED BY <1>1, <1>2, <1>3, <1>4, <1>5, <1>6 DEF HeaderInv

\* Whatever Range, If-Range, If-None-Match, If-Modified-Since, Accept-Encoding or
\* Accept header a client sends, of whatever length, parse(), is_fresh(),
\* negotiate() and best_match() answer it as the laws of their fuzz targets say.
THEOREM HeadersAnswered == NegotiationSpec => []HeadersKeepTheirLaws
<1>1. NegotiationInit => HeaderInv
  BY DEF NegotiationInit, HeaderInv
<1>2. HeaderInv /\ [NegotiationNext]_negotiationVars => HeaderInv'
  <2> SUFFICES ASSUME HeaderInv, [NegotiationNext]_negotiationVars PROVE HeaderInv'
    OBVIOUS
  <2>1. CASE GiveRange
    BY <2>1 DEF GiveRange, HeaderInv
  <2>2. CASE GiveConditions
    <3>1. PICK list \in SeqsUpTo(Tags, MaxMembers), etag \in Etags : header' = [of |-> "list", list |-> list, etag |-> etag]
      BY <2>2 DEF GiveConditions, Etags
    <3>2. list \in Seq(Tags)
      BY BoundedSeqs
    <3> QED BY <3>1, <3>2 DEF HeaderInv
  <2>3. CASE GiveDates
    <3>1. {NoEtag, BareStar} \subseteq Etags
      BY DEF Etags, BareStar
    <3>2. PICK since \in {Unknown} \cup Seconds, modified \in {Unknown} \cup Seconds, etag \in {NoEtag, BareStar} :
            header' = [of |-> "dates", since |-> since, modified |-> modified, etag |-> etag]
      BY <2>3 DEF GiveDates
    <3>3. etag \in Etags
      BY <3>1
    <3> QED BY <3>2, <3>3 DEF HeaderInv
  <2>4. CASE GiveCodings
    <3>1. PICK entries \in SeqsUpTo(Entries, MaxMembers) : header' = [of |-> "codings", entries |-> entries]
      BY <2>4 DEF GiveCodings
    <3>2. entries \in Seq(Entries)
      BY BoundedSeqs
    <3> QED BY <3>1, <3>2 DEF HeaderInv
  <2>5. CASE GiveAccept
    <3>1. PICK items \in SeqsUpTo(Items, MaxMembers), offers \in SeqsUpTo(MediaTypes, 2) :
            header' = [of |-> "accept", items |-> items, offers |-> offers]
      BY <2>5 DEF GiveAccept
    <3>2. items \in Seq(Items) /\ offers \in Seq(MediaTypes)
      BY BoundedSeqs
    <3> QED BY <3>1, <3>2 DEF HeaderInv
  <2>6. CASE UNCHANGED negotiationVars
    BY <2>6 DEF negotiationVars, HeaderInv
  <2> QED BY <2>1, <2>2, <2>3, <2>4, <2>5, <2>6 DEF NegotiationNext
<1>3. HeaderInv => HeadersKeepTheirLaws
  BY HeaderLaws
<1> QED BY <1>1, <1>2, <1>3, PTL DEF NegotiationSpec

-----------------------------------------------------------------------------
(* The input of a route *)

OnceTaken(list, n, s) == IF list[n] \in ToSet(s) THEN s ELSE Append(s, list[n])
OnceScan(list, k, w) == [n \in 0..k |-> IF n = 0 THEN <<>> ELSE OnceTaken(list, n, w[n - 1])]

\* The scan of a content list is defined.
LEMMA OnceScanExists ==
  ASSUME NEW list, NEW k \in Nat
  PROVE  \E w : w = OnceScan(list, k, w)
<1> DEFINE Bad == {m \in Nat : ~\E w : w = OnceScan(list, m, w)}
<1> SUFFICES ASSUME Bad # {} PROVE FALSE
  OBVIOUS
<1>1. PICK m \in Bad : \A j \in Bad : m <= j
  BY LeastNatural
<1> DEFINE Step(n, s) == OnceTaken(list, n, s)
<1>2. CASE m = 0
  <2> DEFINE z == [n \in 0..0 |-> <<>>]
  <2>3. \A n \in 0..0 : n = 0
    OBVIOUS
  <2> HIDE DEF Step
  <2>4. z = [n \in 0..0 |-> IF n = 0 THEN <<>> ELSE Step(n, z[n - 1])]
    BY <2>3
  <2>1. z = OnceScan(list, 0, z)
    BY <2>4 DEF OnceScan, Step
  <2> QED BY <1>1, <1>2, <2>1
<1>3. CASE m # 0
  <2>1. m \in Nat /\ m - 1 \in Nat /\ m - 1 \notin Bad
    BY <1>1, <1>3
  <2>2. PICK f : f = OnceScan(list, m - 1, f)
    BY <2>1
  <2> DEFINE g == [n \in 0..m |-> IF n < m THEN f[n] ELSE Step(m, f[m - 1])]
  <2>3. \A n \in 0..(m - 1) : f[n] = IF n = 0 THEN <<>> ELSE Step(n, f[n - 1])
    <3>1. \A n \in 0..(m - 1) : OnceScan(list, m - 1, f)[n] = IF n = 0 THEN <<>> ELSE Step(n, f[n - 1])
      BY DEF OnceScan
    <3> QED BY <2>2, <3>1
  <2> HIDE DEF Step
  <2>4. ASSUME NEW n \in 0..m PROVE g[n] = IF n = 0 THEN <<>> ELSE Step(n, g[n - 1])
    <3>1. CASE n = m
      <4>1. m \in 0..m /\ m - 1 \in 0..m /\ m - 1 < m /\ ~(m < m)
        BY <2>1
      <4>2. g[m] = Step(m, f[m - 1]) /\ g[m - 1] = f[m - 1]
        BY <4>1
      <4> QED BY <1>3, <3>1, <4>2
    <3>2. CASE n # m /\ n # 0
      <4>1. n \in 0..(m - 1) /\ n < m /\ n - 1 \in 0..m /\ n - 1 < m
        BY <2>1, <3>2
      <4>2. g[n] = f[n] /\ g[n - 1] = f[n - 1]
        BY <4>1
      <4> QED BY <2>3, <3>2, <4>1, <4>2
    <3>3. CASE n # m /\ n = 0
      <4>1. 0 \in 0..(m - 1) /\ 0 < m
        BY <1>3, <2>1
      <4>2. g[0] = f[0]
        BY <3>3, <4>1
      <4> QED BY <2>3, <3>3, <4>1, <4>2
    <3> QED BY <3>1, <3>2, <3>3
  <2>5. g = [n \in 0..m |-> g[n]]
    OBVIOUS
  <2> HIDE DEF g
  <2>6. g = [n \in 0..m |-> IF n = 0 THEN <<>> ELSE Step(n, g[n - 1])]
    BY <2>4, <2>5
  <2>7. g = OnceScan(list, m, g)
    BY <2>6 DEF OnceScan, Step
  <2> QED BY <1>1, <2>7
<1> QED BY <1>2, <1>3

LEMMA OnceTyped ==
  ASSUME NEW list \in Seq(Names)
  PROVE  OnceEach(list) \in Seq(Names)
<1> DEFINE N == Len(list)
           w == CHOOSE f : f = OnceScan(list, N, f)
<1>1. N \in Nat
  OBVIOUS
<1>2. OnceEach(list) = w[N]
  BY DEF OnceEach, OnceScan, OnceTaken
<1>3. w = OnceScan(list, N, w)
  BY <1>1, OnceScanExists
<1> HIDE DEF w
<1>4. \A n \in 0..N : w[n] = IF n = 0 THEN <<>> ELSE OnceTaken(list, n, w[n - 1])
  <2>1. \A n \in 0..N : OnceScan(list, N, w)[n] = IF n = 0 THEN <<>> ELSE OnceTaken(list, n, w[n - 1])
    BY DEF OnceScan
  <2> QED BY <1>3, <2>1
<1>a. \A n \in 1..N : list[n] \in Names
  OBVIOUS
<1> HIDE DEF N
<1> DEFINE Bad == {n \in Nat : n <= N /\ w[n] \notin Seq(Names)}
<1>5. ASSUME Bad # {} PROVE FALSE
  <2>1. PICK m \in Bad : \A j \in Bad : m <= j
    BY <1>5, LeastNatural
  <2>2. m \in Nat /\ m <= N /\ w[m] \notin Seq(Names)
    BY <2>1
  <2>3. CASE m = 0
    <3>1. 0 \in 0..N
      BY <1>1
    <3>2. w[0] = <<>>
      BY <1>4, <3>1
    <3> QED BY <2>2, <2>3, <3>2
  <2>4. CASE m # 0
    <3>1. m - 1 \in Nat /\ m - 1 <= N /\ m - 1 \notin Bad /\ m \in 0..N /\ m \in 1..N
      <4> HIDE DEF Bad
      <4> QED BY <1>1, <2>1, <2>2, <2>4
    <3>2. w[m - 1] \in Seq(Names)
      BY <3>1
    <3>3. w[m] = OnceTaken(list, m, w[m - 1])
      BY <1>4, <2>4, <3>1
    <3> DEFINE s == w[m - 1]
               x == list[m]
    <3>4. w[m] = s \/ w[m] = Append(s, x)
      BY <3>3 DEF OnceTaken
    <3>5. x \in Names /\ s \in Seq(Names)
      BY <1>a, <3>1, <3>2
    <3> HIDE DEF s, x
    <3>6. Append(s, x) \in Seq(Names)
      BY <3>5
    <3> QED BY <2>2, <3>4, <3>5, <3>6
  <2> QED BY <2>3, <2>4
<1>6. N \in Nat /\ N <= N
  BY <1>1
<1> QED BY <1>2, <1>5, <1>6

LEMMA ContentsTyped ==
  ASSUME NEW d \in Declarations
  PROVE  ContentsOf(d) \in Seq(Names)
<1>1. d.content \in ContentLists \cup {<<"default">>}
  BY DEF Declarations
<1>2. DefaultContent \in Seq(Names)
  BY DEF DefaultContent, Names, Contents
<1>3. d.content # <<"default">> => OnceEach(d.content) \in Seq(Names)
  BY <1>1, ContentsAreNamed, OnceTyped
<1> QED BY <1>2, <1>3 DEF ContentsOf

\* What a declaration that was not refused compiled to.
CompiledBody(d) ==
  [ok |-> TRUE, rule |-> IF d.file THEN "file" ELSE "schema",
   contents |-> IF d.body = "none" THEN <<>> ELSE ContentsOf(d),
   parts |-> {"query", "headers"} \cup (IF d.params THEN {"params"} ELSE {})]

Rejected == [ok |-> FALSE, refused |-> TRUE]

\* An application that loads has a declaration load accepted, and every reply is
\* the one to some request.
Replied ==
  \E media \in MediaKinds, verdict \in Verdicts, body \in BodyKinds :
    reply = [media |-> media, verdict |-> verdict, body |-> body,
             code |-> Reply(media, verdict, body).code, failures |-> Reply(media, verdict, body).failures,
             valid |-> Reply(media, verdict, body).valid]
InputInv ==
  \/ input \in {NoInput, Rejected} /\ reply = NoReply
  \/ /\ decl \in Declarations /\ ~Refused(decl) /\ input = CompiledBody(decl)
     /\ reply = NoReply \/ Replied

LEMMA CompiledFields ==
  ASSUME decl \in Declarations, input = CompiledBody(decl)
  PROVE  /\ input.ok /\ input.rule = (IF decl.file THEN "file" ELSE "schema")
         /\ input.contents = (IF decl.body = "none" THEN <<>> ELSE ContentsOf(decl))
         /\ input.contents \in Seq(Names)
<1>1. /\ input.ok /\ input.rule = (IF decl.file THEN "file" ELSE "schema")
      /\ input.contents = (IF decl.body = "none" THEN <<>> ELSE ContentsOf(decl))
  BY DEF CompiledBody
<1>2. ContentsOf(decl) \in Seq(Names) /\ <<>> \in Seq(Names)
  BY ContentsTyped
<1> QED BY <1>1, <1>2

\* negotiate() answers one of the contents, the first that accepts.
LEMMA NegotiateFacts ==
  ASSUME NEW media, input.contents \in Seq(Names)
  PROVE  \/ /\ Negotiate(media) = "refused" /\ \A i \in DOMAIN input.contents : ~Accepts(input.contents[i], media)
         \/ \E i \in DOMAIN input.contents : Negotiate(media) = input.contents[i] /\ Accepts(input.contents[i], media)
<1> DEFINE fit == {i \in DOMAIN input.contents : Accepts(input.contents[i], media)}
           g == CHOOSE i \in fit : \A j \in fit : i <= j
<1>1. Negotiate(media) = IF fit = {} THEN "refused" ELSE input.contents[g]
  BY DEF Negotiate
<1>2. fit \in SUBSET Nat
  OBVIOUS
<1>3. fit # {} => g \in fit
  <2> HIDE DEF fit
  <2>1. fit # {} => \E i \in fit : \A j \in fit : i <= j
    BY <1>2, LeastNatural
  <2> QED BY <2>1
<1> HIDE DEF g
<1>4. CASE fit = {}
  BY <1>1, <1>4
<1>5. CASE fit # {}
  BY <1>1, <1>3, <1>5
<1> QED BY <1>4, <1>5

\* A content of a declaration that load accepted is served, but for a multipart
\* body without file rules and without a directory.
LEMMA AcceptedIsServed ==
  ASSUME decl \in Declarations, ~Refused(decl), input = CompiledBody(decl),
         NEW c \in ToSet(input.contents), NEW body, BodyPart(c, body) = "error", body \in BodyKinds
  PROVE  TextOnlyMultipart
<1> DEFINE cs == ContentsOf(decl)
<1>1. decl.body # "none" /\ input.contents = cs
  <2>1. input.contents = <<>> => ToSet(input.contents) = {}
    BY DEF ToSet
  <2> QED BY <2>1, CompiledFields
<1>2. ~BodyRefused(decl)
  BY <1>1 DEF Refused
<1>3. decl.schema \in {"none", "fields", "files"} /\ decl.file \in BOOLEAN /\ decl.root \in BOOLEAN
  BY DEF Declarations
<1>4. input.rule = (IF decl.file THEN "file" ELSE "schema")
  BY CompiledFields
<1>5. \/ c \in {"multipart", "raw"} /\ ~decl.root
      \/ input.rule = "schema" /\ c = "raw"
      \/ input.rule = "file" /\ c # "raw"
  <2> SUFFICES ASSUME ~(\/ c \in {"multipart", "raw"} /\ ~HasSpool(c)
                        \/ input.rule = "schema" /\ c = "raw"
                        \/ input.rule = "file" /\ c # "raw")
               PROVE FALSE
    BY DEF HasSpool
  <2>1. BodyPart(c, body) \in {"bad", "ok", body}
    BY DEF BodyPart
  <2> QED BY <2>1 DEF BodyKinds
<1>6. /\ ~(decl.schema = "none" /\ ~decl.file)
      /\ ~(decl.file /\ decl.schema = "none" /\ cs # <<"raw">>)
      /\ ~(decl.schema # "none" /\ decl.file)
      /\ ~(decl.schema # "none" /\ "raw" \in ToSet(cs))
      /\ ~(Uploading(cs) /\ HasFiles(decl) /\ ~decl.root)
  BY <1>2 DEF BodyRefused
<1>7. c \in ToSet(cs)
  BY <1>1
<1>8. ASSUME c = "raw" PROVE decl.file /\ HasFiles(decl)
  BY <1>3, <1>6, <1>7, <1>8 DEF HasFiles
<1>9. ASSUME decl.file PROVE c = "raw"
  <2>1. cs = <<"raw">>
    BY <1>3, <1>6, <1>9
  <2>2. ToSet(<<"raw">>) = {"raw"}
    BY DEF ToSet
  <2> QED BY <1>7, <2>1, <2>2
<1>10. c \in {"multipart", "raw"} /\ ~decl.root
  BY <1>3, <1>4, <1>5, <1>8, <1>9
<1>11. Uploading(cs)
  BY <1>7, <1>10 DEF Uploading
<1>12. ~HasFiles(decl)
  BY <1>3, <1>6, <1>10, <1>11
<1>13. c = "multipart"
  BY <1>8, <1>10, <1>12
<1> QED BY <1>1, <1>7, <1>10, <1>12, <1>13 DEF TextOnlyMultipart

LEMMA ReplyChecked ==
  ASSUME decl \in Declarations, ~Refused(decl), input = CompiledBody(decl), Replied
  PROVE  DeclaredInputIsServed
<1>1. PICK media \in MediaKinds, verdict \in Verdicts, body \in BodyKinds :
        reply = [media |-> media, verdict |-> verdict, body |-> body,
                 code |-> Reply(media, verdict, body).code, failures |-> Reply(media, verdict, body).failures,
                 valid |-> Reply(media, verdict, body).valid]
  BY DEF Replied
<1> DEFINE a == Reply(media, verdict, body)
           cs == input.contents
           bad == {p \in input.parts : verdict[p] = "bad"}
           content == IF cs = <<>> THEN "nobody" ELSE Negotiate(media)
           b == IF content = "nobody" THEN "ok" ELSE BodyPart(content, body)
           failures == bad \cup (IF b = "bad" THEN {"body"} ELSE {})
<1>2. /\ reply.media = media /\ reply.verdict = verdict /\ reply.body = body
      /\ reply.code = a.code /\ reply.failures = a.failures /\ reply.valid = a.valid
  BY <1>1
<1>3. cs \in Seq(Names)
  BY CompiledFields
<1>4. a = IF content = "refused" THEN [code |-> 415, failures |-> {}, valid |-> FALSE]
          ELSE IF b = "error" THEN [code |-> 500, failures |-> {}, valid |-> FALSE]
          ELSE IF failures # {} THEN [code |-> 422, failures |-> failures, valid |-> FALSE]
          ELSE [code |-> 200, failures |-> {}, valid |-> TRUE]
  BY DEF Reply, Validated
<1>5. ASSUME cs # <<>>
      PROVE  \/ content = "refused" /\ \A i \in DOMAIN cs : ~Accepts(cs[i], media)
             \/ /\ content \in ToSet(cs) /\ content \notin {"nobody", "refused"}
                /\ \E i \in DOMAIN cs : Accepts(cs[i], media)
  <2>1. content = Negotiate(media)
    BY <1>5
  <2>2. CASE Negotiate(media) = "refused" /\ \A i \in DOMAIN cs : ~Accepts(cs[i], media)
    BY <2>1, <2>2
  <2>3. CASE \E i \in DOMAIN cs : Negotiate(media) = cs[i] /\ Accepts(cs[i], media)
    <3>1. PICK i \in DOMAIN cs : Negotiate(media) = cs[i] /\ Accepts(cs[i], media)
      BY <2>3
    <3>2. cs[i] \in ToSet(cs) /\ cs[i] \in Names
      BY <1>3 DEF ToSet
    <3> HIDE DEF cs, content
    <3> QED BY <2>1, <3>1, <3>2 DEF Names, Contents
  <2> QED BY <1>3, <2>2, <2>3, NegotiateFacts
<1>6. cs = <<>> => content = "nobody" /\ DOMAIN cs = {}
  OBVIOUS
<1>7. b = "error" /\ content # "refused" => TextOnlyMultipart
  <2> SUFFICES ASSUME b = "error", content # "refused" PROVE TextOnlyMultipart
    OBVIOUS
  <2>1. cs # <<>>
    BY <1>6
  <2>2. content \in ToSet(cs) /\ content # "nobody"
    BY <1>5, <2>1
  <2>3. BodyPart(content, body) = "error"
    BY <2>2
  <2> HIDE DEF content
  <2> QED BY <2>2, <2>3, AcceptedIsServed
<1>8. ASSUME content # "refused", cs # <<>>, body = "bad" PROVE b \in {"bad", "error"}
  <2>1. content # "nobody"
    BY <1>5, <1>8
  <2>2. BodyPart(content, body) \in {"error", "bad"}
    BY <1>8 DEF BodyPart
  <2> QED BY <2>1, <2>2
<1>9. \/ content = "refused" /\ a = [code |-> 415, failures |-> {}, valid |-> FALSE]
      \/ content # "refused" /\ b = "error" /\ a = [code |-> 500, failures |-> {}, valid |-> FALSE]
      \/ content # "refused" /\ b # "error" /\ failures # {} /\ a = [code |-> 422, failures |-> failures, valid |-> FALSE]
      \/ content # "refused" /\ b # "error" /\ failures = {} /\ a = [code |-> 200, failures |-> {}, valid |-> TRUE]
  <2> HIDE DEF a, content, b, failures
  <2> QED BY <1>4
<1>10. a.code = 500 => TextOnlyMultipart
  <2> HIDE DEF a, content, b, failures
  <2> QED BY <1>7, <1>9
<1>11. a.code = 415 <=> content = "refused"
  <2> HIDE DEF a, content, b, failures
  <2> QED BY <1>9
<1>12. content = "refused" <=> cs # <<>> /\ ~\E i \in DOMAIN cs : Accepts(cs[i], media)
  <2> HIDE DEF content, cs
  <2> QED BY <1>5, <1>6
<1>13. bad \subseteq failures
  OBVIOUS
<1>14. a.code = 422 => bad \subseteq a.failures
  <2> HIDE DEF a, content, b, failures, bad
  <2> QED BY <1>9, <1>13
<1>15. a.valid => content # "refused" /\ b # "error" /\ failures = {}
  <2> HIDE DEF a, content, b, failures, bad
  <2> QED BY <1>9
<1>16. failures = {} => bad = {} /\ b # "bad"
  <2> HIDE DEF bad, b
  <2> QED OBVIOUS
<1>17. a.valid => bad = {} /\ (cs # <<>> => body # "bad")
  <2> HIDE DEF a, content, b, failures, bad, cs
  <2> QED BY <1>8, <1>15, <1>16
<1>18. /\ a.code = 500 => TextOnlyMultipart
       /\ a.code = 415 <=> cs # <<>> /\ ~\E i \in DOMAIN cs : Accepts(cs[i], media)
       /\ a.code = 422 => bad \subseteq a.failures
       /\ a.valid => bad = {} /\ (cs # <<>> => body # "bad")
  <2> HIDE DEF a, content, b, failures, bad, cs
  <2> QED BY <1>10, <1>11, <1>12, <1>14, <1>17
<1> HIDE DEF a
<1> QED BY <1>2, <1>18 DEF DeclaredInputIsServed

\* Whatever an application declares and whatever is sent to it: a declaration
\* that loads fails no request but in the one case named, a body of another type
\* is a 415 and nothing else is, and a handler sees req.valid only for an input
\* of which every part passed (compile_body, negotiate, body_part, validate).
THEOREM InputServed == InputSpec => []DeclaredInputIsServed
<1>1. InputInit => InputInv
  BY DEF InputInit, InputInv
<1>2. InputInv /\ [InputNext]_inputVars => InputInv'
  <2> SUFFICES ASSUME InputInv, [InputNext]_inputVars PROVE InputInv'
    OBVIOUS
  <2>1. CASE Load
    <3>1. PICK d \in Declarations : /\ decl' = d
                                    /\ input' = IF Refused(d) THEN Rejected ELSE CompiledBody(d)
      BY <2>1 DEF Load, Rejected, CompiledBody
    <3>2. input = NoInput /\ reply' = reply
      BY <2>1 DEF Load
    <3>3. reply = NoReply
      <4>1. ~NoInput.ok /\ CompiledBody(decl).ok
        BY DEF NoInput, CompiledBody
      <4> QED BY <3>2, <4>1 DEF InputInv
    <3>4. CASE Refused(d)
      BY <3>1, <3>2, <3>3, <3>4 DEF InputInv
    <3>5. CASE ~Refused(d)
      <4>1. input' = CompiledBody(decl') /\ decl' \in Declarations /\ ~Refused(decl') /\ reply' = NoReply
        BY <3>1, <3>2, <3>3, <3>5
      <4>2. CompiledBody(decl)' = CompiledBody(decl') /\ Refused(decl)' = Refused(decl')
        BY DEF CompiledBody, Refused, BodyRefused, ContentsOf, OnceEach, HasFiles, Uploading
      <4> QED BY <4>1, <4>2 DEF InputInv
    <3> QED BY <3>4, <3>5
  <2>2. CASE Ask
    <3>1. input.ok /\ decl' = decl /\ input' = input
      BY <2>2 DEF Ask
    <3>2. decl \in Declarations /\ ~Refused(decl) /\ input = CompiledBody(decl)
      <4>1. ~NoInput.ok /\ ~Rejected.ok
        BY DEF NoInput, Rejected
      <4> QED BY <3>1, <4>1 DEF InputInv
    <3>3. PICK media \in MediaKinds, verdict \in Verdicts, body \in BodyKinds :
            reply' = [media |-> media, verdict |-> verdict, body |-> body,
                      code |-> Reply(media, verdict, body).code, failures |-> Reply(media, verdict, body).failures,
                      valid |-> Reply(media, verdict, body).valid]
      BY <2>2 DEF Ask
    <3>4. Reply(media, verdict, body)' = Reply(media, verdict, body)
      BY <3>1 DEF Reply, Validated, Negotiate, BodyPart, HasSpool
    <3>5. Replied'
      BY <3>3, <3>4 DEF Replied
    <3> QED BY <3>1, <3>2, <3>5 DEF InputInv
  <2>3. CASE UNCHANGED inputVars
    <3>1. decl' = decl /\ input' = input /\ reply' = reply
      BY <2>3 DEF inputVars
    <3>2. Replied <=> Replied'
      BY <3>1 DEF Replied, Reply, Validated, Negotiate, BodyPart, HasSpool
    <3> QED BY <3>1, <3>2 DEF InputInv
  <2> QED BY <2>1, <2>2, <2>3 DEF InputNext
<1>3. InputInv => DeclaredInputIsServed
  <2>1. reply = NoReply => DeclaredInputIsServed
    BY DEF DeclaredInputIsServed
  <2> QED BY <2>1, ReplyChecked DEF InputInv
<1> QED BY <1>1, <1>2, <1>3, PTL DEF InputSpec


-----------------------------------------------------------------------------
(* Paths and the file system *)

\* Counting up to a number.
LEMMA CountUp ==
  ASSUME NEW T, NEW k \in Nat, 0 \in T, \A n \in 1..k : n - 1 \in T => n \in T
  PROVE  \A n \in 0..k : n \in T
<1> DEFINE Bad == {n \in Nat : n <= k /\ n \notin T}
<1>1. ASSUME Bad # {} PROVE FALSE
  <2>1. PICK m \in Bad : \A j \in Bad : m <= j
    BY <1>1, LeastNatural
  <2>2. m \in Nat /\ m <= k /\ m \notin T /\ m # 0
    BY <2>1
  <2>3. m - 1 \in Nat /\ m - 1 <= k /\ m \in 1..k /\ ~(m <= m - 1)
    BY <2>2
  <2>4. m - 1 \in T
    BY <2>1, <2>3
  <2> QED BY <2>2, <2>3, <2>4
<1> QED BY <1>1

\* A scan of k steps is defined.
Scan(w, D, base, k, F) ==
  w \in [0..k -> D] /\ w[0] = base /\ \A n \in 1..k : w[n] = F[<<n, w[n - 1]>>]
LEMMA ScanExists ==
  ASSUME NEW D, NEW base \in D, NEW k \in Nat, NEW F \in [(1..k) \X D -> D]
  PROVE  \E w : Scan(w, D, base, k, F)
<1> DEFINE Runs(m, w) == w[0] = base /\ \A n \in 1..m : w[n] = F[<<n, w[n - 1]>>]
           T == {m \in Nat : m <= k => \E w \in [0..m -> D] : Runs(m, w)}
<1>1. 0 \in T
  <2> DEFINE z == [n \in 0..0 |-> base]
  <2>1. z \in [0..0 -> D] /\ z[0] = base
    OBVIOUS
  <2> HIDE DEF z
  <2>2. Runs(0, z)
    BY <2>1
  <2> QED BY <2>1, <2>2
<1>2. ASSUME NEW m \in 1..k, m - 1 \in T PROVE m \in T
  <2>1. m \in Nat /\ m - 1 \in Nat /\ m - 1 <= k
    OBVIOUS
  <2>2. PICK f \in [0..(m - 1) -> D] : Runs(m - 1, f)
    BY <1>2, <2>1
  <2> DEFINE last == F[<<m, f[m - 1]>>]
             g == [n \in 0..m |-> IF n < m THEN f[n] ELSE last]
  <2>3. m - 1 \in 0..(m - 1)
    BY <2>1
  <2>4. f[m - 1] \in D
    BY <2>3
  <2>5. last \in D
    BY <2>4
  <2> HIDE DEF last
  <2>6. g \in [0..m -> D]
    <3>1. \A n \in 0..m : n < m => n \in 0..(m - 1)
      BY <2>1
    <3> QED BY <2>5, <3>1
  <2>7. g[0] = base
    BY <2>1, <2>2
  <2>8. ASSUME NEW n \in 1..m PROVE g[n] = F[<<n, g[n - 1]>>]
    <3>1. n - 1 \in 0..m /\ n - 1 < m /\ n \in 0..m
      BY <2>1
    <3>2. g[n - 1] = f[n - 1]
      BY <3>1
    <3>3. CASE n = m
      <4>1. g[n] = last
        BY <3>1, <3>3
      <4> QED BY <3>2, <3>3, <4>1 DEF last
    <3>4. CASE n # m
      <4>1. n < m /\ n \in 1..(m - 1)
        BY <2>1, <3>4
      <4>2. g[n] = f[n]
        BY <3>1, <4>1
      <4> QED BY <2>2, <3>2, <4>1, <4>2
    <3> QED BY <3>3, <3>4
  <2> HIDE DEF g
  <2>9. Runs(m, g)
    BY <2>7, <2>8
  <2> QED BY <2>1, <2>6, <2>9
<1> HIDE DEF T
<1>3. k \in 0..k
  OBVIOUS
<1>4. k \in T
  BY <1>1, <1>2, <1>3, CountUp
<1>5. k <= k
  OBVIOUS
<1> QED BY <1>4, <1>5 DEF T, Scan

\* What is there, and nothing.
Places == Dirs \cup Files \cup {Nowhere}

Parts == UNION {ToSet(p) : p \in Places}

LEMMA PlaceTypes ==
  /\ Places \subseteq Seq(Parts) /\ Dirs \subseteq Places /\ Root \in Dirs
  /\ \A p \in Places : Len(p) \in Nat /\ DOMAIN p = 1..Len(p)
<1>1. Nowhere \in Seq(ToSet(Nowhere))
  <2>1. Nowhere \in Seq({"?"}) /\ ToSet(Nowhere) = {"?"}
    BY DEF Nowhere, ToSet
  <2> QED BY <2>1
<1>2. \A p \in Places : p \in Seq(ToSet(p))
  BY <1>1, PathsConstants DEF Places
<1>3. \A p \in Places : ToSet(p) \subseteq Parts
  BY DEF Parts
<1>4. Places \subseteq Seq(Parts)
  BY <1>2, <1>3, SeqMonotonic
<1>5. Dirs \subseteq Places /\ Root \in Dirs
  BY PathsConstants DEF Places
<1> QED BY <1>4, <1>5

\* A directory and all above it.
LEMMA PrefixesAreDirs ==
  ASSUME NEW d \in Dirs
  PROVE  \A n \in 0..Len(d) : SubSeq(d, 1, n) \in Dirs
<1> DEFINE k == Len(d)
           T == {j \in Nat : j <= k => SubSeq(d, 1, k - j) \in Dirs}
<1>1. d \in Seq(Parts) /\ k \in Nat
  BY PlaceTypes
<1>2. 0 \in T
  <2>1. SubSeq(d, 1, k) = d /\ k - 0 = k
    BY <1>1
  <2> HIDE DEF k
  <2> QED BY <1>1, <2>1
<1>3. ASSUME NEW j \in 1..k, j - 1 \in T PROVE j \in T
  <2> DEFINE m == k - (j - 1)
             s == SubSeq(d, 1, m)
  <2>1. j \in Nat /\ m \in 1..k /\ j - 1 <= k /\ k - j = m - 1
    BY <1>1
  <2>2. s \in Dirs
    BY <1>3, <2>1
  <2> HIDE DEF m
  <2>3. Len(s) = m /\ s # <<>> /\ Front(s) = SubSeq(d, 1, m - 1)
    <3>1. s \in Seq(Parts) /\ Len(s) = m
      BY <1>1, <2>1
    <3>2. SubSeq(s, 1, m - 1) = SubSeq(d, 1, m - 1)
      BY <1>1, <2>1
    <3> QED BY <2>1, <3>1, <3>2 DEF Front
  <2> HIDE DEF s
  <2>4. Front(s) \in Dirs
    BY <2>2, <2>3, PathsConstants
  <2>5. SubSeq(d, 1, k - j) \in Dirs
    BY <2>1, <2>3, <2>4
  <2> QED BY <2>1, <2>5
<1> HIDE DEF T
<1>4. \A j \in 0..k : j \in T
  BY <1>1, <1>2, <1>3, CountUp
<1>5. ASSUME NEW n \in 0..k PROVE SubSeq(d, 1, n) \in Dirs
  <2>1. k - n \in 0..k /\ k - (k - n) = n /\ k - n <= k
    BY <1>1
  <2> QED BY <1>4, <2>1 DEF T
<1> QED BY <1>5

\* The kernel's walk along a path.
Walks(path, w) ==
  /\ w[0] = <<>>
  /\ \A n \in 0..Len(path) : w[n] \in Places
  /\ \A n \in 1..Len(path) : w[n] = StepInto(w[n - 1], path[n])

LEMMA WalkOf ==
  ASSUME NEW path, Len(path) \in Nat
  PROVE  Walks(path, KernelWalk(path)) /\ Canonical(path) = KernelWalk(path)[Len(path)]
<1> DEFINE k == Len(path)
           F == [x \in (1..k) \X Places |-> StepInto(x[2], path[x[1]])]
           Trail(w) == [n \in 0..k |-> IF n = 0 THEN <<>> ELSE StepInto(w[n - 1], path[n])]
           c == CHOOSE w : w = Trail(w)
<1>1. <<>> \in Places
  <2>1. SubSeq(Root, 1, 0) = <<>> /\ 0 \in 0..Len(Root)
    BY PlaceTypes
  <2> QED BY <2>1, PlaceTypes, PrefixesAreDirs
<1>2. \A p, q : StepInto(p, q) \in Places
  <2> SUFFICES ASSUME NEW p, NEW q PROVE StepInto(p, q) \in Places
    OBVIOUS
  <2> QED BY PathsConstants DEF StepInto, Places
<1>3. F \in [(1..k) \X Places -> Places]
  BY <1>2
<1>4. PICK v : Scan(v, Places, <<>>, k, F)
  <2>1. k \in Nat
    OBVIOUS
  <2> HIDE DEF F, k
  <2> QED BY <1>1, <1>3, <2>1, ScanExists
<1>5. v \in [0..k -> Places] /\ v[0] = <<>> /\ \A n \in 1..k : v[n] = F[<<n, v[n - 1]>>]
  BY <1>4 DEF Scan
<1>6. \A n \in 1..k : v[n] = StepInto(v[n - 1], path[n])
  <2> SUFFICES ASSUME NEW n \in 1..k PROVE v[n] = StepInto(v[n - 1], path[n])
    OBVIOUS
  <2>1. n - 1 \in 0..k
    OBVIOUS
  <2>2. <<n, v[n - 1]>> \in (1..k) \X Places
    BY <1>5, <2>1
  <2>3. F[<<n, v[n - 1]>>] = StepInto(v[n - 1], path[n])
    BY <2>2
  <2> QED BY <1>5, <2>3
<1>7. v = Trail(v)
  <2>1. \A n \in 0..k : v[n] = IF n = 0 THEN <<>> ELSE StepInto(v[n - 1], path[n])
    BY <1>5, <1>6
  <2>2. v = [n \in 0..k |-> v[n]]
    BY <1>5
  <2> QED BY <2>1, <2>2
<1> HIDE DEF F
<1>8. c = Trail(c)
  <2> HIDE DEF Trail
  <2> QED BY <1>7
<1>9. KernelWalk(path) = c
  BY DEF KernelWalk
<1> HIDE DEF c
<1>10. \A n \in 0..k : c[n] = IF n = 0 THEN <<>> ELSE StepInto(c[n - 1], path[n])
  <2>1. \A n \in 0..k : Trail(c)[n] = IF n = 0 THEN <<>> ELSE StepInto(c[n - 1], path[n])
    OBVIOUS
  <2> HIDE DEF Trail
  <2> QED BY <1>8, <2>1
<1>11. c[0] = <<>> /\ \A n \in 1..k : c[n] = StepInto(c[n - 1], path[n])
  BY <1>10
<1>12. \A n \in 0..k : c[n] \in Places
  BY <1>1, <1>2, <1>10
<1> HIDE DEF Trail
<1>13. Walks(path, c)
  BY <1>11, <1>12 DEF Walks
<1> QED BY <1>9, <1>13 DEF Canonical

\* A walk along a directory's own path comes to it.
LEMMA WalkAlong ==
  ASSUME NEW path, NEW d \in Dirs, NEW w, Walks(path, w), Len(path) \in Nat, Len(d) <= Len(path),
         \A i \in 1..Len(d) : path[i] = d[i]
  PROVE  \A n \in 0..Len(d) : w[n] = SubSeq(d, 1, n)
<1> DEFINE T == {n \in Nat : w[n] = SubSeq(d, 1, n)}
<1>1. d \in Seq(Parts) /\ Len(d) \in Nat
  BY PlaceTypes
<1>2. 0 \in T
  <2>1. SubSeq(d, 1, 0) = <<>>
    BY <1>1
  <2> QED BY <2>1 DEF Walks
<1>3. ASSUME NEW n \in 1..Len(d), n - 1 \in T PROVE n \in T
  <2>1. n \in 1..Len(path) /\ n - 1 \in 0..Len(d) /\ n \in 0..Len(d) /\ n \in Nat
    BY <1>1
  <2>2. w[n] = StepInto(SubSeq(d, 1, n - 1), d[n])
    BY <1>3, <2>1 DEF Walks
  <2>3. Append(SubSeq(d, 1, n - 1), d[n]) = SubSeq(d, 1, n)
    BY <1>1
  <2>4. SubSeq(d, 1, n - 1) \in Dirs /\ SubSeq(d, 1, n) \in Dirs
    BY <2>1, PrefixesAreDirs
  <2>5. SubSeq(d, 1, n) \notin DOMAIN Links
    BY <2>4, PathsConstants
  <2>6. StepInto(SubSeq(d, 1, n - 1), d[n]) = SubSeq(d, 1, n)
    BY <2>3, <2>4, <2>5 DEF StepInto
  <2> QED BY <2>1, <2>2, <2>6
<1> HIDE DEF T
<1>4. \A n \in 0..Len(d) : n \in T
  BY <1>1, <1>2, <1>3, CountUp
<1> QED BY <1>4 DEF T

\* A directory is where its path says.
LEMMA DirIsCanonical ==
  ASSUME NEW d \in Dirs
  PROVE  Canonical(d) = d
<1>1. d \in Seq(Parts) /\ Len(d) \in Nat /\ Len(d) <= Len(d) /\ Len(d) \in 0..Len(d) /\ SubSeq(d, 1, Len(d)) = d
  BY PlaceTypes
<1>2. Walks(d, KernelWalk(d)) /\ Canonical(d) = KernelWalk(d)[Len(d)]
  BY <1>1, WalkOf
<1>3. KernelWalk(d)[Len(d)] = SubSeq(d, 1, Len(d))
  BY <1>1, <1>2, WalkAlong
<1> QED BY <1>1, <1>2, <1>3

\* The components that safe_join() keeps, one after another.
KeptWith(s, x) == IF x \in {NoName, "."} THEN s ELSE Append(s, x)
Keeps(parts, w) ==
  /\ w[0] = <<>>
  /\ \A n \in 0..Len(parts) : w[n] \in Seq(Segments)
  /\ \A n \in 1..Len(parts) : w[n] = KeptWith(w[n - 1], parts[n])

LEMMA KeptOf ==
  ASSUME NEW parts \in Seq(Segments)
  PROVE  \E w : Keeps(parts, w) /\ Kept(parts) = w[Len(parts)]
<1> DEFINE k == Len(parts)
           S == Seq(Segments)
           F == [x \in (1..k) \X S |-> KeptWith(x[2], parts[x[1]])]
           Trail(w) == [n \in 0..k |-> IF n = 0 THEN <<>> ELSE KeptWith(w[n - 1], parts[n])]
           c == CHOOSE w : w = Trail(w)
<1>1. <<>> \in S /\ k \in Nat /\ \A n \in 1..k : parts[n] \in Segments
  OBVIOUS
<1>2. \A s \in S, x \in Segments : KeptWith(s, x) \in S
  BY DEF KeptWith
<1>3. F \in [(1..k) \X S -> S]
  <2> HIDE DEF k, S
  <2> QED BY <1>1, <1>2
<1>4. PICK v : Scan(v, S, <<>>, k, F)
  <2> HIDE DEF F, k, S
  <2> QED BY <1>1, <1>3, ScanExists
<1>5. v \in [0..k -> S] /\ v[0] = <<>> /\ \A n \in 1..k : v[n] = F[<<n, v[n - 1]>>]
  BY <1>4 DEF Scan
<1>a. \A n \in 1..k : n - 1 \in 0..k
  BY <1>1
<1>6. \A n \in 1..k : v[n] = KeptWith(v[n - 1], parts[n])
  <2> SUFFICES ASSUME NEW n \in 1..k PROVE v[n] = KeptWith(v[n - 1], parts[n])
    OBVIOUS
  <2>2. <<n, v[n - 1]>> \in (1..k) \X S
    BY <1>5, <1>a
  <2>3. F[<<n, v[n - 1]>>] = KeptWith(v[n - 1], parts[n])
    BY <2>2
  <2> QED BY <1>5, <2>3
<1>7. v = Trail(v)
  <2>1. \A n \in 0..k : v[n] = IF n = 0 THEN <<>> ELSE KeptWith(v[n - 1], parts[n])
    BY <1>1, <1>5, <1>6
  <2>2. v = [n \in 0..k |-> v[n]]
    BY <1>5
  <2> QED BY <2>1, <2>2
<1> HIDE DEF F
<1>8. c = Trail(c)
  <2> HIDE DEF Trail
  <2> QED BY <1>7
<1>9. Kept(parts) = c[k]
  BY DEF Kept, KeptWith
<1> HIDE DEF c
<1>10. \A n \in 0..k : c[n] = IF n = 0 THEN <<>> ELSE KeptWith(c[n - 1], parts[n])
  <2>1. \A n \in 0..k : Trail(c)[n] = IF n = 0 THEN <<>> ELSE KeptWith(c[n - 1], parts[n])
    OBVIOUS
  <2> HIDE DEF Trail
  <2> QED BY <1>8, <2>1
<1> HIDE DEF Trail
<1>11. c[0] = <<>> /\ \A n \in 1..k : c[n] = KeptWith(c[n - 1], parts[n])
  <2>1. 0 \in 0..k /\ \A n \in 1..k : n \in 0..k /\ n # 0
    BY <1>1
  <2> HIDE DEF k
  <2> QED BY <1>10, <2>1
<1>12. \A n \in 0..k : c[n] \in S
  <2> DEFINE T == {n \in Nat : c[n] \in S}
  <2>1. 0 \in T
    BY <1>1, <1>11
  <2>2. \A n \in 1..k : n - 1 \in T => n \in T
    <3> HIDE DEF k, S
    <3> QED BY <1>1, <1>2, <1>11
  <2> HIDE DEF T
  <2>3. \A n \in 0..k : n \in T
    BY <1>1, <2>1, <2>2, CountUp
  <2> QED BY <2>3 DEF T
<1>13. Keeps(parts, c)
  BY <1>11, <1>12 DEF Keeps
<1> QED BY <1>9, <1>13

\* What is kept was there.
LEMMA KeptWasGiven ==
  ASSUME NEW parts \in Seq(Segments), NEW x, x \notin ToSet(parts)
  PROVE  Kept(parts) \in Seq(Segments) /\ \A i \in DOMAIN Kept(parts) : Kept(parts)[i] # x
<1> DEFINE k == Len(parts)
<1>1. PICK w : Keeps(parts, w) /\ Kept(parts) = w[k]
  BY KeptOf
<1>2. k \in Nat /\ k \in 0..k /\ \A n \in 1..k : parts[n] # x /\ parts[n] \in Segments /\ n - 1 \in 0..k
  BY DEF ToSet
<1>3. /\ \A n \in 0..k : w[n] \in Seq(Segments)
      /\ w[0] = <<>> /\ \A n \in 1..k : w[n] = KeptWith(w[n - 1], parts[n])
  BY <1>1 DEF Keeps
<1> HIDE DEF k
<1> DEFINE Free(s) == \A i \in DOMAIN s : s[i] # x
           T == {n \in Nat : Free(w[n])}
<1>4. 0 \in T
  BY <1>3
<1>5. ASSUME NEW n \in 1..k, n - 1 \in T PROVE n \in T
  <2> DEFINE s == w[n - 1]
             y == parts[n]
  <2>1. s \in Seq(Segments) /\ Free(s) /\ y # x /\ y \in Segments /\ w[n] = KeptWith(s, y) /\ n \in Nat
    BY <1>2, <1>3, <1>5
  <2> HIDE DEF s, y
  <2>2. Free(KeptWith(s, y))
    BY <2>1 DEF KeptWith
  <2> QED BY <2>1, <2>2
<1> HIDE DEF T
<1>6. k \in T
  BY <1>2, <1>4, <1>5, CountUp
<1> QED BY <1>1, <1>2, <1>3, <1>6 DEF T

\* Leading empty components make no difference.
LEMMA KeptWithoutLeading ==
  ASSUME NEW parts \in Seq(Segments), NEW f \in 1..(Len(parts) + 1), \A i \in 1..(f - 1) : parts[i] = NoName,
         NEW t, t = SubSeq(parts, f, Len(parts))
  PROVE  /\ t \in Seq(Segments) /\ Kept(t) = Kept(parts)
         /\ \A x : x # NoName => (x \in ToSet(t) <=> x \in ToSet(parts))
<1> DEFINE k == Len(parts)
           m == Len(t)
<1>1. /\ t \in Seq(Segments) /\ k \in Nat /\ f \in Nat /\ m = k - (f - 1) /\ m \in Nat
      /\ \A j \in 1..m : t[j] = parts[j + (f - 1)]
  OBVIOUS
<1>2. PICK v : Keeps(t, v) /\ Kept(t) = v[m]
  BY <1>1, KeptOf
<1>3. PICK w : Keeps(parts, w) /\ Kept(parts) = w[k]
  BY KeptOf
<1>4. /\ v[0] = <<>> /\ \A n \in 1..m : v[n] = KeptWith(v[n - 1], t[n])
      /\ w[0] = <<>> /\ \A n \in 1..k : w[n] = KeptWith(w[n - 1], parts[n])
  BY <1>2, <1>3 DEF Keeps
<1>5. w[f - 1] = <<>>
  <2> DEFINE T == {n \in Nat : w[n] = <<>>}
  <2>1. 0 \in T
    BY <1>4
  <2>2. ASSUME NEW n \in 1..(f - 1), n - 1 \in T PROVE n \in T
    <3>1. n \in 1..k /\ n \in Nat /\ parts[n] = NoName
      BY <1>1
    <3>2. w[n] = KeptWith(w[n - 1], NoName)
      BY <1>4, <3>1
    <3> QED BY <2>2, <3>1, <3>2 DEF KeptWith
  <2> HIDE DEF T
  <2>3. f - 1 \in Nat /\ f - 1 \in 0..(f - 1)
    BY <1>1
  <2>4. f - 1 \in T
    BY <2>1, <2>2, <2>3, CountUp
  <2> QED BY <2>4 DEF T
<1>6. v[m] = w[m + (f - 1)]
  <2> DEFINE T == {n \in Nat : v[n] = w[n + (f - 1)]}
  <2>1. 0 \in T
    <3>1. 0 + (f - 1) = f - 1
      BY <1>1
    <3> QED BY <1>4, <1>5, <3>1
  <2>2. ASSUME NEW n \in 1..m, n - 1 \in T PROVE n \in T
    <3> DEFINE a == n + (f - 1)
    <3>1. n \in Nat /\ a \in 1..k /\ (n - 1) + (f - 1) = a - 1 /\ t[n] = parts[a]
      BY <1>1
    <3> HIDE DEF a, m, k
    <3>2. v[n - 1] = w[a - 1]
      BY <2>2, <3>1
    <3>3. v[n] = w[a]
      BY <1>4, <3>1, <3>2
    <3> QED BY <3>1, <3>3 DEF a
  <2> HIDE DEF T
  <2>3. m \in 0..m
    BY <1>1
  <2>4. m \in T
    BY <1>1, <2>1, <2>2, <2>3, CountUp
  <2> QED BY <2>4 DEF T
<1>7. m + (f - 1) = k
  BY <1>1
<1>8. Kept(t) = Kept(parts)
  BY <1>2, <1>3, <1>6, <1>7
<1>9. ASSUME NEW x, x # NoName PROVE x \in ToSet(t) <=> x \in ToSet(parts)
  <2>1. x \in ToSet(t) => x \in ToSet(parts)
    <3>1. \A j \in 1..m : j + (f - 1) \in 1..k
      BY <1>1
    <3>2. DOMAIN t = 1..m /\ DOMAIN parts = 1..k
      BY <1>1
    <3> HIDE DEF m, k
    <3> QED BY <1>1, <3>1, <3>2 DEF ToSet
  <2>2. ASSUME NEW i \in 1..k, parts[i] = x PROVE x \in ToSet(t)
    <3>1. i \notin 1..(f - 1)
      BY <1>9, <2>2
    <3>2. i - (f - 1) \in 1..m /\ (i - (f - 1)) + (f - 1) = i
      BY <1>1, <3>1
    <3>3. t[i - (f - 1)] = x
      BY <1>1, <2>2, <3>2
    <3>4. DOMAIN t = 1..m
      BY <1>1
    <3> HIDE DEF m, k
    <3> QED BY <3>2, <3>3, <3>4 DEF ToSet
  <2>3. x \in ToSet(parts) => \E i \in 1..k : parts[i] = x
    BY DEF ToSet
  <2> QED BY <2>1, <2>2, <2>3
<1> QED BY <1>1, <1>8, <1>9

LEMMA TrimKeeps ==
  ASSUME NEW parts \in Seq(Segments), NEW t, t = TrimSegments(parts)
  PROVE  /\ t \in Seq(Segments) /\ Kept(t) = Kept(parts)
         /\ \A x : x # NoName => (x \in ToSet(t) <=> x \in ToSet(parts))
<1> DEFINE I == {i \in 1..Len(parts) : parts[i] # NoName}
<1>1. SelectInSeq(parts, LAMBDA p : p # NoName) = IF I # {} THEN Min(I) ELSE 0
  BY DEF SelectInSeq
<1>2. CASE I = {}
  <2> DEFINE f == Len(parts) + 1
  <2>1. t = <<>>
    BY <1>1, <1>2 DEF TrimSegments
  <2>2. f \in 1..(Len(parts) + 1) /\ SubSeq(parts, f, Len(parts)) = <<>> /\ f - 1 = Len(parts)
    OBVIOUS
  <2>3. \A i \in 1..(f - 1) : parts[i] = NoName
    BY <1>2
  <2> HIDE DEF f
  <2>4. t = SubSeq(parts, f, Len(parts))
    BY <2>1, <2>2
  <2> QED BY <2>2, <2>3, <2>4, KeptWithoutLeading
<1>3. CASE I # {}
  <2> DEFINE f == Min(I)
  <2>1. PICK least \in I : \A i \in I : least <= i
    <3>1. I \in SUBSET Nat
      OBVIOUS
    <3> HIDE DEF I
    <3> QED BY <1>3, <3>1, LeastNatural
  <2>2. f \in I /\ \A i \in I : f <= i
    BY <2>1 DEF Min
  <2>3. f # 0 /\ f \in Nat
    BY <2>2
  <2>4. t = SubSeq(parts, f, Len(parts))
    BY <1>1, <1>3, <2>3 DEF TrimSegments
  <2> HIDE DEF f
  <2>5. f \in 1..(Len(parts) + 1) /\ \A i \in 1..(f - 1) : parts[i] = NoName
    BY <2>2
  <2> QED BY <2>4, <2>5, KeptWithoutLeading
<1> QED BY <1>2, <1>3

\* One name more.
LEMMA OneNameMore ==
  ASSUME NEW S, NEW s \in Seq(S), NEW r \in Seq(S), NEW x
  PROVE  Append(s, x) # <<>> /\ Front(Append(s, x)) = s /\ (IsPrefix(r, s) => IsPrefix(r, Append(s, x)))
<1> DEFINE R == S \cup {x}
           t == Append(s, x)
<1>1. s \in Seq(R) /\ r \in Seq(R) /\ x \in R
  <2>1. S \subseteq R
    OBVIOUS
  <2> QED BY <2>1, SeqMonotonic
<1> HIDE DEF R
<1>2. t \in Seq(R) /\ Len(t) = Len(s) + 1 /\ \A i \in 1..Len(s) : t[i] = s[i]
  BY <1>1
<1>3. Front(t) = s
  BY <1>1 DEF Front
<1>4. ASSUME IsPrefix(r, s) PROVE IsPrefix(r, t)
  <2>1. Len(r) <= Len(s) /\ SubSeq(r, 1, Len(r)) = SubSeq(s, 1, Len(r))
    BY <1>4 DEF IsPrefix
  <2>2. SubSeq(t, 1, Len(r)) = SubSeq(s, 1, Len(r))
    BY <1>1, <1>2, <2>1
  <2>3. Len(r) <= Len(t)
    BY <1>1, <1>2, <2>1
  <2> QED BY <2>1, <2>2, <2>3 DEF IsPrefix
<1>5. t # <<>>
  BY <1>1
<1> QED BY <1>3, <1>4, <1>5

\* An upload lands in the upload directory, on no link and on no directory.
LEMMA UploadsLand ==
  ASSUME NEW parts, NEW absolute
  PROVE  Lands(ResolveUpload(parts, absolute))
<1> DEFINE target == ResolveUpload(parts, absolute)
           joined == SafeJoin(Root, parts, absolute)
           parent == Canonical(Front(joined))
           name == Last(joined)
<1> SUFFICES ASSUME target # Nowhere
             PROVE  /\ Within(Root, target) /\ target # Root
                    /\ Canonical(Front(target)) = Front(target)
                    /\ target \notin DOMAIN Links \cup Dirs
  BY DEF Lands
<1>1. target = UploadIn(parent, name)
  BY DEF ResolveUpload, UploadAt
<1> HIDE DEF target, joined, parent, name
<1>2. parent \in Dirs /\ Within(Root, parent) /\ target = UploadTarget(Append(parent, name))
  BY <1>1 DEF UploadIn
<1>3. target = Append(parent, name) /\ target \notin DOMAIN Links \cup Dirs
  BY <1>2 DEF UploadTarget
<1>4. Root \in Seq(Parts) /\ parent \in Seq(Parts) /\ Root \in Dirs
  BY <1>2, PlaceTypes
<1>5. Front(target) = parent /\ IsPrefix(Root, target)
  BY <1>2, <1>3, <1>4, OneNameMore DEF Within
<1>6. Canonical(Front(target)) = Front(target)
  BY <1>2, <1>5, DirIsCanonical
<1> QED BY <1>3, <1>4, <1>5, <1>6 DEF Within

\* No walk below the mount comes to a hidden name it was not given, unless by
\* a link that leads there.
LEMMA WalkShowsNothing ==
  ASSUME NEW S, NEW s \in Seq(S), \A i \in DOMAIN s : s[i] # ".env", NEW got, got = Canonical(Root \o s)
  PROVE  \A i \in (Len(Root) + 1)..Len(got) : got[i] = ".env" => LedTo(Root \o s, i, ".env")
<1> DEFINE path == Root \o s
           r == Len(Root)
           k == Len(path)
           w == KernelWalk(path)
           Shows(p) == \A i \in DOMAIN p : i > r /\ p[i] = ".env" => LedTo(path, i, ".env")
<1>1. /\ r \in Nat /\ k \in Nat /\ r <= k /\ Root \in Dirs /\ Root \in Seq(Parts)
      /\ \A i \in 1..r : path[i] = Root[i]
      /\ \A i \in (r + 1)..k : path[i] # ".env"
  <2>1. Root \in Dirs /\ Root \in Seq(Parts)
    BY PlaceTypes
  <2>2. r \in Nat /\ k = r + Len(s) /\ Len(s) \in Nat /\ DOMAIN s = 1..Len(s)
    BY <2>1
  <2>3. \A i \in 1..r : path[i] = Root[i]
    BY <2>1
  <2>4. ASSUME NEW i \in (r + 1)..k PROVE path[i] # ".env"
    <3>1. path[i] = s[i - r] /\ i - r \in 1..Len(s)
      BY <2>1, <2>2
    <3> QED BY <2>2, <3>1
  <2> QED BY <2>1, <2>2, <2>3, <2>4
<1> HIDE DEF path
<1>2. Walks(path, w) /\ Canonical(path) = w[k]
  BY <1>1, WalkOf
<1>a. \A n \in 1..k : Append(w[n - 1], path[n]) \in DOMAIN Links => Append(w[n - 1], path[n]) \in Followed(path)
  BY DEF Followed
<1> HIDE DEF w
<1>3. /\ \A n \in 0..k : w[n] \in Places
      /\ \A n \in 1..k : w[n] = StepInto(w[n - 1], path[n])
  BY <1>2 DEF Walks
<1>4. \A n \in 0..r : w[n] = SubSeq(Root, 1, n)
  BY <1>1, <1>2, WalkAlong
<1> HIDE DEF k, r
<1> DEFINE T == {n \in Nat : n + r <= k => Shows(w[n + r])}
<1>5. 0 \in T
  <2>1. w[r] = SubSeq(Root, 1, r) /\ r \in 0..r
    BY <1>1, <1>4
  <2>2. SubSeq(Root, 1, r) = Root
    BY <1>1 DEF r
  <2>3. DOMAIN Root = 1..r
    BY <1>1 DEF r
  <2>4. Shows(w[r])
    BY <1>1, <2>1, <2>2, <2>3
  <2>5. 0 + r = r
    BY <1>1
  <2> QED BY <2>4, <2>5
<1>6. ASSUME NEW n \in 1..(k - r), n - 1 \in T PROVE n \in T
  <2> DEFINE a == n + r
             p == w[a - 1]
             x == path[a]
             next == Append(p, x)
  <2>1. n \in Nat /\ a \in 1..k /\ a - 1 \in 0..k /\ a \in (r + 1)..k /\ (n - 1) + r = a - 1 /\ n - 1 \in Nat
    BY <1>1
  <2> HIDE DEF a
  <2>2. Shows(p) /\ p \in Places /\ x # ".env" /\ w[a] = StepInto(p, x)
    <3>1. Shows(w[a - 1])
      BY <1>6, <2>1
    <3> QED BY <1>1, <1>3, <2>1, <3>1
  <2> HIDE DEF p, x
  <2>3. p \in Seq(Parts)
    BY <2>2, PlaceTypes
  <2>4. Shows(next)
    <3> DEFINE U == Parts \cup {x}
    <3>1. p \in Seq(U) /\ x \in U
      <4>1. Parts \subseteq U
        OBVIOUS
      <4> QED BY <2>3, <4>1, SeqMonotonic
    <3> HIDE DEF U
    <3>2. \A i \in DOMAIN next : next[i] = x \/ (i \in DOMAIN p /\ next[i] = p[i])
      BY <3>1
    <3> HIDE DEF next
    <3> QED BY <2>2, <3>2
  <2>5. ASSUME next \in DOMAIN Links PROVE Shows(Links[next])
    <3>1. next \in Followed(path)
      BY <1>a, <2>1, <2>5 DEF p, x
    <3> HIDE DEF next
    <3> QED BY <3>1 DEF LedTo
  <2>6. Shows(Nowhere)
    BY DEF Nowhere
  <2> HIDE DEF next
  <2>7. w[a] = Nowhere \/ w[a] = next \/ (next \in DOMAIN Links /\ w[a] = Links[next])
    BY <2>2 DEF StepInto, next
  <2>8. Shows(w[a])
    <3> HIDE DEF Shows
    <3> QED BY <2>4, <2>5, <2>6, <2>7
  <2> HIDE DEF Shows
  <2> QED BY <2>1, <2>8 DEF a
<1> HIDE DEF T
<1>7. k - r \in T
  <2>1. k - r \in Nat /\ k - r \in 0..(k - r)
    BY <1>1
  <2> QED BY <1>5, <1>6, <2>1, CountUp
<1>8. (k - r) + r = k /\ k <= k /\ k \in 0..k
  BY <1>1
<1>9. Shows(w[k])
  BY <1>7, <1>8 DEF T
<1>10. got = w[k] /\ got \in Places
  BY <1>2, <1>3, <1>8 DEF path
<1>11. DOMAIN got = 1..Len(got) /\ Len(got) \in Nat
  BY <1>10, PlaceTypes
<1>12. ASSUME NEW i \in (r + 1)..Len(got), got[i] = ".env" PROVE LedTo(path, i, ".env")
  <2>1. i \in DOMAIN got /\ i > r
    BY <1>1, <1>11
  <2> QED BY <1>9, <1>10, <1>12, <2>1
<1> QED BY <1>12 DEF r, path

LEMMA NoNameIsNone ==
  /\ NoName # ".." /\ NoName # ".env" /\ NoName # ".well-known" /\ NoName # "?" /\ NoName # WithNul
  /\ NoName # Buried /\ NoName # Disguised /\ Buried # ".env" /\ Disguised # ".env" /\ Disguised # Buried
  /\ WithNul # "?" /\ Buried # "?" /\ Disguised # "?"
BY Zenon DEF NoName, WithNul, Buried, Disguised

\* The words of a name: those of the names that matter here.
LEMMA WordsFacts ==
  /\ WordsIn(NoName) \cap Hidden = {} /\ ".env" \in WordsIn(".env") /\ ".env" \in Hidden
  /\ \A S : \A parts \in Seq(S) : ".env" \in ToSet(parts) => ".env" \in WordsAmong(parts)
<1>1. WordsIn(NoName) = {NoName} /\ WordsIn(".env") = {".env"}
  BY NoNameIsNone DEF WordsIn
<1>2. NoName \notin Hidden /\ ".env" \in Hidden
  BY NoNameIsNone DEF Hidden
<1> QED BY <1>1, <1>2 DEF WordsAmong

\* A static path gives what the oracle finds, in the mount.
LEMMA StaticLocates ==
  ASSUME rel \in Seq(Segments), NEW dotfiles \in BOOLEAN
  PROVE  Locates(LocateIn(rel, dotfiles), dotfiles)
<1> DEFINE got == LocateIn(rel, dotfiles)
           t == TrimSegments(rel)
           K == Kept(rel)
           path == Root \o K
<1>1. t \in Seq(Segments) /\ Kept(t) = K /\ \A x : x # NoName => (x \in ToSet(t) <=> x \in ToSet(rel))
  BY TrimKeeps
<1>2. K \in Seq(Segments) /\ \A x : x \notin ToSet(rel) => \A i \in DOMAIN K : K[i] # x
  <2>1. PICK w : Keeps(rel, w) /\ K = w[Len(rel)]
    BY KeptOf
  <2>2. Len(rel) \in 0..Len(rel)
    OBVIOUS
  <2>3. K \in Seq(Segments)
    BY <2>1, <2>2 DEF Keeps
  <2> QED BY <2>3, KeptWasGiven
<1> HIDE DEF K, t
<1>3. WordsAmong(rel) \cap Hidden = {} <=> WordsAmong(t) \cap Hidden = {}
  <2>1. WordsIn(NoName) \cap Hidden = {}
    BY WordsFacts
  <2> QED BY <1>1, <2>1 DEF WordsAmong
<1>4. CASE RefusedAsDotfile(t, dotfiles)
  <2>1. got = Nowhere
    BY <1>4 DEF LocateIn, t
  <2>2. ~dotfiles /\ WordsAmong(rel) \cap Hidden # {}
    BY <1>3, <1>4 DEF RefusedAsDotfile
  <2> HIDE DEF got
  <2> QED BY <2>1, <2>2 DEF Locates, got
<1>5. CASE ~RefusedAsDotfile(t, dotfiles) /\ {"..", WithNul} \cap ToSet(rel) # {}
  <2>1. {"..", WithNul} \cap ToSet(t) # {}
    BY <1>1, <1>5, NoNameIsNone
  <2>2. SafeJoin(Root, t, FALSE) = Nowhere
    BY <2>1 DEF SafeJoin
  <2>3. got = Nowhere
    BY <1>5, <2>2 DEF LocateIn, LocateFile, LocateAt, t
  <2>4. ResolveOracle(rel) = Nowhere
    BY <1>5 DEF ResolveOracle
  <2> HIDE DEF got
  <2> QED BY <2>3, <2>4 DEF Locates, got
<1>6. CASE ~RefusedAsDotfile(t, dotfiles) /\ {"..", WithNul} \cap ToSet(rel) = {}
  <2>1. {"..", WithNul} \cap ToSet(t) = {}
    BY <1>1, <1>6, NoNameIsNone
  <2>2. SafeJoin(Root, t, FALSE) = path
    BY <1>1, <2>1 DEF SafeJoin
  <2>3. Root \in Seq(Parts) /\ Root # Nowhere
    BY PlaceTypes, PathsConstants
  <2>4. path # Nowhere
    <3>1. "?" \notin Segments
      BY PathsConstants, NoNameIsNone DEF Segments
    <3>2. ASSUME path = Nowhere PROVE FALSE
      <4>1. Len(path) = 1 /\ path[1] = "?"
        BY <3>2 DEF Nowhere
      <4>2. Len(path) = Len(Root) + Len(K) /\ Len(Root) \in Nat /\ Len(K) \in Nat
        BY <1>2, <2>3
      <4> DEFINE U == Parts \cup Segments
      <4>a. Root \in Seq(U) /\ K \in Seq(U)
        <5>1. Parts \subseteq U /\ Segments \subseteq U
          OBVIOUS
        <5> HIDE DEF U
        <5> QED BY <1>2, <2>3, <5>1, SeqMonotonic
      <4> HIDE DEF U
      <4>3. CASE Len(Root) = 1
        <5>1. path[1] = Root[1]
          BY <4>a, <4>2, <4>3, ConcatProperties
        <5>2. Root = <<"?">>
          BY <2>3, <4>1, <4>3, <5>1
        <5> QED BY <2>3, <5>2 DEF Nowhere
      <4>4. CASE Len(Root) = 0
        <5>1. Len(K) = 1
          BY <4>1, <4>2, <4>4
        <5>2. path[1] = K[1]
          BY <4>a, <4>4, <5>1, ConcatProperties
        <5>3. K[1] \in Segments
          BY <1>2, <5>1
        <5> HIDE DEF path
        <5>4. K[1] = "?"
          BY <4>1, <5>2
        <5> QED BY <3>1, <5>3, <5>4
      <4>5. Len(Root) = 0 \/ Len(Root) = 1
        <5>1. Len(Root) + Len(K) = 1 /\ Len(Root) \in Nat /\ Len(K) \in Nat
          BY <4>1, <4>2
        <5>2. \A i, j \in Nat : i + j = 1 => i = 0 \/ i = 1
          OBVIOUS
        <5> QED BY <5>1, <5>2
      <4> QED BY <4>3, <4>4, <4>5
    <3> QED BY <3>2
  <2> DEFINE more == Append(path, "index.html")
             there == Canonical(path)
             asked == IndexUnder(path)
  <2>5. got = InMount(IndexOf(path, there))
    BY <1>6, <2>2, <2>4 DEF LocateIn, LocateFile, LocateAt, t
  <2>6. ResolveOracle(rel) = InMount(Canonical(asked))
    BY <1>6 DEF ResolveOracle, K
  <2>7. IndexOf(path, there) = Canonical(asked) /\ asked = IF there \in Dirs THEN more ELSE path
    BY DEF IndexOf, IndexUnder
  <2> HIDE DEF got, asked
  <2>8. got = ResolveOracle(rel)
    BY <2>5, <2>6, <2>7
  <2>9. got # Nowhere => got \in Files /\ Within(Root, got)
    BY <2>5 DEF InMount
  <2>10. ASSUME got # Nowhere, ~dotfiles
         PROVE  \A i \in (Len(Root) + 1)..Len(got) : got[i] = ".env" => LedTo(asked, i, ".env")
    <3>1. ".env" \notin ToSet(t)
      <4>1. CASE WordsAmong(t) \cap Hidden = {}
        BY <1>1, <4>1, WordsFacts
      <4>2. CASE IsWellKnown(t)
        <5>1. t # <<>> /\ t[1] # ".env" /\ ".env" \notin ToSet(Tail(t))
          <6>1. t # <<>> /\ Head(t) \in {".well-known", Disguised} /\ WordsAmong(Tail(t)) \cap Hidden = {}
            BY <4>2 DEF IsWellKnown
          <6>2. t[1] # ".env"
            BY <1>1, <6>1, NoNameIsNone
          <6>3. Tail(t) \in Seq(Segments)
            BY <1>1, <6>1
          <6> QED BY <6>1, <6>2, <6>3, WordsFacts
        <5>2. \A i \in 1..Len(t) : i = 1 \/ t[i] \in ToSet(Tail(t))
          <6>1. Tail(t) \in Seq(Segments) /\ Len(Tail(t)) = Len(t) - 1 /\ \A j \in 1..(Len(t) - 1) : Tail(t)[j] = t[j + 1]
            BY <1>1, <5>1
          <6>2. ASSUME NEW i \in 1..Len(t), i # 1 PROVE t[i] \in ToSet(Tail(t))
            <7>1. i - 1 \in 1..(Len(t) - 1) /\ (i - 1) + 1 = i
              BY <1>1, <6>2
            <7>2. Tail(t)[i - 1] = t[i] /\ i - 1 \in DOMAIN Tail(t)
              BY <6>1, <7>1
            <7> QED BY <7>2 DEF ToSet
          <6> QED BY <6>2
        <5> QED BY <1>1, <5>1, <5>2 DEF ToSet
      <4> QED BY <1>6, <2>10, <4>1, <4>2 DEF RefusedAsDotfile
    <3>2. ".env" \notin ToSet(rel)
      BY <1>1, <3>1, NoNameIsNone
    <3>3. \A i \in DOMAIN K : K[i] # ".env"
      BY <1>2, <3>2
    <3>4. got = Canonical(asked)
      BY <2>5, <2>7, <2>10 DEF InMount
    <3>5. CASE there \notin Dirs
      BY <1>2, <2>7, <3>3, <3>4, <3>5, WalkShowsNothing
    <3>6. CASE there \in Dirs
      <4> DEFINE S == Segments \cup {"index.html"}
                 s == Append(K, "index.html")
      <4>1. K \in Seq(S) /\ "index.html" \in S
        <5>1. Segments \subseteq S
          OBVIOUS
        <5> QED BY <1>2, <5>1, SeqMonotonic
      <4>2. s \in Seq(S) /\ \A i \in DOMAIN s : s[i] = "index.html" \/ (i \in DOMAIN K /\ s[i] = K[i])
        <5> HIDE DEF S
        <5> QED BY <4>1
      <4>3. \A i \in DOMAIN s : s[i] # ".env"
        <5> HIDE DEF s
        <5> QED BY <3>3, <4>2
      <4>4. more = Root \o s
        <5> DEFINE U == Parts \cup S
        <5>1. Root \in Seq(U) /\ K \in Seq(U) /\ "index.html" \in U
          <6>1. Parts \subseteq U /\ S \subseteq U
            OBVIOUS
          <6> HIDE DEF U, S
          <6> QED BY <2>3, <4>1, <6>1, SeqMonotonic
        <5> DEFINE x == <<"index.html">>
        <5>2. x \in Seq(U)
          BY <5>1
        <5> HIDE DEF U, x
        <5>3. Root \o K \in Seq(U) /\ more = (Root \o K) \o x /\ s = K \o x
          BY <5>1, ConcatProperties, AppendIsConcat DEF x
        <5>4. (Root \o K) \o x = Root \o (K \o x)
          BY <5>1, <5>2, ConcatAssociative
        <5> QED BY <5>3, <5>4
      <4> HIDE DEF s, S, more
      <4>5. got = Canonical(Root \o s) /\ asked = Root \o s
        BY <2>7, <3>4, <3>6, <4>4
      <4> QED BY <4>2, <4>3, <4>5, WalkShowsNothing
    <3> QED BY <3>5, <3>6
  <2> QED BY <2>8, <2>9, <2>10 DEF Locates, got, asked, K
<1> QED BY <1>4, <1>5, <1>6

\* A file that is in a directory and is not that directory is in it by its parent.
LEMMA ParentIsWithin ==
  ASSUME NEW S, NEW r \in Seq(S), NEW t \in Seq(S), IsPrefix(r, t), r # t
  PROVE  t # <<>> /\ Front(t) \in Seq(S) /\ IsPrefix(r, Front(t))
<1>1. Len(r) <= Len(t) /\ SubSeq(r, 1, Len(r)) = SubSeq(t, 1, Len(r)) /\ Len(r) \in Nat /\ Len(t) \in Nat
  <2>1. Len(r) \in Nat /\ Len(t) \in Nat
    OBVIOUS
  <2> QED BY <2>1 DEF IsPrefix
<1>2. SubSeq(r, 1, Len(r)) = r /\ SubSeq(t, 1, Len(t)) = t
  OBVIOUS
<1>3. Len(r) < Len(t)
  BY <1>1, <1>2
<1>4. t # <<>> /\ Front(t) = SubSeq(t, 1, Len(t) - 1)
  BY <1>1, <1>3 DEF Front
<1> DEFINE f == SubSeq(t, 1, Len(t) - 1)
<1>5. f \in Seq(S) /\ Len(f) = Len(t) - 1 /\ \A i \in 1..(Len(t) - 1) : f[i] = t[i]
  <2>1. 1 \in 1..(Len(t) + 1) /\ Len(t) - 1 \in 0..Len(t)
    BY <1>1, <1>3
  <2>2. f \in Seq(S)
    BY <2>1
  <2>3. Len(f) = Len(t) - 1
    <3> DEFINE n == Len(t) - 1
    <3>1. n \in Nat /\ n - 1 + 1 = n /\ \A i \in 1..n : t[i] \in S
      BY <1>1, <1>3
    <3>2. Len(SubSeq(t, 1, n)) = IF 1 <= n THEN n - 1 + 1 ELSE 0
      <4> HIDE DEF n
      <4> QED BY <3>1, SubSeqProperties
    <3> HIDE DEF n
    <3>3. Len(SubSeq(t, 1, n)) = n
      BY <3>1, <3>2
    <3> QED BY <3>3 DEF n
  <2>4. \A i \in 1..(Len(t) - 1) : f[i] = t[i]
    BY <1>1, <2>1
  <2> QED BY <2>2, <2>3, <2>4
<1> HIDE DEF f
<1>6. SubSeq(f, 1, Len(r)) = SubSeq(t, 1, Len(r)) /\ Len(r) <= Len(f)
  BY <1>1, <1>3, <1>5
<1> QED BY <1>1, <1>4, <1>5, <1>6 DEF IsPrefix, f

\* One step from a directory.
LEMMA StepFromDir ==
  ASSUME NEW d \in Dirs, NEW x
  PROVE  Canonical(Append(d, x)) = StepInto(d, x)
<1> DEFINE path == Append(d, x)
           U == Parts \cup {x}
<1>1. d \in Seq(U) /\ x \in U
  <2>1. d \in Seq(Parts) /\ Parts \subseteq U
    BY PlaceTypes
  <2> QED BY <2>1, SeqMonotonic
<1> HIDE DEF U
<1>2. Len(path) = Len(d) + 1 /\ Len(d) \in Nat /\ path[Len(d) + 1] = x /\ \A i \in 1..Len(d) : path[i] = d[i]
  BY <1>1
<1>3. SubSeq(d, 1, Len(d)) = d
  BY <1>1
<1> HIDE DEF path
<1>4. Walks(path, KernelWalk(path)) /\ Canonical(path) = KernelWalk(path)[Len(path)]
  BY <1>2, WalkOf
<1>5. KernelWalk(path)[Len(d)] = d
  <2>1. Len(d) \in 0..Len(d) /\ Len(d) <= Len(path) /\ Len(path) \in Nat
    BY <1>2
  <2> QED BY <1>2, <1>3, <1>4, <2>1, WalkAlong
<1>6. Len(path) \in 1..Len(path) /\ Len(path) - 1 = Len(d)
  BY <1>2
<1>7. KernelWalk(path)[Len(path)] = StepInto(KernelWalk(path)[Len(d)], x)
  BY <1>2, <1>4, <1>6 DEF Walks
<1> QED BY <1>4, <1>5, <1>7 DEF path

\* What is sent instead of a located file is beside it, or where a link in that
\* place leads.
LEMMA SidecarSent ==
  ASSUME NEW file, file = Nowhere \/ (file \in Files /\ Within(Root, file)), NEW sent, sent = Chosen(file, SidecarFor(file))
  PROVE  Sends(file, sent)
<1> SUFFICES ASSUME sent # file
             PROVE  /\ sent \in Files
                    /\ (sent = SidecarPath(file) /\ Within(Root, sent)) \/ SidecarPath(file) \in DOMAIN Links
  BY DEF Sends
<1>1. sent \in Files /\ sent = SidecarFor(file)
  BY DEF Chosen
<1>2. sent # Nowhere
  BY <1>1, PathsConstants
<1>3. file # Nowhere /\ sent = Canonical(SidecarPath(file))
  BY <1>1, <1>2 DEF SidecarFor
<1>4. file \in Files /\ IsPrefix(Root, file)
  BY <1>3 DEF Within
<1>5. file \in Seq(Parts) /\ Root \in Seq(Parts) /\ Root \in Dirs /\ file # Root
  BY <1>4, PlaceTypes, PathsConstants DEF Places
<1> DEFINE d == Front(file)
           x == Compressed[Last(file)]
<1>6. d \in Seq(Parts) /\ IsPrefix(Root, d) /\ d \in Dirs
  BY <1>4, <1>5, ParentIsWithin, PathsConstants
<1>7. SidecarPath(file) = Append(d, x)
  BY DEF SidecarPath
<1> HIDE DEF d, x
<1>8. sent = StepInto(d, x)
  BY <1>3, <1>6, <1>7, StepFromDir
<1>9. CASE Append(d, x) \in DOMAIN Links
  BY <1>1, <1>7, <1>9
<1>10. CASE Append(d, x) \notin DOMAIN Links
  <2>1. sent = Append(d, x)
    BY <1>2, <1>6, <1>8, <1>10 DEF StepInto
  <2>2. IsPrefix(Root, Append(d, x))
    BY <1>5, <1>6, OneNameMore
  <2> QED BY <1>1, <1>2, <1>7, <2>1, <2>2 DEF Within
<1> QED BY <1>9, <1>10

\* A bounded set of natural numbers has a greatest one.
LEMMA GreatestUpTo ==
  ASSUME NEW k \in Nat, NEW T \in SUBSET (1..k), T # {}
  PROVE  Max(T) \in T /\ \A m \in T : Max(T) >= m
<1> DEFINE R == {j \in Nat : k - j \in T}
<1>1. R \in SUBSET Nat /\ R # {}
  <2>1. PICK m \in T : TRUE
    OBVIOUS
  <2>2. k - m \in Nat /\ k - (k - m) = m
    BY <2>1
  <2>3. k - m \in R
    BY <2>2
  <2> QED BY <2>3
<1>2. PICK j \in R : \A i \in R : j <= i
  <2> HIDE DEF R
  <2> QED BY <1>1, LeastNatural
<1>3. k - j \in T /\ \A m \in T : k - j >= m
  <2>1. ASSUME NEW m \in T PROVE k - j >= m
    <3>1. k - m \in Nat /\ k - (k - m) = m /\ m \in Nat
      OBVIOUS
    <3>2. k - m \in R
      BY <3>1
    <3>3. j <= k - m /\ j \in Nat
      BY <1>2, <3>2
    <3> QED BY <3>1, <3>3
  <2> QED BY <1>2, <2>1
<1> QED BY <1>3 DEF Max

Separators == {"/", "\\"}

\* The last segment of a name has no separator.
LEMMA LastSegmentHasNone ==
  ASSUME NEW s \in Seq(Alphabet)
  PROVE  LastSegment(s) \in Seq(Alphabet \ Separators)
<1> DEFINE k == Len(s)
           I == {i \in 1..k : s[i] \in Separators}
           l == IF I # {} THEN Max(I) ELSE 0
<1>1. LastSegment(s) = SubSeq(s, l + 1, k)
  BY DEF LastSegment, SelectLastInSeq, Separators
<1>2. k \in Nat /\ I \in SUBSET (1..k)
  OBVIOUS
<1>3. l \in 0..k /\ \A i \in I : l >= i
  <2>1. CASE I = {}
    <3> HIDE DEF I
    <3> QED BY <1>2, <2>1
  <2>2. CASE I # {}
    <3> HIDE DEF I, k
    <3>1. Max(I) \in I /\ \A i \in I : Max(I) >= i
      BY <1>2, <2>2, GreatestUpTo
    <3>2. l = Max(I)
      BY <2>2
    <3> HIDE DEF l
    <3>3. Max(I) \in 1..k
      BY <1>2, <3>1
    <3> QED BY <1>2, <3>1, <3>2, <3>3
  <2> QED BY <2>1, <2>2
<1> HIDE DEF l
<1>4. \A i \in (l + 1)..k : s[i] \in Alphabet \ Separators
  <2> SUFFICES ASSUME NEW i \in (l + 1)..k PROVE s[i] \in Alphabet \ Separators
    OBVIOUS
  <2>1. i \in 1..k /\ ~(l >= i)
    BY <1>2, <1>3
  <2>2. i \notin I
    BY <1>3, <2>1
  <2> QED BY <2>1, <2>2
<1>5. l + 1 \in Int /\ k \in Int
  BY <1>2, <1>3
<1> HIDE DEF k
<1>6. SubSeq(s, l + 1, k) \in Seq(Alphabet \ Separators)
  BY <1>4, <1>5, SubSeqProperties
<1> QED BY <1>1, <1>6

\* A safe file name is a name.
LEMMA FilenameIsName ==
  ASSUME NEW s \in Seq(Alphabet)
  PROVE  IsName(SafeFilename(s))
<1> DEFINE name == LastSegment(s)
           A == Alphabet \ Separators
           k == Len(name)
           I == {i \in 1..k : name[i] # "."}
<1>1. name \in Seq(A)
  BY LastSegmentHasNone
<1> HIDE DEF name
<1>2. SafeFilename(s) = WithoutOuterDots(name)
  BY DEF SafeFilename, name
<1>3. CASE ToSet(name) \subseteq {"."}
  <2> DEFINE u == <<"u", "p", "l", "o", "a", "d">>
  <2>1. WithoutOuterDots(name) = u
    BY <1>3 DEF WithoutOuterDots
  <2>2. Len(u) = 6 /\ ToSet(u) = {"u", "p", "l", "o", "a", "d"}
    BY DEF ToSet
  <2>3. u # <<>> /\ u # Dot /\ u # DotDot
    BY DEF Dot, DotDot
  <2>4. ToSet(u) \cap {"/", "\\"} = {}
    BY <2>2
  <2> HIDE DEF u
  <2> QED BY <1>2, <2>1, <2>3, <2>4 DEF IsName
<1>4. CASE ~(ToSet(name) \subseteq {"."})
  <2>1. k \in Nat /\ I \in SUBSET (1..k) /\ I \in SUBSET Nat
    BY <1>1
  <2>2. I # {}
    BY <1>1, <1>4 DEF ToSet
  <2>3. WithoutOuterDots(name) = SubSeq(name, Min(I), Max(I))
    BY <1>4, <2>2 DEF WithoutOuterDots, SelectInSeq, SelectLastInSeq
  <2> DEFINE a == Min(I)
             b == Max(I)
             out == SubSeq(name, a, b)
  <2>4. a \in I /\ \A i \in I : a <= i
    <3> HIDE DEF I
    <3>1. \E n \in I : \A m \in I : n <= m
      BY <2>1, <2>2, LeastNatural
    <3> QED BY <3>1 DEF Min
  <2>5. b \in I
    <3> HIDE DEF I, k
    <3> QED BY <2>1, <2>2, GreatestUpTo
  <2> HIDE DEF a, b
  <2>6. a \in 1..k /\ b \in 1..k /\ a <= b /\ name[a] # "."
    BY <2>4, <2>5
  <2>7. out \in Seq(A) /\ Len(out) >= 1 /\ out[1] = name[a]
    <3> HIDE DEF A
    <3> QED BY <1>1, <2>1, <2>6
  <2>8. out # <<>> /\ out # Dot /\ out # DotDot
    <3>1. Dot[1] = "." /\ DotDot[1] = "."
      BY DEF Dot, DotDot
    <3> HIDE DEF out, A
    <3> QED BY <2>6, <2>7, <3>1
  <2>9. ToSet(out) \cap {"/", "\\"} = {}
    <3>1. ToSet(out) \subseteq A
      <4> HIDE DEF out, A
      <4> QED BY <2>7 DEF ToSet
    <3> HIDE DEF out
    <3> QED BY <3>1 DEF Separators
  <2> HIDE DEF out
  <2> QED BY <1>2, <2>3, <2>8, <2>9 DEF IsName, out, a, b
<1> QED BY <1>3, <1>4

PathsTyped ==
  text \in Seq(Alphabet) /\ rel \in Seq(Segments) /\ rooted \in BOOLEAN /\ typing \in BOOLEAN

\* locate(), resolve_upload_path() and safe_filename() let nothing out of the
\* directory they were given: whatever the tree of directories, files and links
\* and whatever the path, a static file is one in the mount that the oracle of
\* the fuzz target finds, hidden only where that is allowed or a link on that
\* path led there; the sidecar sent in its place is beside it in the mount, the
\* one exception being a sidecar that is itself a link; an upload lands in the
\* upload directory and on no link, and a file name has no separator.
THEOREM NothingEscapes == PathsSpec => [](typing => ContainmentLaws)
<1>1. PathsInit => PathsTyped
  <2>1. <<>> \in Seq(Alphabet) /\ <<>> \in Seq(Segments)
    OBVIOUS
  <2>2. FALSE \in BOOLEAN
    OBVIOUS
  <2> QED BY <2>1, <2>2 DEF PathsInit, PathsTyped
<1>2. PathsTyped /\ [PathsNext]_pathVars => PathsTyped'
  <2> SUFFICES ASSUME PathsTyped, [PathsNext]_pathVars PROVE PathsTyped'
    OBVIOUS
  <2>1. CASE Begin
    BY <2>1 DEF Begin, PathsTyped
  <2>2. CASE TypeText
    BY <2>2 DEF TypeText, PathsTyped
  <2>3. CASE TypeSegment
    BY <2>3 DEF TypeSegment, PathsTyped
  <2>4. CASE UNCHANGED pathVars
    BY <2>4 DEF pathVars, PathsTyped
  <2> QED BY <2>1, <2>2, <2>3, <2>4 DEF PathsNext
<1>3. PathsTyped => (typing => ContainmentLaws)
  <2> SUFFICES ASSUME PathsTyped PROVE ContainmentLaws
    OBVIOUS
  <2>1. \A dotfiles \in BOOLEAN : Locates(LocateIn(rel, dotfiles), dotfiles)
    BY StaticLocates DEF PathsTyped
  <2>2. ASSUME NEW dotfiles \in BOOLEAN PROVE Sends(LocateIn(rel, dotfiles), LocateFor(rel, dotfiles))
    <3> DEFINE file == LocateIn(rel, dotfiles)
    <3>1. file = Nowhere \/ (file \in Files /\ Within(Root, file))
      BY <2>1 DEF Locates
    <3>2. LocateFor(rel, dotfiles) = Chosen(file, SidecarFor(file))
      BY DEF LocateFor
    <3> HIDE DEF file
    <3> QED BY <3>1, <3>2, SidecarSent DEF file
  <2> QED BY <2>1, <2>2, UploadsLand, FilenameIsName DEF ContainmentLaws, PathsTyped
<1> QED BY <1>1, <1>2, <1>3, PTL DEF PathsSpec

-----------------------------------------------------------------------------
(* Schemas and their groups *)

\* A list of values, whatever they are.
IsList(s) == \E S : s \in Seq(S)

\* A compiled rule.  A number has no format, so it never looks like a text.
SoundRule(r) ==
  /\ {"kind", "format"} \subseteq DOMAIN r
  /\ Numeric(r) => r.format = "none"
SoundFields(fields) == \A n \in DOMAIN fields : SoundRule(fields[n])

\* A compiled schema: a record whose groups are lists and fit its fields.
SoundSchema(def) ==
  /\ def = [fields |-> def.fields, title |-> def.title, groups |-> def.groups]
  /\ SoundFields(def.fields)
  /\ \A k \in GroupKeys : \A g \in def.groups[k] : IsList(g)
  /\ GroupsFit(def)

SchemasInv == IsList(schemas) /\ \A i \in DOMAIN schemas : SoundSchema(schemas[i])

\* Among fields that may be ordered, to compare is to have one format.
Orderable(r) == (Numeric(r) /\ r.format = "none") \/ Temporal(r)
LEMMA ComparableByFormat ==
  ASSUME NEW a, NEW b, Orderable(a), Orderable(b)
  PROVE  /\ Comparable(a, b) => a.format = b.format
         /\ a.format = b.format => ReadAlike(a, b)
BY DEF Orderable, Comparable, ReadAlike, Temporal, TemporalFormats, Numeric

\* check_groups() compares neighbours: then any two fields of the group compare.
LEMMA NeighboursCompare ==
  ASSUME NEW F, NEW g, IsList(g), \A i \in DOMAIN g : Orderable(F[g[i]]),
         \A i \in 1..(Len(g) - 1) : Comparable(F[g[i]], F[g[i + 1]])
  PROVE  \A i, j \in DOMAIN g : ReadAlike(F[g[i]], F[g[j]])
<1>1. Len(g) \in Nat /\ DOMAIN g = 1..Len(g)
  BY DEF IsList
<1> DEFINE k == Len(g) - 1
           T == {n \in Nat : n <= k => F[g[n + 1]].format = F[g[1]].format}
<1>2. CASE Len(g) = 0
  BY <1>1, <1>2
<1>3. CASE Len(g) # 0
  <2>1. k \in Nat
    BY <1>1, <1>3
  <2>2. 0 \in T
    OBVIOUS
  <2>3. ASSUME NEW n \in 1..k, n - 1 \in T PROVE n \in T
    <3>1. n \in Nat /\ n - 1 <= k /\ (n - 1) + 1 = n /\ n \in 1..Len(g) /\ n + 1 \in 1..Len(g)
      BY <1>1, <2>1
    <3>2. F[g[n]].format = F[g[1]].format
      BY <2>3, <3>1
    <3>3. Comparable(F[g[n]], F[g[n + 1]])
      OBVIOUS
    <3>4. F[g[n]].format = F[g[n + 1]].format
      BY <1>1, <3>1, <3>3, ComparableByFormat
    <3> QED BY <3>1, <3>2, <3>4
  <2>4. \A n \in 0..k : n \in T
    <3> HIDE DEF T, k
    <3> QED BY <2>1, <2>2, <2>3, CountUp
  <2>5. ASSUME NEW i \in 1..Len(g) PROVE F[g[i]].format = F[g[1]].format
    <3>1. i - 1 \in 0..k /\ i - 1 <= k /\ (i - 1) + 1 = i
      BY <1>1
    <3>2. i - 1 \in T
      BY <2>4, <3>1
    <3> QED BY <3>1, <3>2
  <2> QED BY <1>1, <2>5, ComparableByFormat
<1> QED BY <1>2, <1>3

\* A sound schema is what the property asks for.
LEMMA SchemaGroupsSound ==
  ASSUME NEW def, SoundSchema(def), NEW k \in GroupKeys, NEW g \in def.groups[k],
         NEW m \in ToSet(g), NEW n \in ToSet(g)
  PROVE  /\ {m, n} \subseteq DOMAIN def.fields
         /\ k = "ordered" => ReadAlike(def.fields[m], def.fields[n])
<1>1. {m, n} \subseteq DOMAIN def.fields
  BY DEF SoundSchema, GroupsFit
<1>2. ASSUME k = "ordered" PROVE ReadAlike(def.fields[m], def.fields[n])
  <2>1. IsList(g)
    BY DEF SoundSchema
  <2>2. \A i \in 1..(Len(g) - 1) : Comparable(def.fields[g[i]], def.fields[g[i + 1]])
    BY <1>2 DEF SoundSchema, GroupsFit
  <2>3. PICK i \in DOMAIN g : m = g[i]
    BY DEF ToSet
  <2>4. PICK j \in DOMAIN g : n = g[j]
    BY DEF ToSet
  <2>5. ASSUME NEW l \in DOMAIN g PROVE Orderable(def.fields[g[l]])
    <3>1. g[l] \in DOMAIN def.fields
      BY DEF SoundSchema, GroupsFit, ToSet
    <3>2. Numeric(def.fields[g[l]]) \/ Temporal(def.fields[g[l]])
      BY <1>2 DEF SoundSchema, GroupsFit
    <3> QED BY <3>1, <3>2 DEF SoundSchema, SoundFields, SoundRule, Orderable
  <2> QED BY <2>1, <2>2, <2>3, <2>4, <2>5, NeighboursCompare
<1> QED BY <1>1, <1>2

\* A schema whose groups fit is kept; the others stay as they are.
LEMMA KeepsSound ==
  ASSUME SchemasInv, NEW def, SoundSchema(def), Keep(def)
  PROVE  SchemasInv'
<1>1. PICK S : schemas \in Seq(S)
  BY DEF SchemasInv, IsList
<1>2. schemas' = Append(schemas, def)
  BY DEF Keep
<1>3. schemas \in Seq(S \cup {def}) /\ def \in S \cup {def}
  BY <1>1
<1>4. schemas' \in Seq(S \cup {def}) /\ Len(schemas') = Len(schemas) + 1
      /\ \A i \in 1..(Len(schemas) + 1) : schemas'[i] = IF i = Len(schemas) + 1 THEN def ELSE schemas[i]
  BY <1>2, <1>3
<1>5. Len(schemas) \in Nat /\ DOMAIN schemas = 1..Len(schemas) /\ DOMAIN schemas' = 1..(Len(schemas) + 1)
  BY <1>3, <1>4
<1>6. ASSUME NEW i \in DOMAIN schemas' PROVE SoundSchema(schemas'[i])
  <2>1. CASE i = Len(schemas) + 1
    BY <1>4, <1>5, <2>1
  <2>2. CASE i # Len(schemas) + 1
    <3>1. i \in DOMAIN schemas /\ schemas'[i] = schemas[i]
      BY <1>4, <1>5, <2>2
    <3> QED BY <3>1 DEF SchemasInv
  <2> QED BY <2>1, <2>2
<1>7. IsList(schemas')
  BY <1>4 DEF IsList
<1> QED BY <1>6, <1>7 DEF SchemasInv, SoundSchema, SoundFields, SoundRule, IsList, GroupsFit

\* A rule that compiles is sound: a number's keys have no `format` among them.
LEMMA CompiledIsSound ==
  ASSUME NEW w, Compiles(w), w.format # "none" => "format" \in WrittenKeys(w)
  PROVE  SoundRule(Compiled(w))
<1> DEFINE r == Compiled(w)
<1>1. {"kind", "format"} \subseteq DOMAIN r
  BY DEF Compiled
<1>2. r.format = w.format /\ r.kind = IF w.spelt = "schema" THEN "table" ELSE w.kind
  BY DEF Compiled
<1>3. ASSUME Numeric(r) PROVE r.format = "none"
  <2>1. w.spelt # "schema" /\ w.kind \in {"number", "integer"}
    BY <1>2, <1>3 DEF Numeric
  <2>2. Consistent(w)
    BY <2>1 DEF Compiles
  <2>3. WrittenKeys(w) \subseteq CommonKeys \cup AllowedKeys[w.kind]
    BY <2>2 DEF Consistent
  <2>4. "format" \notin CommonKeys
    BY DEF CommonKeys
  <2>5. "format" \notin AllowedKeys["number"] /\ "format" \notin AllowedKeys["integer"]
    BY DEF AllowedKeys
  <2> QED BY <1>2, <2>1, <2>3, <2>4, <2>5
<1> HIDE DEF r
<1> QED BY <1>1, <1>3 DEF SoundRule, r

\* The options of a schema are put in place of those that it had.
LEMMA AppliedSound ==
  ASSUME NEW def, NEW opts \in OptionTables,
         def = [fields |-> def.fields, title |-> def.title, groups |-> def.groups],
         SoundFields(def.fields),
         \A k \in GroupKeys : \A g \in def.groups[k] : IsList(g),
         GroupsFit(Applied(def, opts))
  PROVE  SoundSchema(Applied(def, opts))
<1> DEFINE title == IF opts.title = NoTitle THEN def.title ELSE opts.title
           groups == [k \in GroupKeys |-> IF k \in DOMAIN opts.groups THEN opts.groups[k] ELSE def.groups[k]]
           fields == def.fields
<1>1. Applied(def, opts) = [fields |-> fields, title |-> title, groups |-> groups]
  <2>1. Applied(def, opts) = [def EXCEPT !.title = title, !.groups = groups]
    BY Zenon DEF Applied
  <2> HIDE DEF title, groups
  <2> QED BY <2>1
<1>2. ASSUME NEW k \in GroupKeys, NEW g \in groups[k] PROVE IsList(g)
  <2>1. CASE k \in DOMAIN opts.groups
    <3>1. g \in Seq(ToSet(g))
      BY <2>1, SchemasConstants
    <3> QED BY <3>1 DEF IsList
  <2>2. CASE k \notin DOMAIN opts.groups
    BY <2>2
  <2> QED BY <2>1, <2>2
<1>3. SoundFields(fields)
  OBVIOUS
<1> HIDE DEF title, groups, fields
<1> QED BY <1>1, <1>2, <1>3 DEF SoundSchema

\* derive() looks at the groups it carries over.
LEMMA DeriveKeepsSound ==
  ASSUME SchemasInv, NEW i \in DOMAIN schemas, NEW fields, SoundFields(fields), Derive(i, fields)
  PROVE  SchemasInv'
<1> DEFINE def == [schemas[i] EXCEPT !.fields = fields]
<1>1. SoundSchema(schemas[i])
  BY DEF SchemasInv
<1>2. def = [fields |-> fields, title |-> schemas[i].title, groups |-> schemas[i].groups]
  BY <1>1 DEF SoundSchema
<1>3. GroupsFit(def) /\ Keep(def)
  BY DEF Derive, Derivable
<1>4. SoundSchema(def)
  <2> HIDE DEF def
  <2> QED BY <1>1, <1>2, <1>3 DEF SoundSchema
<1> HIDE DEF def
<1> QED BY <1>3, <1>4, KeepsSound

\* check_groups(), derive() and apply_options(): whatever schemas a script writes,
\* and however it derives schemas from schemas, a rule between fields names
\* fields that the schema has, and any two fields of an ordered group are both
\* numbers or texts in one temporal format, though only neighbours are compared.
THEOREM GroupsSound == SchemasSpec => []GroupsStaySound
<1>1. SchemasInit => SchemasInv
  <2>1. <<>> \in Seq({}) /\ DOMAIN <<>> = {}
    OBVIOUS
  <2> QED BY <2>1 DEF SchemasInit, SchemasInv, IsList
<1>2. SchemasInv /\ [SchemasNext]_schemaVars => SchemasInv'
  <2> SUFFICES ASSUME SchemasInv, [SchemasNext]_schemaVars PROVE SchemasInv'
    OBVIOUS
  <2>1. ASSUME NEW fields \in FieldTables, NEW opts \in OptionTables, NewSchema(fields, opts)
        PROVE  SchemasInv'
    <3> DEFINE def == FreshSchema(fields)
    <3>1. def = [fields |-> def.fields, title |-> def.title, groups |-> def.groups]
          /\ \A k \in GroupKeys : def.groups[k] = {}
      BY DEF FreshSchema
    <3>2. GroupsFit(Applied(def, opts)) /\ Keep(Applied(def, opts))
      BY <2>1 DEF NewSchema
    <3>4. SoundFields(def.fields)
      <4>1. def.fields = [n \in DOMAIN fields |-> Compiled(fields[n])]
        BY DEF FreshSchema
      <4>2. \A n \in DOMAIN fields : SoundRule(Compiled(fields[n]))
        BY <2>1, CompiledIsSound, FormatsHaveTheirKey DEF NewSchema
      <4> HIDE DEF def
      <4> QED BY <4>1, <4>2 DEF SoundFields
    <3> HIDE DEF def
    <3>3. SoundSchema(Applied(def, opts))
      BY <3>1, <3>2, <3>4, AppliedSound
    <3> QED BY <3>2, <3>3, KeepsSound
  <2> DEFINE F(i) == schemas[i].fields
  <2>9. \A i \in DOMAIN schemas : SoundFields(F(i))
    BY DEF SchemasInv, SoundSchema
  <2>2. ASSUME NEW i \in DOMAIN schemas, PartialSchema(i) PROVE SchemasInv'
    <3> DEFINE fields == [n \in DOMAIN F(i) |-> [F(i)[n] EXCEPT !.required = FALSE, !.default = FALSE]]
    <3>1. ASSUME NEW r, SoundRule(r) PROVE SoundRule([r EXCEPT !.required = FALSE, !.default = FALSE])
      <4> DEFINE s == [r EXCEPT !.required = FALSE, !.default = FALSE]
      <4>1. DOMAIN s = DOMAIN r
        OBVIOUS
      <4>2. s.kind = r.kind /\ s.format = r.format
        BY <3>1 DEF SoundRule
      <4> HIDE DEF s
      <4>3. Numeric(s) => s.format = "none"
        BY <3>1, <4>2 DEF SoundRule, Numeric
      <4>4. SoundRule(s)
        BY <3>1, <4>1, <4>3 DEF SoundRule
      <4> QED BY <4>4 DEF s
    <3>2. SoundFields(fields)
      BY <2>9, <3>1 DEF SoundFields
    <3>3. Derive(i, fields)
      BY <2>2 DEF PartialSchema
    <3> QED BY <3>2, <3>3, DeriveKeepsSound
  <2>10. ASSUME NEW i \in DOMAIN schemas, NEW names, names \subseteq DOMAIN F(i) PROVE SoundFields(Restrict(F(i), names))
    BY <2>9, <2>10 DEF SoundFields, Restrict
  <2>3. ASSUME NEW i \in DOMAIN schemas, NEW names, PickFields(i, names) PROVE SchemasInv'
    BY <2>3, <2>10, DeriveKeepsSound DEF PickFields
  <2>5. ASSUME NEW i \in DOMAIN schemas, NEW x \in Extensions, ExtendSchema(i, x) PROVE SchemasInv'
    <3> DEFINE fields == ExtendedFields(F(i), x)
    <3>1. \A n \in DOMAIN x.rules : SoundRule(Compiled(x.rules[n]))
      BY <2>5, CompiledIsSound, FormatsHaveTheirKey DEF ExtendSchema
    <3>2. SoundFields(fields)
      BY <2>9, <3>1 DEF SoundFields, ExtendedFields
    <3>3. Derive(i, fields)
      BY <2>5 DEF ExtendSchema
    <3> QED BY <3>2, <3>3, DeriveKeepsSound
  <2>6. ASSUME NEW i \in DOMAIN schemas, NEW opts \in OptionTables, WithOptions(i, opts) PROVE SchemasInv'
    <3>1. SoundSchema(schemas[i])
      BY DEF SchemasInv
    <3>2. GroupsFit(Applied(schemas[i], opts)) /\ Keep(Applied(schemas[i], opts))
      BY <2>6 DEF WithOptions
    <3>3. SoundSchema(Applied(schemas[i], opts))
      BY <3>1, <3>2, AppliedSound DEF SoundSchema
    <3> QED BY <3>2, <3>3, KeepsSound
  <2>7. CASE RegisterFormat("plate")
    BY <2>7 DEF RegisterFormat, SchemasInv, SoundSchema, SoundFields, SoundRule, IsList, GroupsFit
  <2>8. CASE UNCHANGED schemaVars
    BY <2>8 DEF schemaVars, SchemasInv, SoundSchema, SoundFields, SoundRule, IsList, GroupsFit
  <2> QED BY <2>1, <2>2, <2>3, <2>5, <2>6, <2>7, <2>8 DEF SchemasNext
<1>3. SchemasInv => GroupsStaySound
  BY SchemaGroupsSound DEF SchemasInv, GroupsStaySound
<1> QED BY <1>1, <1>2, <1>3, PTL DEF SchemasSpec
=============================================================================
