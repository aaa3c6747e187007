----------------------------- MODULE Web_proofs -----------------------------
(***************************************************************************)
(* What credentials, sessions, uploads, static files and applications      *)
(* promise, for every set of dates, logins, visitors, bodies, codings,     *)
(* endpoints and requests.                                                 *)
(***************************************************************************)
EXTENDS Credentials, Session, Upload, Content, Routes, FiniteSetTheorems, SequenceTheorems, TLAPS

-----------------------------------------------------------------------------
(* jwt.verify *)

JwtAnswers ==
  {"algorithm not allowed", "invalid signature", "malformed claims", "token expired", "token not yet valid",
   "audience mismatch", "missing claim", "token too old", "ok"}

Tokens ==
  [stage : {"held"}, alg : Algorithms \cup {"none"}, forged : BOOLEAN, aud : BOOLEAN, exp : Claims,
   nbf : Claims, iat : Claims, allowed : SUBSET Algorithms, leeway : Leeways, needExp : BOOLEAN,
   maxAge : {Never} \cup MaxAges, answer : JwtAnswers \cup {""}, seen : Nat, was : SUBSET JwtAnswers]

\* Its time is over, one way or the other.
Late(t, now) ==
  \/ t.exp.kind = "date" /\ now > t.exp.at + t.leeway
  \/ t.maxAge # Never /\ now > t.iat.at + t.maxAge + t.leeway

Begun(t, now) == t.nbf.kind = "date" => t.nbf.at <= now + t.leeway

\* What the answers so far say of the token at the time of the last.
JwtHistory(t) ==
  /\ t.answer = "" => t.was = {}
  /\ t.answer # "" => (t.answer = "ok" <=> Sound(t) /\ InWindow(t, t.seen))
  /\ (t.was \cup {t.answer}) \cap {"token expired", "token too old"} # {} => Late(t, t.seen)
  /\ "ok" \in t.was \cup {t.answer} => Sound(t) /\ Begun(t, t.seen)
  /\ "ok" \in t.was => t.answer \in {"ok", "token expired", "token too old"}

JwtInv ==
  /\ jwt \in {NoJwt} \cup Tokens
  /\ cclock \in Nat
  /\ jwt # NoJwt => jwt.seen <= cclock /\ JwtHistory(jwt)

LEMMA ClaimTypes ==
  ASSUME NEW c \in Claims
  PROVE  c.kind \in {"absent", "malformed", "date"} /\ c.at \in Int /\ (c.kind = "absent" <=> c = NoClaim)
<1>1. CASE c = NoClaim
  BY <1>1 DEF NoClaim
<1>2. CASE c = [kind |-> "malformed", at |-> 0]
  BY <1>2 DEF NoClaim
<1>3. CASE c \in [kind : {"date"}, at : ClaimDates]
  <2>1. c.kind = "date" /\ c.at \in ClaimDates /\ NoClaim.kind = "absent"
    BY <1>3 DEF NoClaim
  <2> QED BY <2>1, CredentialConstants
<1> QED BY <1>1, <1>2, <1>3 DEF Claims

\* What a token's fields are.
LEMMA TokenTypes ==
  ASSUME NEW t \in Tokens
  PROVE  /\ t # NoJwt /\ t.exp \in Claims /\ t.nbf \in Claims /\ t.iat \in Claims
         /\ t.leeway \in Nat /\ t.maxAge \in Int /\ t.seen \in Nat
         /\ t.forged \in BOOLEAN /\ t.aud \in BOOLEAN /\ t.needExp \in BOOLEAN
         /\ t.answer \in JwtAnswers \cup {""} /\ t.was \in SUBSET JwtAnswers
<1>1. t.stage = "held"
  BY DEF Tokens
<1>2. NoJwt.stage = "none"
  BY DEF NoJwt
<1>3. t.leeway \in Leeways /\ t.maxAge \in {Never} \cup MaxAges
  BY DEF Tokens
<1>4. t.leeway \in Nat /\ t.maxAge \in Int
  <2>1. Never \in Int
    BY DEF Never
  <2>2. \A x \in Leeways : x \in Nat
    BY CredentialConstants
  <2>3. \A x \in MaxAges : x \in Int
    BY CredentialConstants
  <2> HIDE DEF Never
  <2> QED BY <1>3, <2>1, <2>2, <2>3
<1> QED BY <1>1, <1>2, <1>4 DEF Tokens

\* The verdict on a token, whatever its claims, the policy and the time.
LEMMA VerdictOf ==
  ASSUME NEW t \in Tokens, cclock \in Nat
  PROVE  /\ JwtAnswer(t) \in JwtAnswers
         /\ JwtAnswer(t) = "ok" <=> Sound(t) /\ InWindow(t, cclock)
         /\ JwtAnswer(t) \in {"token expired", "token too old"} => Late(t, cclock)
         /\ Sound(t) /\ Begun(t, cclock) => JwtAnswer(t) \in {"ok", "token expired", "token too old"}
<1> DEFINE T(c) == c.kind \in {"absent", "malformed", "date"} /\ c.at \in Int /\ (c.kind = "absent" <=> c = NoClaim)
<1>1. /\ T(t.exp) /\ T(t.nbf) /\ T(t.iat)
      /\ t.leeway \in Nat /\ t.maxAge \in Int
      /\ t.forged \in BOOLEAN /\ t.aud \in BOOLEAN /\ t.needExp \in BOOLEAN
  BY TokenTypes, ClaimTypes
<1>2. JwtAnswer(t) \in JwtAnswers
  BY DEF JwtAnswer, PolicyAnswer, JwtAnswers
<1>3. JwtAnswer(t) = "ok" <=> Sound(t) /\ InWindow(t, cclock)
  BY <1>1 DEF JwtAnswer, PolicyAnswer, TooLate, Sound, InWindow
<1>4. JwtAnswer(t) \in {"token expired", "token too old"} => Late(t, cclock)
  BY <1>1 DEF JwtAnswer, PolicyAnswer, TooLate, Late
<1>5. Sound(t) /\ Begun(t, cclock) => JwtAnswer(t) \in {"ok", "token expired", "token too old"}
  BY <1>1 DEF JwtAnswer, PolicyAnswer, TooLate, Sound, Begun
<1> QED BY <1>2, <1>3, <1>4, <1>5

\* Time moves a token's dates one way.
LEMMA TokensAge ==
  ASSUME NEW t \in Tokens, NEW now \in Nat, NEW then \in Nat, now <= then
  PROVE  /\ Late(t, now) => Late(t, then)
         /\ Begun(t, now) => Begun(t, then)
         /\ InWindow(t, now) => ~Late(t, now) /\ Begun(t, now)
<1>1. /\ t.exp.at \in Int /\ t.nbf.at \in Int /\ t.iat.at \in Int
      /\ t.leeway \in Nat /\ t.maxAge \in Int
  BY TokenTypes, ClaimTypes
<1> QED BY <1>1 DEF Late, Begun, InWindow


LEMMA PresentJwtInv ==
  ASSUME JwtInv, PresentJwt
  PROVE  JwtInv'
<1>1. PICK alg \in Algorithms \cup {"none"}, forged \in BOOLEAN, aud \in BOOLEAN, needExp \in BOOLEAN,
           exp \in Claims, nbf \in Claims, iat \in Claims,
           allowed \in {{"HS256"}, Algorithms}, leeway \in Leeways, maxAge \in {Never} \cup MaxAges :
        jwt' = [stage |-> "held", alg |-> alg, forged |-> forged, aud |-> aud, exp |-> exp, nbf |-> nbf,
                iat |-> iat, allowed |-> allowed, leeway |-> leeway, needExp |-> needExp, maxAge |-> maxAge,
                answer |-> "", seen |-> 0, was |-> {}]
  BY DEF PresentJwt
<1>2. allowed \in SUBSET Algorithms
  BY DEF Algorithms
<1>3. jwt' \in Tokens
  BY <1>1, <1>2 DEF Tokens
<1>4. jwt'.answer = "" /\ jwt'.was = {}
  BY <1>1
<1>7. jwt'.seen = 0 /\ cclock' = cclock
  BY <1>1 DEF PresentJwt
<1>5. JwtHistory(jwt)'
  BY <1>4 DEF JwtHistory
<1>6. cclock' \in Nat /\ jwt'.seen <= cclock'
  <2>1. cclock \in Nat
    BY DEF JwtInv
  <2> QED BY <1>7, <2>1
<1> QED BY <1>3, <1>5, <1>6 DEF JwtInv

LEMMA VerifyJwtInv ==
  ASSUME JwtInv, VerifyJwt
  PROVE  JwtInv'
<1> DEFINE A == JwtAnswer(jwt)
           W == jwt.was \cup ({jwt.answer} \ {""})
<1>1. /\ jwt \in Tokens /\ cclock \in Nat /\ cclock' = cclock
      /\ jwt' = [jwt EXCEPT !.answer = A, !.seen = cclock, !.was = W]
  BY DEF JwtInv, VerifyJwt
<1>2. /\ A \in JwtAnswers
      /\ A = "ok" <=> Sound(jwt) /\ InWindow(jwt, cclock)
      /\ A \in {"token expired", "token too old"} => Late(jwt, cclock)
      /\ Sound(jwt) /\ Begun(jwt, cclock) => A \in {"ok", "token expired", "token too old"}
  BY <1>1, VerdictOf
<1>3. /\ jwt.seen \in Nat /\ jwt.answer \in JwtAnswers \cup {""} /\ jwt.was \in SUBSET JwtAnswers
      /\ W \in SUBSET JwtAnswers
  BY <1>1, TokenTypes
<1>4. /\ Late(jwt, jwt.seen) => Late(jwt, cclock)
      /\ Begun(jwt, jwt.seen) => Begun(jwt, cclock)
      /\ InWindow(jwt, cclock) => ~Late(jwt, cclock) /\ Begun(jwt, cclock)
  <2>1. jwt.seen <= cclock
    BY <1>1, TokenTypes DEF JwtInv
  <2>2. /\ Late(jwt, jwt.seen) => Late(jwt, cclock)
        /\ Begun(jwt, jwt.seen) => Begun(jwt, cclock)
    BY <1>1, <1>3, <2>1, TokensAge
  <2>3. cclock <= cclock
    BY <1>1
  <2> QED BY <1>1, <2>2, <2>3, TokensAge
<1>5. /\ W \cap {"token expired", "token too old"} # {} => Late(jwt, cclock)
      /\ "ok" \in W => Sound(jwt) /\ Begun(jwt, cclock)
  BY <1>1, <1>4, TokenTypes DEF JwtInv, JwtHistory
<1> HIDE DEF A, W
<1>6. jwt' \in Tokens
  BY <1>1, <1>2, <1>3 DEF Tokens
<1>7. /\ jwt'.answer = A /\ jwt'.seen = cclock /\ jwt'.was = W
      /\ jwt'.alg = jwt.alg /\ jwt'.allowed = jwt.allowed /\ jwt'.forged = jwt.forged /\ jwt'.aud = jwt.aud
      /\ jwt'.exp = jwt.exp /\ jwt'.nbf = jwt.nbf /\ jwt'.iat = jwt.iat /\ jwt'.leeway = jwt.leeway
      /\ jwt'.needExp = jwt.needExp /\ jwt'.maxAge = jwt.maxAge
  BY <1>1 DEF Tokens
<1>8. /\ Sound(jwt)' <=> Sound(jwt)
      /\ InWindow(jwt, jwt.seen)' <=> InWindow(jwt, cclock)
      /\ Late(jwt, jwt.seen)' <=> Late(jwt, cclock)
      /\ Begun(jwt, jwt.seen)' <=> Begun(jwt, cclock)
  BY <1>7 DEF Sound, InWindow, Late, Begun
<1>9. A # ""
  BY <1>2 DEF JwtAnswers
<1>10. "ok" \in W => A \in {"ok", "token expired", "token too old"}
  BY <1>2, <1>5
<1>11. /\ (W \cup {A}) \cap {"token expired", "token too old"} # {} => Late(jwt, cclock)
       /\ "ok" \in W \cup {A} => Sound(jwt) /\ Begun(jwt, cclock)
  BY <1>2, <1>4, <1>5
<1>12. cclock' \in Nat /\ jwt'.seen <= cclock'
  BY <1>1, <1>7
<1>13. JwtHistory(jwt)'
  BY <1>2, <1>7, <1>8, <1>9, <1>10, <1>11 DEF JwtHistory
<1> QED BY <1>6, <1>12, <1>13 DEF JwtInv

LEMMA JwtUnchanged ==
  ASSUME JwtInv, jwt' = jwt, cclock' \in Nat, cclock <= cclock'
  PROVE  JwtInv'
<1>1. jwt # NoJwt => jwt.seen \in Nat
  BY TokenTypes DEF JwtInv
<1>2. jwt # NoJwt => jwt'.seen <= cclock'
  BY <1>1 DEF JwtInv
<1>3. jwt # NoJwt => JwtHistory(jwt)'
  BY DEF JwtInv, JwtHistory, Sound, InWindow, Late, Begun
<1> QED BY <1>2, <1>3 DEF JwtInv

-----------------------------------------------------------------------------
(* password_verify *)

RowFaults ==
  {"", "unsupported hash format", "incomplete hash", "unsupported hash algorithm", "unusable hash",
   "hash parameters out of range"}

LoginRecords ==
  [stage : {"verify", "dummy", "minted", "compare", "done"}, known : BOOLEAN, row : UserRows,
   password : {"right", "wrong", "long"}, cost : Nat, minted : BOOLEAN,
   late : BOOLEAN, ok : BOOLEAN, reason : RowFaults]

\* What a login has cost when it gets where it is.
SpentInv(r) ==
  /\ r.stage \in {"verify", "dummy"} => r.cost = 0
  /\ r.stage \in {"verify", "dummy", "minted", "compare"} =>
       r.password # "long" /\ ~r.ok /\ r.reason = "" /\ r.known = (r.stage = "verify")
  /\ r.stage \in {"verify", "dummy"} => ~r.minted
  /\ r.stage = "minted" => r.minted /\ r.cost = 1
  /\ r.stage = "compare" => r.cost = IF r.minted THEN 1 ELSE 0
  /\ r.late => ~r.minted
  /\ r.stage = "done" =>
       /\ r.password = "long" => r.cost = 0 /\ ~r.minted /\ ~r.ok /\ r.reason = ""
       /\ ~r.known => ~r.ok /\ r.reason = ""
       /\ r.password # "long" /\ ~r.known => r.cost = 1 + (IF r.minted THEN 1 ELSE 0)
       /\ r.password # "long" /\ r.known =>
            /\ r.cost = IF RowFault(r.row) = "" THEN 1 ELSE 0
            /\ ~r.minted
            /\ r.ok => r.password = "right" /\ RowFault(r.row) = ""
            /\ r.reason = RowFault(r.row)

\* While the process has no decoy, no login is past the look at it, or began after one was.
KeptInv(r) ==
  decoy = {} => r.stage # "compare" /\ ~r.late /\ (r.stage = "done" => r.known \/ r.password = "long")

LoginInv(l) ==
  /\ login[l] \in {NoLogin} \cup LoginRecords
  /\ login[l] # NoLogin => SpentInv(login[l]) /\ KeptInv(login[l])

CredentialsInv ==
  /\ JwtInv
  /\ DOMAIN login = Logins /\ \A l \in Logins : LoginInv(l)


LEMMA LoginTypes ==
  ASSUME NEW r \in LoginRecords
  PROVE  r # NoLogin
<1>1. r.stage \in {"verify", "dummy", "minted", "compare", "done"}
  BY DEF LoginRecords
<1>2. NoLogin.stage = "idle"
  BY DEF NoLogin
<1> QED BY <1>1, <1>2

\* A login that has begun, with its part of the invariant.
LEMMA LoginFacts ==
  ASSUME CredentialsInv, NEW l \in Logins, login[l].stage # "idle"
  PROVE  /\ login[l] \in LoginRecords /\ login[l] # NoLogin /\ LoginInv(l)
         /\ login[l].cost \in Nat /\ login[l].minted \in BOOLEAN /\ login[l].ok \in BOOLEAN
         /\ login[l].known \in BOOLEAN /\ login[l].late \in BOOLEAN
<1>1. NoLogin.stage = "idle"
  BY DEF NoLogin
<1>2. login[l] \in LoginRecords /\ LoginInv(l)
  BY <1>1 DEF CredentialsInv, LoginInv, SpentInv, KeptInv
<1> QED BY <1>1, <1>2 DEF LoginRecords

\* A step of one login leaves the others where they are.
LEMMA LoginStep ==
  ASSUME CredentialsInv, NEW l \in Logins, NEW rec, SetLogin(l, rec), jwt' = jwt, cclock' = cclock,
         LoginInv(l)', decoy' = {} => decoy = {}
  PROVE  CredentialsInv'
<1>1. \A k \in Logins \ {l} : login'[k] = login[k]
  BY DEF CredentialsInv, SetLogin
<1>2. ASSUME NEW k \in Logins, k # l PROVE LoginInv(k)'
  <2>1. login'[k] = login[k] /\ LoginInv(k)
    BY <1>1, <1>2 DEF CredentialsInv
  <2>2. login[k] # NoLogin => SpentInv(login[k])' /\ KeptInv(login[k])'
    BY <2>1 DEF LoginInv, SpentInv, KeptInv
  <2> QED BY <2>1, <2>2 DEF LoginInv
<1>3. cclock' \in Nat /\ cclock <= cclock'
  BY DEF CredentialsInv, JwtInv
<1>4. JwtInv'
  BY <1>3, JwtUnchanged DEF CredentialsInv
<1>5. DOMAIN login' = Logins
  BY DEF CredentialsInv, SetLogin
<1> QED BY <1>2, <1>4, <1>5 DEF CredentialsInv

\* The record of a login that begins.
LEMMA NewLogin ==
  ASSUME NEW st, NEW kn, NEW ro, NEW pw, NEW la, NEW r,
         r = [stage |-> st, known |-> kn, row |-> ro, password |-> pw, cost |-> 0,
              minted |-> FALSE, late |-> la, ok |-> FALSE, reason |-> ""]
  PROVE  /\ r.stage = st /\ r.known = kn /\ r.password = pw /\ r.cost = 0 /\ r.reason = ""
         /\ r.minted = FALSE /\ r.ok = FALSE /\ r.late = la
OBVIOUS

LEMMA BeginLoginInv ==
  ASSUME CredentialsInv, NEW l \in Logins, BeginLogin(l)
  PROVE  CredentialsInv'
<1>1. PICK known \in BOOLEAN, row \in UserRows, password \in {"right", "wrong", "long"} :
        /\ known \/ row = "argon2"
        /\ SetLogin(l, [stage |-> IF password = "long" THEN "done" ELSE IF known THEN "verify" ELSE "dummy",
                        known |-> known, row |-> row, password |-> password, cost |-> 0, minted |-> FALSE,
                        late |-> DummyEnded, ok |-> FALSE, reason |-> ""])
  BY DEF BeginLogin
<1> DEFINE stage == IF password = "long" THEN "done" ELSE IF known THEN "verify" ELSE "dummy"
           late == DummyEnded
           r == [stage |-> stage, known |-> known, row |-> row, password |-> password, cost |-> 0,
                 minted |-> FALSE, late |-> late, ok |-> FALSE, reason |-> ""]
<1>6. late \in BOOLEAN
  BY DEF DummyEnded
<1>7. decoy = {} => ~late
  <2> SUFFICES ASSUME NEW k \in Logins, login[k].stage = "done", decoy = {}
               PROVE  login[k].known \/ login[k].password = "long"
    BY DEF DummyEnded
  <2> QED BY LoginFacts DEF LoginInv, SpentInv, KeptInv
<1> HIDE DEF late
<1>2. r \in LoginRecords
  BY <1>6 DEF LoginRecords, RowFaults
<1>3. login'[l] = r /\ UNCHANGED <<cclock, jwt, decoy>>
  BY <1>1 DEF BeginLogin, SetLogin, CredentialsInv, late
<1>4. LoginInv(l)'
  <2>1. stage \in {"done", "verify", "dummy"} /\ (stage = "done" <=> password = "long")
        /\ (stage = "verify" => known) /\ (stage = "dummy" => ~known)
    OBVIOUS
  <2> HIDE DEF stage
  <2>2. login'[l] \in LoginRecords
    BY <1>2, <1>3
  <2>3. /\ login'[l].stage = stage /\ login'[l].known = known /\ login'[l].password = password
        /\ login'[l].cost = 0 /\ login'[l].minted = FALSE /\ login'[l].ok = FALSE /\ login'[l].reason = ""
        /\ login'[l].late = late
    <3>1. /\ r.stage = stage /\ r.known = known /\ r.password = password
          /\ r.cost = 0 /\ r.minted = FALSE /\ r.ok = FALSE /\ r.reason = "" /\ r.late = late
      BY NewLogin
    <3> HIDE DEF r
    <3> QED BY <1>3, <3>1
  <2>4. login'[l].known \in BOOLEAN
    BY <2>2 DEF LoginRecords
  <2> QED BY <1>3, <1>6, <1>7, <2>4, <2>1, <2>2, <2>3 DEF LoginInv, SpentInv, KeptInv
<1> QED BY <1>1, <1>3, <1>4, LoginStep

LEMMA VerifyStoredInv ==
  ASSUME CredentialsInv, NEW l \in Logins, VerifyStored(l)
  PROVE  CredentialsInv'
<1> DEFINE r == login[l]
           fault == RowFault(r.row)
           cost == IF fault = "" THEN r.cost + 1 ELSE r.cost
           ok == fault = "" /\ r.password = "right"
           next == [r EXCEPT !.stage = "done", !.reason = fault, !.cost = cost, !.ok = ok]
<1>1. SetLogin(l, next) /\ r.stage = "verify" /\ UNCHANGED <<cclock, jwt, decoy>>
  BY DEF VerifyStored
<1>2. r \in LoginRecords /\ r # NoLogin
  <2>1. NoLogin.stage = "idle"
    BY DEF NoLogin
  <2> QED BY <1>1, <2>1 DEF CredentialsInv, LoginInv, SpentInv, KeptInv
<1>3. /\ r.known /\ r.cost = 0 /\ r.password # "long" /\ ~r.minted /\ r.cost \in Nat
      /\ r.row \in UserRows /\ (decoy = {} => ~r.late)
  <2>1. LoginInv(l)
    BY DEF CredentialsInv
  <2>2. r.cost \in Nat /\ r.row \in UserRows /\ r.known \in BOOLEAN
    BY <1>2 DEF LoginRecords
  <2> QED BY <1>1, <1>2, <2>1, <2>2 DEF LoginInv, SpentInv, KeptInv
<1>4. fault \in RowFaults
  BY <1>3 DEF RowFault, RowFaults, UserRows
<1>5. cost = IF fault = "" THEN 1 ELSE 0
  BY <1>3
<1>6. cost \in Nat /\ ok \in BOOLEAN
  <2>1. cost = 0 \/ cost = 1
    BY <1>5
  <2> HIDE DEF cost
  <2> QED BY <2>1
<1> HIDE DEF cost, ok, fault
<1>7. next \in LoginRecords
  BY <1>2, <1>4, <1>6 DEF LoginRecords
<1>8. /\ next.stage = "done" /\ next.reason = fault /\ next.cost = cost /\ next.ok = ok
      /\ next.known = r.known /\ next.password = r.password /\ next.minted = r.minted /\ next.row = r.row
      /\ next.late = r.late
  BY <1>2 DEF LoginRecords
<1>9. login'[l] = next
  BY <1>1 DEF SetLogin, CredentialsInv
<1> HIDE DEF next
<1>10. RowFault(login'[l].row) = fault /\ (ok => fault = "" /\ r.password = "right")
  BY <1>8, <1>9 DEF fault, ok
<1>11. LoginInv(l)'
  BY <1>1, <1>3, <1>5, <1>7, <1>8, <1>9, <1>10 DEF LoginInv, SpentInv, KeptInv
<1> QED BY <1>1, <1>11, LoginStep


LEMMA LookForDecoyInv ==
  ASSUME CredentialsInv, NEW l \in Logins, LookForDecoy(l)
  PROVE  CredentialsInv'
<1> DEFINE r == login[l]
           m == decoy = {}
           next == IF decoy = {} THEN [r EXCEPT !.stage = "minted", !.minted = TRUE, !.cost = @ + 1]
                   ELSE [r EXCEPT !.stage = "compare"]
<1>1. r.stage = "dummy" /\ SetLogin(l, next) /\ UNCHANGED <<cclock, jwt, decoy>>
  BY DEF LookForDecoy
<1>8. r \in LoginRecords /\ r.minted \in BOOLEAN /\ r.cost \in Nat
  BY <1>1, LoginFacts
<1>9. r.cost = 0
  BY <1>1, LoginFacts DEF LoginInv, SpentInv, KeptInv
<1>2. /\ ~r.minted /\ (decoy = {} => ~r.late) /\ r.late \in BOOLEAN
      /\ r.minted \in BOOLEAN /\ r.ok \in BOOLEAN /\ r.known \in BOOLEAN
      /\ r.password # "long" /\ ~r.ok /\ r.reason = "" /\ ~r.known
  BY <1>1, LoginFacts DEF LoginInv, SpentInv, KeptInv
<1>3. login'[l] = next
  BY <1>1 DEF SetLogin, CredentialsInv
<1>4. ASSUME decoy = {} PROVE LoginInv(l)'
  <2>1. login'[l] = [r EXCEPT !.stage = "minted", !.minted = TRUE, !.cost = 1]
    <3>1. login'[l] = [r EXCEPT !.stage = "minted", !.minted = TRUE, !.cost = r.cost + 1]
      BY <1>3, <1>4
    <3>2. r.cost + 1 = 1
      BY <1>9
    <3> HIDE DEF r
    <3> QED BY <3>1, <3>2
  <2> HIDE DEF r
  <2>2. /\ login'[l] \in LoginRecords /\ login'[l].stage = "minted" /\ login'[l].minted = TRUE
        /\ login'[l].cost = 1 /\ login'[l].known = r.known /\ login'[l].password = r.password
        /\ login'[l].ok = r.ok /\ login'[l].reason = r.reason /\ login'[l].late = r.late
    <3>1. login'[l] \in LoginRecords
      <4> DEFINE half == [r EXCEPT !.stage = "minted", !.cost = 1]
      <4>1. half \in LoginRecords
        BY <1>8 DEF LoginRecords
      <4>2. login'[l] = [half EXCEPT !.minted = TRUE]
        BY <1>8, <2>1 DEF LoginRecords
      <4> HIDE DEF half
      <4> QED BY <4>1, <4>2 DEF LoginRecords
    <3>2. /\ login'[l].stage = "minted" /\ login'[l].cost = 1
          /\ login'[l].known = r.known /\ login'[l].password = r.password
          /\ login'[l].ok = r.ok /\ login'[l].reason = r.reason /\ login'[l].late = r.late
      BY <1>8, <2>1 DEF LoginRecords
    <3>3. login'[l].minted = TRUE
      BY <1>8, <2>1 DEF LoginRecords
    <3> QED BY <3>1, <3>2, <3>3
  <2> QED BY <1>1, <1>2, <1>4, <1>9, <2>2 DEF LoginInv, SpentInv, KeptInv
<1>5. ASSUME decoy # {} PROVE LoginInv(l)'
  <2>1. login'[l] = [r EXCEPT !.stage = "compare", !.minted = r.minted, !.cost = r.cost]
    <3>1. login'[l] = [r EXCEPT !.stage = "compare"]
      BY <1>3, <1>5
    <3> HIDE DEF r
    <3> QED BY <1>8, <3>1 DEF LoginRecords
  <2> HIDE DEF r
  <2>2. /\ login'[l] \in LoginRecords /\ login'[l].stage = "compare" /\ login'[l].minted = r.minted
        /\ login'[l].cost = r.cost /\ login'[l].known = r.known /\ login'[l].password = r.password
        /\ login'[l].ok = r.ok /\ login'[l].reason = r.reason /\ login'[l].late = r.late
    BY <1>8, <2>1 DEF LoginRecords
  <2> QED BY <1>1, <1>2, <1>5, <1>9, <2>2 DEF LoginInv, SpentInv, KeptInv
<1>6. LoginInv(l)'
  BY <1>4, <1>5
<1> QED BY <1>1, <1>6, LoginStep

LEMMA KeepDecoyInv ==
  ASSUME CredentialsInv, NEW l \in Logins, KeepDecoy(l)
  PROVE  CredentialsInv'
<1> DEFINE r == login[l]
<1>1. /\ r.stage = "minted" /\ SetLogin(l, [r EXCEPT !.stage = "compare"]) /\ decoy' = Decoys(l)
      /\ UNCHANGED <<cclock, jwt>>
  BY DEF KeepDecoy
<1>8. r \in LoginRecords /\ r.minted \in BOOLEAN /\ r.cost \in Nat
  BY <1>1, LoginFacts
<1>9. r.cost = 1
  BY <1>1, LoginFacts DEF LoginInv, SpentInv, KeptInv
<1>2. /\ r.minted /\ ~r.late /\ r.late \in BOOLEAN
      /\ r.minted \in BOOLEAN /\ r.ok \in BOOLEAN /\ r.known \in BOOLEAN
      /\ r.password # "long" /\ ~r.ok /\ r.reason = "" /\ ~r.known
  BY <1>1, LoginFacts DEF LoginInv, SpentInv, KeptInv
<1>3. login'[l] = [r EXCEPT !.stage = "compare", !.minted = r.minted, !.cost = r.cost]
  <2>1. login'[l] = [r EXCEPT !.stage = "compare"]
    BY <1>1 DEF SetLogin, CredentialsInv
  <2> HIDE DEF r
  <2> QED BY <1>8, <2>1 DEF LoginRecords
<1>4. /\ login'[l] \in LoginRecords /\ login'[l].stage = "compare" /\ login'[l].minted = r.minted
      /\ login'[l].cost = r.cost /\ login'[l].known = r.known /\ login'[l].password = r.password
      /\ login'[l].ok = r.ok /\ login'[l].reason = r.reason /\ login'[l].late = r.late
  <2> HIDE DEF r
  <2> QED BY <1>8, <1>3 DEF LoginRecords
<1>6. decoy' # {}
  BY <1>1 DEF Decoys
<1>5. LoginInv(l)'
  <2> HIDE DEF r
  <2> QED BY <1>2, <1>9, <1>4, <1>6 DEF LoginInv, SpentInv, KeptInv
<1> QED BY <1>1, <1>5, <1>6, LoginStep

LEMMA CompareDecoyInv ==
  ASSUME CredentialsInv, NEW l \in Logins, CompareDecoy(l)
  PROVE  CredentialsInv'
<1> DEFINE r == login[l]
           c == IF r.minted THEN 2 ELSE 1
<1>1. /\ r.stage = "compare" /\ SetLogin(l, [r EXCEPT !.stage = "done", !.cost = @ + 1])
      /\ UNCHANGED <<cclock, jwt, decoy>>
  BY DEF CompareDecoy
<1>8. r \in LoginRecords /\ r.minted \in BOOLEAN /\ r.cost \in Nat
  BY <1>1, LoginFacts
<1>9. r.cost = IF r.minted THEN 1 ELSE 0
  BY <1>1, LoginFacts DEF LoginInv, SpentInv, KeptInv
<1>2. /\ decoy # {} /\ (r.late => ~r.minted) /\ r.late \in BOOLEAN
      /\ r.minted \in BOOLEAN /\ r.ok \in BOOLEAN /\ r.known \in BOOLEAN
      /\ r.password # "long" /\ ~r.ok /\ r.reason = "" /\ ~r.known
  BY <1>1, LoginFacts DEF LoginInv, SpentInv, KeptInv
<1>3. r.cost + 1 = c /\ c \in Nat
  BY <1>9
<1>4. login'[l] = [r EXCEPT !.stage = "done", !.minted = r.minted, !.cost = c]
  <2>1. login'[l] = [r EXCEPT !.stage = "done", !.cost = c]
    <3>1. login'[l] = [r EXCEPT !.stage = "done", !.cost = r.cost + 1]
      BY <1>1 DEF SetLogin, CredentialsInv
    <3> HIDE DEF r, c
    <3> QED BY <1>3, <3>1
  <2> HIDE DEF r, c
  <2> QED BY <1>8, <2>1 DEF LoginRecords
<1>5. /\ login'[l] \in LoginRecords /\ login'[l].stage = "done" /\ login'[l].minted = r.minted
      /\ login'[l].cost = c /\ login'[l].known = r.known /\ login'[l].password = r.password
      /\ login'[l].ok = r.ok /\ login'[l].reason = r.reason /\ login'[l].late = r.late
  <2> HIDE DEF r, c
  <2> QED BY <1>8, <1>3, <1>4 DEF LoginRecords
<1>6. LoginInv(l)'
  <2>1. c = 1 + (IF r.minted THEN 1 ELSE 0)
    BY <1>9
  <2> HIDE DEF r, c
  <2> QED BY <1>1, <1>2, <1>5, <2>1 DEF LoginInv, SpentInv, KeptInv
<1> QED BY <1>1, <1>6, LoginStep


LEMMA CredentialsInitial == CredentialsInit => CredentialsInv
<1> SUFFICES ASSUME CredentialsInit PROVE CredentialsInv
  OBVIOUS
<1>1. JwtInv
  BY DEF CredentialsInit, JwtInv
<1>2. \A l \in Logins : LoginInv(l)
  BY DEF CredentialsInit, LoginInv, SpentInv, KeptInv
<1> QED BY <1>1, <1>2 DEF CredentialsInit, CredentialsInv

LEMMA CredentialsInductive == CredentialsInv /\ [CredentialsNext]_credentialVars => CredentialsInv'
<1> SUFFICES ASSUME CredentialsInv, [CredentialsNext]_credentialVars PROVE CredentialsInv'
  OBVIOUS
<1>1. ASSUME login' = login, decoy' = decoy, JwtInv' PROVE CredentialsInv'
  <2>1. \A l \in Logins : LoginInv(l)'
    BY <1>1 DEF CredentialsInv, LoginInv, SpentInv, KeptInv
  <2> QED BY <1>1, <2>1 DEF CredentialsInv
<1>2. CASE PresentJwt
  BY <1>1, <1>2, PresentJwtInv DEF CredentialsInv, PresentJwt
<1>3. CASE VerifyJwt
  BY <1>1, <1>3, VerifyJwtInv DEF CredentialsInv, VerifyJwt
<1>4. CASE TimePasses
  <2>1. cclock' \in Nat /\ cclock <= cclock' /\ UNCHANGED <<jwt, login, decoy>>
    BY <1>4 DEF CredentialsInv, JwtInv, TimePasses
  <2> QED BY <1>1, <2>1, JwtUnchanged DEF CredentialsInv
<1>5. CASE UNCHANGED credentialVars
  <2>1. cclock' \in Nat /\ cclock <= cclock' /\ UNCHANGED <<jwt, login, decoy>>
    BY <1>5 DEF CredentialsInv, JwtInv, credentialVars
  <2> QED BY <1>1, <2>1, JwtUnchanged DEF CredentialsInv
<1>6. ASSUME NEW l \in Logins,
             BeginLogin(l) \/ VerifyStored(l) \/ LookForDecoy(l) \/ KeepDecoy(l) \/ CompareDecoy(l)
      PROVE  CredentialsInv'
  BY <1>6, BeginLoginInv, VerifyStoredInv, LookForDecoyInv, KeepDecoyInv, CompareDecoyInv
<1> QED BY <1>2, <1>3, <1>4, <1>5, <1>6 DEF CredentialsNext

LEMMA CredentialsInvHolds == CredentialsSpec => []CredentialsInv
BY CredentialsInitial, CredentialsInductive, PTL DEF CredentialsSpec

\* A token's answers age one way.
LEMMA InvAges == CredentialsInv => JwtOnlyAges
<1> SUFFICES ASSUME CredentialsInv, jwt # NoJwt
             PROVE  JwtOnlyAges
  BY DEF JwtOnlyAges
<1>1. jwt \in Tokens /\ JwtHistory(jwt)
  BY DEF CredentialsInv, JwtInv
<1>2. jwt.seen \in Nat
  BY <1>1, TokenTypes
<1>3. jwt.seen <= jwt.seen
  BY <1>2
<1>4. InWindow(jwt, jwt.seen) => ~Late(jwt, jwt.seen)
  BY <1>1, <1>2, <1>3, TokensAge
<1> QED BY <1>1, <1>4 DEF JwtHistory, JwtOnlyAges

\* What a login costs and says when it has ended.
LEMMA InvTellsNothing == CredentialsInv => LoginTellsNothing
<1> SUFFICES ASSUME CredentialsInv, NEW l \in Logins, login[l].stage = "done"
             PROVE  LET r == login[l]
                    IN  /\ r.ok => r.known /\ r.password = "right" /\ RowFault(r.row) = ""
                        /\ r.reason = IF AtFault(r) THEN RowFault(r.row) ELSE ""
                        /\ r.cost = IF r.password = "long" \/ AtFault(r) THEN 0 ELSE IF r.minted THEN 2 ELSE 1
                        /\ r.minted => ~r.known /\ ~r.late
  BY DEF LoginTellsNothing
<1> DEFINE r == login[l]
<1>1. /\ LoginInv(l) /\ r # NoLogin /\ r.password \in {"right", "wrong", "long"}
      /\ r.known \in BOOLEAN /\ r.minted \in BOOLEAN /\ r.late \in BOOLEAN /\ r.ok \in BOOLEAN
  BY LoginFacts DEF LoginRecords
<1>2. CASE r.password = "long"
  BY <1>1, <1>2 DEF LoginInv, SpentInv, KeptInv, AtFault
<1>3. CASE r.password # "long" /\ r.known
  BY <1>1, <1>3 DEF LoginInv, SpentInv, KeptInv, AtFault
<1>4. CASE r.password # "long" /\ ~r.known
  <2>2. r.cost = 1 + (IF r.minted THEN 1 ELSE 0)
    BY <1>1, <1>4 DEF LoginInv, SpentInv
  <2>1. r.cost = IF r.minted THEN 2 ELSE 1
    BY <2>2
  <2> QED BY <1>1, <1>4, <2>1 DEF LoginInv, SpentInv, KeptInv, AtFault
<1> QED BY <1>1, <1>2, <1>3, <1>4

\* Credentials hold: a token verifies exactly when it is sound and in its window, so its
\* answers only age; and a login costs one hash and tells only whether it passed, but for
\* the rows at fault, the overlong passwords and the first decoy that the property
\* names, however many run at once.  (jwt.verify, ClaimPolicy::check, password_verify,
\* dummy_verify)
THEOREM CredentialsProved == CredentialsSpec => []CredentialsHold
<1>1. CredentialsInv => CredentialsHold
  BY InvAges, InvTellsNothing DEF CredentialsHold
<1> QED BY <1>1, CredentialsInvHolds, PTL


-----------------------------------------------------------------------------
(* Sessions and CSRF tokens *)

\* What the server signs: one save's data with its expiry inside, or a token.
SessionCookie(d, at) ==
  [name |-> "session", payload |-> d, exp |-> IF MaxAge > 0 THEN at + MaxAge ELSE 0, at |-> at, wrote |-> d]
CsrfCookie(token, at) == [name |-> "csrf", payload |-> token, exp |-> 0, at |-> at, wrote |-> token]
CsrfTokens == {TokenNo(n) : n \in Nat}
Cookies ==
  {SessionCookie(d, at) : d \in SUBSET (DataKeys \ Reserved), at \in Nat}
    \cup {CsrfCookie(token, at) : token \in CsrfTokens, at \in Nat}

\* The Set-Cookie lines there can be.
CookieLines ==
  {BuildCookie("session", NoCookie, 0)}
    \cup {BuildCookie(name, c, age) : name \in {"session", "csrf"}, c \in Cookies, age \in Nat \cup {Unset}}

RequestFields ==
  {"stage", "visitor", "state", "id", "number", "mw", "unsafe", "cross", "cookie", "tcookie", "supplied", "issue",
   "token", "session", "data", "found", "loaded", "saves", "out", "asked"}

\* A request's fields.
RequestTypes(r) ==
  /\ DOMAIN r = RequestFields
  /\ r.stage \in {"run", "refused", "answered", "failed"}
  /\ r.visitor \in Visitors /\ r.state \in LuaStates /\ r.id \in Nat /\ r.number \in Nat
  /\ r.mw \in BOOLEAN /\ r.unsafe \in BOOLEAN /\ r.cross \in BOOLEAN /\ r.issue \in BOOLEAN
  /\ r.session \in BOOLEAN
  /\ r.token \in CsrfTokens /\ r.data \in SUBSET DataKeys /\ r.loaded \in Nat /\ r.out \in Seq(CookieLines)

\* A token on the page is the request's own; one that is not was another's of this id.
AskedInv(r) ==
  r.asked # NoToken => IF r.mw THEN r.asked = r.token ELSE TrustRequestId /\ r.id < r.number

\* What its cookies are, and what was made of them.
RequestInv(r) ==
  /\ RequestTypes(r)
  /\ r.cookie = NoCookie \/ r.cookie \in Cookies
  /\ r.tcookie = NoCookie \/ r.tcookie \in Cookies
  /\ r.issue <=> r.mw /\ r.tcookie.name # "csrf"
  /\ r.tcookie.name = "csrf" => r.token = r.tcookie.payload
  /\ r.mw /\ r.unsafe /\ (r.stage = "run" \/ r.session) => TokenOk(r)
  /\ AskedInv(r)
  /\ r.stage = "answered" /\ r.issue =>
       \E i \in DOMAIN r.out : r.out[i].value.name = "csrf" /\ r.out[i].value.payload = r.token
  /\ r.session =>
       r.found = IF r.cookie.name = "session" /\ (MaxAge > 0 => r.loaded < r.cookie.at + MaxAge)
                 THEN r.cookie.wrote ELSE {}

\* Its place among the others: its token's cookie is one of its visitor's, and while it
\* runs the slot of its Lua state is its own, another id's, or what an earlier request
\* of the same id left there.
PlaceInv(r) ==
  /\ r.tcookie = NoCookie \/ r.tcookie \in kept[r.visitor]
  /\ r.stage = "run" /\ slot[r.state].id = r.id =>
       IF r.mw THEN slot[r.state].token = r.token ELSE TrustRequestId /\ r.id < r.number

PagesInv(v) == \A p \in pages[v] : p.mw => \E c \in kept[v] : c.name = "csrf" /\ c.payload = p.token

SessionInv ==
  /\ sclock \in Nat /\ sent \in Nat
  /\ DOMAIN exch = Exchanges /\ DOMAIN slot = LuaStates
  /\ DOMAIN pages = Visitors /\ kept \in [Visitors -> SUBSET Cookies]
  /\ \A s \in LuaStates : slot[s].id \in Nat /\ slot[s].id <= sent
  /\ \A x \in Exchanges : exch[x] = Idle \/ (RequestInv(exch[x]) /\ PlaceInv(exch[x]))
  /\ \A v \in Visitors : PagesInv(v)


LEMMA CookieFacts ==
  ASSUME NEW c \in Cookies
  PROVE  /\ c.name \in {"session", "csrf"} /\ c # NoCookie /\ c.payload = c.wrote /\ c.at \in Nat
         /\ c.name = "csrf" => c.payload \in CsrfTokens
         /\ c.name = "session" =>
              c.payload \ {"_exp"} = c.wrote /\ c.exp = IF MaxAge > 0 THEN c.at + MaxAge ELSE 0
<1>1. NoCookie.name = "none"
  BY DEF NoCookie
<1>2. ASSUME NEW d \in SUBSET (DataKeys \ Reserved), NEW at \in Nat, c = SessionCookie(d, at)
      PROVE  /\ c.name = "session" /\ c.payload = c.wrote /\ c.at \in Nat
             /\ c.payload \ {"_exp"} = c.wrote /\ c.exp = IF MaxAge > 0 THEN c.at + MaxAge ELSE 0
  <2>1. d \ {"_exp"} = d
    BY <1>2 DEF Reserved
  <2>2. /\ c.name = "session" /\ c.payload = d /\ c.wrote = d /\ c.at = at
        /\ c.exp = IF MaxAge > 0 THEN at + MaxAge ELSE 0
    BY <1>2 DEF SessionCookie
  <2> QED BY <1>2, <2>1, <2>2
<1>3. ASSUME NEW token \in CsrfTokens, NEW at \in Nat, c = CsrfCookie(token, at)
      PROVE  c.name = "csrf" /\ c.payload = c.wrote /\ c.at \in Nat /\ c.payload \in CsrfTokens
  BY <1>3 DEF CsrfCookie
<1>4. CASE c \in {SessionCookie(d, at) : d \in SUBSET (DataKeys \ Reserved), at \in Nat}
  <2>1. PICK d \in SUBSET (DataKeys \ Reserved), at \in Nat : c = SessionCookie(d, at)
    BY <1>4
  <2>2. /\ c.name = "session" /\ c.payload = c.wrote /\ c.at \in Nat
        /\ c.payload \ {"_exp"} = c.wrote /\ c.exp = IF MaxAge > 0 THEN c.at + MaxAge ELSE 0
    BY <1>2, <2>1
  <2> QED BY <1>1, <2>2
<1>5. CASE c \in {CsrfCookie(token, at) : token \in CsrfTokens, at \in Nat}
  <2>1. PICK token \in CsrfTokens, at \in Nat : c = CsrfCookie(token, at)
    BY <1>5
  <2>2. c.name = "csrf" /\ c.payload = c.wrote /\ c.at \in Nat /\ c.payload \in CsrfTokens
    BY <1>3, <2>1
  <2> QED BY <1>1, <2>2
<1> QED BY <1>4, <1>5 DEF Cookies

\* Whatever the caller's options are, a line is out of scripts' reach.
LEMMA LineFacts ==
  ASSUME NEW l \in CookieLines
  PROVE  /\ l.opts.http_only /\ (l.value = NoCookie => l.opts.max_age = 0)
         /\ l.value \in Cookies \cup {NoCookie}
<1>1. ASSUME NEW f, NEW g, NEW k \in DOMAIN f
      PROVE  k \in DOMAIN Extended(f, g) /\ Extended(f, g)[k] = f[k]
  BY DEF Extended
<1>2. ASSUME NEW f, NEW g, NEW k \in DOMAIN g, k \notin DOMAIN f
      PROVE  k \in DOMAIN Extended(f, g) /\ Extended(f, g)[k] = g[k]
  BY <1>2 DEF Extended
<1>3. ASSUME NEW defaults
      PROVE  /\ "http_only" \in DOMAIN MergeCookieOpts(defaults)
             /\ MergeCookieOpts(defaults)["http_only"] = TRUE
  <2> DEFINE base == [http_only |-> TRUE]
  <2>1. "http_only" \in DOMAIN base /\ base["http_only"] = TRUE
    OBVIOUS
  <2> HIDE DEF base
  <2>2. MergeCookieOpts(defaults) = Extended(base, Extended(CallerOpts, defaults))
    BY DEF MergeCookieOpts, base
  <2> QED BY <1>1, <2>1, <2>2
<1>4. ASSUME NEW age PROVE "http_only" \in DOMAIN CookieOpts(age) /\ CookieOpts(age)["http_only"] = TRUE
  <2> DEFINE merged == MergeCookieOpts([path |-> "/", same_site |-> "Lax"])
             top == [max_age |-> age]
  <2>1. "http_only" \in DOMAIN merged /\ merged["http_only"] = TRUE
    BY <1>3
  <2>2. "http_only" \notin DOMAIN top
    OBVIOUS
  <2> HIDE DEF merged, top
  <2>3. CookieOpts(age) = IF age = Unset THEN merged ELSE Extended(top, merged)
    BY DEF CookieOpts, merged, top
  <2> QED BY <1>2, <2>1, <2>2, <2>3
<1>5. "max_age" \in DOMAIN CookieOpts(0) /\ CookieOpts(0)["max_age"] = 0
  <2> DEFINE merged == MergeCookieOpts([path |-> "/", same_site |-> "Lax"])
             top == [max_age |-> 0]
  <2>1. "max_age" \in DOMAIN top /\ top["max_age"] = 0
    OBVIOUS
  <2>2. 0 # Unset
    BY DEF Unset
  <2> HIDE DEF merged, top
  <2>3. CookieOpts(0) = Extended(top, merged)
    BY <2>2 DEF CookieOpts, merged, top
  <2> QED BY <1>1, <2>1, <2>3
<1>6. ASSUME NEW name, NEW value, NEW age
      PROVE  BuildCookie(name, value, age).opts.http_only /\ BuildCookie(name, value, age).value = value
  <2>1. /\ BuildCookie(name, value, age).opts = Extended(CookieOpts(age), [secure |-> SecureDefault])
        /\ BuildCookie(name, value, age).value = value
    BY DEF BuildCookie
  <2>2. Extended(CookieOpts(age), [secure |-> SecureDefault])["http_only"] = TRUE
    <3> DEFINE f == CookieOpts(age)
               g == [secure |-> SecureDefault]
    <3>1. "http_only" \in DOMAIN f /\ f["http_only"] = TRUE
      BY <1>4
    <3> HIDE DEF f, g
    <3>2. Extended(f, g)["http_only"] = f["http_only"]
      BY <1>1, <3>1
    <3> QED BY <3>1, <3>2 DEF f, g
  <2> QED BY <2>1, <2>2
<1>7. BuildCookie("session", NoCookie, 0).opts.max_age = 0
  <2>1. BuildCookie("session", NoCookie, 0).opts = Extended(CookieOpts(0), [secure |-> SecureDefault])
    BY DEF BuildCookie
  <2>2. Extended(CookieOpts(0), [secure |-> SecureDefault])["max_age"] = 0
    BY <1>1, <1>5
  <2> QED BY <2>1, <2>2
<1>8. \A c \in Cookies : c # NoCookie
  BY CookieFacts
<1>9. CASE l = BuildCookie("session", NoCookie, 0)
  BY <1>6, <1>7, <1>9
<1>10. ASSUME NEW name \in {"session", "csrf"}, NEW c \in Cookies, NEW age \in Nat \cup {Unset},
              l = BuildCookie(name, c, age)
       PROVE  l.opts.http_only /\ l.value = c
  BY <1>6, <1>10
<1> QED BY <1>8, <1>9, <1>10, <1>6, <1>7 DEF CookieLines


\* What no handler changes of its request.
SameRequest(rec, r) ==
  /\ DOMAIN rec = RequestFields
  /\ rec.visitor = r.visitor /\ rec.state = r.state /\ rec.id = r.id /\ rec.number = r.number
  /\ rec.mw = r.mw /\ rec.unsafe = r.unsafe /\ rec.cross = r.cross /\ rec.cookie = r.cookie
  /\ rec.tcookie = r.tcookie /\ rec.supplied = r.supplied /\ rec.issue = r.issue /\ rec.token = r.token

CookieIsOut(r) ==
  \E i \in DOMAIN r.out : r.out[i].value.name = "csrf" /\ r.out[i].value.payload = r.token

\* A handler's step leaves a request in order when what it sets is.
LEMMA HandlerKeeps ==
  ASSUME NEW r, NEW rec, RequestInv(r), SameRequest(rec, r),
         rec.stage \in {"run", "refused", "answered", "failed"}, rec.session \in BOOLEAN,
         rec.data \in SUBSET DataKeys, rec.loaded \in Nat, rec.out \in Seq(CookieLines),
         rec.stage = "run" \/ rec.session => r.stage = "run" \/ r.session,
         AskedInv(rec),
         rec.stage = "answered" /\ rec.issue => CookieIsOut(rec),
         rec.session =>
           rec.found = IF rec.cookie.name = "session" /\ (MaxAge > 0 => rec.loaded < rec.cookie.at + MaxAge)
                       THEN rec.cookie.wrote ELSE {}
  PROVE  RequestInv(rec)
<1>1. RequestTypes(rec)
  BY DEF RequestInv, RequestTypes, SameRequest
<1>2. TokenOk(r) => TokenOk(rec)
  BY DEF SameRequest, TokenOk
<1>3. /\ rec.cookie = NoCookie \/ rec.cookie \in Cookies
      /\ rec.tcookie = NoCookie \/ rec.tcookie \in Cookies
      /\ rec.issue <=> rec.mw /\ rec.tcookie.name # "csrf"
      /\ rec.tcookie.name = "csrf" => rec.token = rec.tcookie.payload
  BY DEF SameRequest, RequestInv
<1>4. rec.mw /\ rec.unsafe /\ (rec.stage = "run" \/ rec.session) => TokenOk(rec)
  BY <1>2 DEF SameRequest, RequestInv
<1> QED BY <1>1, <1>3, <1>4 DEF RequestInv, CookieIsOut

\* A step of one handler that touches nothing else.
LEMMA HandlerStep ==
  ASSUME SessionInv, NEW x \in Exchanges, NEW rec, SetX(x, rec),
         UNCHANGED <<sclock, slot, kept, pages, sent>>,
         RequestInv(rec), SameRequest(rec, exch[x]), PlaceInv(exch[x]),
         rec.stage = "run" => exch[x].stage = "run"
  PROVE  SessionInv'
<1>1. /\ exch'[x] = rec /\ DOMAIN exch' = Exchanges
      /\ \A y \in Exchanges \ {x} : exch'[y] = exch[y]
  BY DEF SetX, SessionInv
<1>2. PlaceInv(exch[x])'
  BY <1>1 DEF PlaceInv, SameRequest
<1>3. RequestInv(exch[x])'
  BY <1>1
<1>4. ASSUME NEW y \in Exchanges, y # x
      PROVE  exch'[y] = Idle \/ (RequestInv(exch[y])' /\ PlaceInv(exch[y])')
  <2>1. exch'[y] = exch[y]
    BY <1>1, <1>4
  <2>2. CASE exch[y] = Idle
    BY <2>1, <2>2
  <2>3. CASE RequestInv(exch[y]) /\ PlaceInv(exch[y])
    <3>1. RequestInv(exch[y])'
      BY <2>1, <2>3
    <3>2. PlaceInv(exch[y])'
      BY <2>1, <2>3 DEF PlaceInv
    <3> QED BY <3>1, <3>2
  <2> QED BY <2>2, <2>3 DEF SessionInv
<1>5. \A v \in Visitors : PagesInv(v)'
  BY DEF SessionInv, PagesInv
<1>6. \A y \in Exchanges : exch'[y] = Idle \/ (RequestInv(exch[y])' /\ PlaceInv(exch[y])')
  BY <1>2, <1>3, <1>4
<1> QED BY <1>1, <1>5, <1>6 DEF SessionInv

LEMMA RunningFacts ==
  ASSUME SessionInv, NEW x \in Exchanges, exch[x].stage # "idle"
  PROVE  RequestInv(exch[x]) /\ PlaceInv(exch[x]) /\ RequestTypes(exch[x])
<1>1. Idle.stage = "idle"
  BY DEF Idle
<1> QED BY <1>1 DEF SessionInv, RequestInv

LEMMA AskTokenInv ==
  ASSUME SessionInv, NEW x \in Exchanges, AskToken(x)
  PROVE  SessionInv'
<1> DEFINE r == exch[x]
           rec == [r EXCEPT !.asked = TokenOf(x)]
<1>1. /\ r.stage = "run" /\ SetX(x, rec) /\ UNCHANGED <<sclock, slot, kept, pages, sent>>
      /\ TokenOf(x) # NoToken
  BY DEF AskToken
<1>2. RequestInv(r) /\ PlaceInv(r) /\ RequestTypes(r)
  BY <1>1, RunningFacts
<1>3. IF r.mw THEN TokenOf(x) = r.token ELSE TrustRequestId /\ r.id < r.number
  BY <1>1, <1>2 DEF TokenOf, PlaceInv
<1>4. /\ SameRequest(rec, r) /\ rec.asked = TokenOf(x) /\ rec.stage = r.stage
      /\ rec.session = r.session /\ rec.data = r.data /\ rec.found = r.found /\ rec.loaded = r.loaded
      /\ rec.out = r.out
  BY <1>2 DEF RequestTypes, RequestFields, SameRequest
<1> HIDE DEF r, rec
<1>5. RequestInv(rec)
  <2>1. /\ rec.mw = r.mw /\ rec.token = r.token /\ rec.cookie = r.cookie /\ rec.id = r.id /\ rec.number = r.number
    BY <1>4 DEF SameRequest
  <2> QED BY <1>1, <1>2, <1>3, <1>4, <2>1, HandlerKeeps DEF RequestTypes, RequestInv, AskedInv
<1> QED BY <1>1, <1>2, <1>4, <1>5, HandlerStep DEF r

LEMMA LoadSessionInv ==
  ASSUME SessionInv, NEW x \in Exchanges, LoadSession(x)
  PROVE  SessionInv'
<1> DEFINE r == exch[x]
           c == r.cookie
           found == IF Verify("session", c) /\ ~Expired(c) THEN c.payload \ {"_exp"} ELSE {}
           rec == [r EXCEPT !.session = TRUE, !.data = found, !.found = found, !.loaded = sclock]
<1>1. r.stage = "run" /\ SetX(x, rec) /\ UNCHANGED <<sclock, slot, kept, pages, sent>>
  BY DEF LoadSession
<1>2. RequestInv(r) /\ PlaceInv(r) /\ RequestTypes(r) /\ sclock \in Nat
  BY <1>1, RunningFacts DEF SessionInv
<1>3. found = IF c.name = "session" /\ (MaxAge > 0 => sclock < c.at + MaxAge) THEN c.wrote ELSE {}
  <2>1. CASE c.name = "session"
    <3>1. c \in Cookies
      BY <1>2, <2>1 DEF RequestInv, NoCookie
    <3>2. c.payload \ {"_exp"} = c.wrote /\ c.at \in Nat /\ c.exp = IF MaxAge > 0 THEN c.at + MaxAge ELSE 0
      BY <2>1, <3>1, CookieFacts
    <3>3. ~Expired(c) <=> (MaxAge > 0 => sclock < c.at + MaxAge)
      BY <1>2, <3>2, SessionConstants DEF Expired
    <3> QED BY <2>1, <3>2, <3>3 DEF Verify
  <2>2. CASE c.name # "session"
    BY <2>2 DEF Verify
  <2> QED BY <2>1, <2>2
<1>4. found \in SUBSET DataKeys
  <2>1. CASE c.name = "session"
    <3>1. c \in Cookies
      BY <1>2, <2>1 DEF RequestInv, NoCookie
    <3>2. c.payload \in SUBSET DataKeys
      BY <2>1, <3>1 DEF Cookies, SessionCookie, CsrfCookie
    <3> QED BY <3>2
  <2>2. CASE c.name # "session"
    BY <2>2 DEF Verify
  <2> QED BY <2>1, <2>2
<1> HIDE DEF found
<1>5. /\ SameRequest(rec, r) /\ rec.asked = r.asked /\ rec.stage = r.stage
      /\ rec.data = found /\ rec.found = found /\ rec.loaded = sclock
      /\ rec.out = r.out
  BY <1>2 DEF RequestTypes, RequestFields, SameRequest
<1>6. rec.session = TRUE
  BY <1>2 DEF RequestTypes, RequestFields
<1> HIDE DEF r, rec
<1>7. RequestInv(rec)
  <2>1. /\ rec.mw = r.mw /\ rec.token = r.token /\ rec.cookie = c /\ rec.id = r.id /\ rec.number = r.number
    BY <1>5 DEF SameRequest
  <2> QED BY <1>1, <1>2, <1>3, <1>4, <1>5, <1>6, <2>1, HandlerKeeps DEF RequestTypes, RequestInv, AskedInv
<1> QED BY <1>1, <1>2, <1>5, <1>7, HandlerStep DEF r

\* A step that changes the session's table only.
LEMMA DataStep ==
  ASSUME SessionInv, NEW x \in Exchanges, exch[x].stage = "run", NEW d \in SUBSET DataKeys,
         SetX(x, [exch[x] EXCEPT !.data = d]), UNCHANGED <<sclock, slot, kept, pages, sent>>
  PROVE  SessionInv'
<1> DEFINE r == exch[x]
           rec == [r EXCEPT !.data = d]
<1>2. RequestInv(r) /\ PlaceInv(r) /\ RequestTypes(r)
  BY RunningFacts
<1>4. /\ SameRequest(rec, r) /\ rec.asked = r.asked /\ rec.stage = r.stage
      /\ rec.session = r.session /\ rec.data = d /\ rec.found = r.found /\ rec.loaded = r.loaded
      /\ rec.out = r.out
  BY <1>2 DEF RequestTypes, RequestFields, SameRequest
<1>1. SetX(x, rec) /\ r.stage = "run"
  OBVIOUS
<1> HIDE DEF r, rec
<1>5. RequestInv(rec)
  <2>1. /\ rec.mw = r.mw /\ rec.token = r.token /\ rec.cookie = r.cookie /\ rec.id = r.id /\ rec.number = r.number
    BY <1>4 DEF SameRequest
  <2> QED BY <1>1, <1>2, <1>4, <2>1, HandlerKeeps DEF RequestTypes, RequestInv, AskedInv
<1> QED BY <1>1, <1>2, <1>4, <1>5, HandlerStep DEF r


LEMMA SetKeyInv ==
  ASSUME SessionInv, NEW x \in Exchanges, SetKey(x)
  PROVE  SessionInv'
<1>1. PICK k \in DataKeys \ exch[x].data : SetX(x, [exch[x] EXCEPT !.data = exch[x].data \cup {k}])
  BY DEF SetKey
<1>2. exch[x].stage = "run" /\ UNCHANGED <<sclock, slot, kept, pages, sent>>
  BY DEF SetKey
<1>3. exch[x].data \cup {k} \in SUBSET DataKeys
  BY <1>2, RunningFacts DEF RequestTypes
<1> QED BY <1>1, <1>2, <1>3, DataStep

LEMMA ClearSessionInv ==
  ASSUME SessionInv, NEW x \in Exchanges, ClearSession(x)
  PROVE  SessionInv'
BY DataStep DEF ClearSession

\* A step that ends a stage, with more lines on the response or none.
LEMMA StageStep ==
  ASSUME SessionInv, NEW x \in Exchanges, exch[x].stage \in {"run", "refused"}, NEW rec, SetX(x, rec),
         UNCHANGED <<sclock, slot, kept, pages, sent>>,
         SameRequest(rec, exch[x]), rec.stage \in {"run", "answered", "failed"},
         rec.stage = "run" => exch[x].stage = "run",
         rec.session = exch[x].session, rec.data = exch[x].data, rec.found = exch[x].found,
         rec.loaded = exch[x].loaded, rec.asked = exch[x].asked, rec.out \in Seq(CookieLines),
         rec.stage = "answered" /\ rec.issue => CookieIsOut(rec)
  PROVE  SessionInv'
<1> DEFINE r == exch[x]
<1>1. RequestInv(r) /\ PlaceInv(r) /\ RequestTypes(r)
  BY RunningFacts
<1>2. /\ rec.mw = r.mw /\ rec.token = r.token /\ rec.cookie = r.cookie /\ rec.id = r.id /\ rec.number = r.number
  BY DEF SameRequest
<1>3. RequestInv(rec)
  BY <1>1, <1>2, HandlerKeeps DEF RequestTypes, RequestInv, AskedInv
<1> QED BY <1>1, <1>3, HandlerStep

LEMMA HandlerFailsInv ==
  ASSUME SessionInv, NEW x \in Exchanges, HandlerFails(x)
  PROVE  SessionInv'
<1> DEFINE r == exch[x]
           rec == [r EXCEPT !.stage = "failed"]
<1>1. r.stage = "run" /\ SetX(x, rec) /\ UNCHANGED <<sclock, slot, kept, pages, sent>>
  BY DEF HandlerFails
<1>2. RequestTypes(r)
  BY <1>1, RunningFacts
<1>3. /\ SameRequest(rec, r) /\ rec.stage = "failed" /\ rec.asked = r.asked
      /\ rec.session = r.session /\ rec.data = r.data /\ rec.found = r.found /\ rec.loaded = r.loaded
      /\ rec.out = r.out /\ r.out \in Seq(CookieLines)
  BY <1>2 DEF RequestTypes, RequestFields, SameRequest
<1> HIDE DEF rec
<1> QED BY <1>1, <1>3, StageStep

LEMMA SaveSessionInv ==
  ASSUME SessionInv, NEW x \in Exchanges, SaveSession(x)
  PROVE  SessionInv'
<1> DEFINE r == exch[x]
           exp == IF MaxAge > 0 THEN sclock + MaxAge ELSE 0
           age == IF MaxAge > 0 THEN MaxAge ELSE Unset
           saved == BuildCookie("session", Signed("session", r.data, exp, r.data), age)
           gone == BuildCookie("session", NoCookie, 0)
           line == IF r.data = {} THEN Append(r.out, gone) ELSE Append(r.out, saved)
           done == [r EXCEPT !.out = line, !.saves = @ + 1]
           fails == [r EXCEPT !.stage = "failed"]
<1>1. r.stage = "run" /\ UNCHANGED <<sclock, slot, kept, pages, sent>>
  BY DEF SaveSession
<1>2. RequestTypes(r) /\ sclock \in Nat
  BY <1>1, RunningFacts DEF SessionInv
<1>3. \/ Serializable(r.data) /\ SetX(x, done)
      \/ SetX(x, fails)
  BY DEF SaveSession, Attach
<1>4. CASE SetX(x, fails)
  <2>1. /\ SameRequest(fails, r) /\ fails.stage = "failed" /\ fails.asked = r.asked
        /\ fails.session = r.session /\ fails.data = r.data /\ fails.found = r.found
        /\ fails.loaded = r.loaded /\ fails.out = r.out /\ r.out \in Seq(CookieLines)
    BY <1>2 DEF RequestTypes, RequestFields, SameRequest
  <2> HIDE DEF fails
  <2> QED BY <1>1, <1>4, <2>1, StageStep
<1>5. CASE Serializable(r.data) /\ SetX(x, done)
  <2>1. r.data \in SUBSET (DataKeys \ Reserved) /\ r.out \in Seq(CookieLines)
    BY <1>2, <1>5 DEF RequestTypes, Serializable
  <2>2. Signed("session", r.data, exp, r.data) = SessionCookie(r.data, sclock)
    BY DEF Signed, SessionCookie
  <2>3. SessionCookie(r.data, sclock) \in Cookies
    <3> HIDE DEF r
    <3>1. \A d \in SUBSET (DataKeys \ Reserved), at \in Nat : SessionCookie(d, at) \in Cookies
      BY DEF Cookies
    <3> QED BY <1>2, <2>1, <3>1
  <2>4. age \in Nat \cup {Unset}
    BY SessionConstants
  <2> HIDE DEF age, exp
  <2>5. saved \in CookieLines
    BY <2>2, <2>3, <2>4 DEF CookieLines
  <2>6. gone \in CookieLines
    BY DEF CookieLines
  <2> HIDE DEF saved, gone
  <2>7. line \in Seq(CookieLines)
    BY <2>1, <2>5, <2>6
  <2> HIDE DEF line
  <2>8. /\ SameRequest(done, r) /\ done.stage = r.stage /\ done.asked = r.asked
        /\ done.session = r.session /\ done.data = r.data /\ done.found = r.found
        /\ done.loaded = r.loaded /\ done.out = line
    <3> DEFINE n == r.saves + 1
    <3>1. done = [r EXCEPT !.out = line, !.saves = n]
      OBVIOUS
    <3>2. DOMAIN r = RequestFields
      BY <1>2 DEF RequestTypes
    <3> HIDE DEF n, done, r
    <3> QED BY <3>1, <3>2 DEF RequestFields, SameRequest
  <2> HIDE DEF done
  <2> QED BY <1>1, <1>5, <2>7, <2>8, StageStep
<1> QED BY <1>3, <1>4, <1>5

LEMMA SendReplyInv ==
  ASSUME SessionInv, NEW x \in Exchanges, SendReply(x)
  PROVE  SessionInv'
<1> DEFINE r == exch[x]
           line == BuildCookie("csrf", Signed("csrf", r.token, 0, r.token), Unset)
           out == IF r.issue THEN Append(r.out, line) ELSE r.out
           rec == [r EXCEPT !.stage = "answered", !.out = out]
<1>1. /\ r.stage \in {"run", "refused"} /\ SetX(x, rec) /\ UNCHANGED <<sclock, slot, kept, pages, sent>>
  BY DEF SendReply, Attach
<1>2. RequestTypes(r) /\ sclock \in Nat
  BY <1>1, RunningFacts DEF SessionInv
<1>3. r.out \in Seq(CookieLines) /\ r.token \in CsrfTokens
  BY <1>2 DEF RequestTypes
<1>4. /\ line \in CookieLines /\ line.value.name = "csrf" /\ line.value.payload = r.token
  <2>1. Signed("csrf", r.token, 0, r.token) = CsrfCookie(r.token, sclock)
    BY DEF Signed, CsrfCookie
  <2>2. CsrfCookie(r.token, sclock) \in Cookies
    BY <1>2, <1>3 DEF Cookies
  <2>3. line \in CookieLines
    BY <2>1, <2>2 DEF CookieLines
  <2>4. line.value = CsrfCookie(r.token, sclock)
    BY <2>1 DEF BuildCookie
  <2>5. CsrfCookie(r.token, sclock).name = "csrf" /\ CsrfCookie(r.token, sclock).payload = r.token
    BY DEF CsrfCookie
  <2> QED BY <2>3, <2>4, <2>5
<1> HIDE DEF line
<1>5. /\ out \in Seq(CookieLines)
      /\ r.issue => Len(r.out) + 1 \in DOMAIN out /\ out[Len(r.out) + 1] = line
  BY <1>3, <1>4
<1> HIDE DEF out
<1>6. /\ SameRequest(rec, r) /\ rec.stage = "answered" /\ rec.asked = r.asked
      /\ rec.session = r.session /\ rec.data = r.data /\ rec.found = r.found /\ rec.loaded = r.loaded
      /\ rec.out = out
  BY <1>2 DEF RequestTypes, RequestFields, SameRequest
<1> HIDE DEF rec
<1>7. rec.issue => CookieIsOut(rec)
  <2>1. rec.issue = r.issue /\ rec.token = r.token
    BY <1>6 DEF SameRequest
  <2> QED BY <1>4, <1>5, <1>6, <2>1 DEF CookieIsOut
<1> QED BY <1>1, <1>5, <1>6, <1>7, StageStep


\* The visitor keeps what the lines say, the token's cookie with the page it is for.
LEMMA DeliverReplyInv ==
  ASSUME SessionInv, NEW x \in Exchanges, DeliverReply(x)
  PROVE  SessionInv'
<1> DEFINE r == exch[x]
           v == r.visitor
           lines == IF r.stage = "failed" THEN {} ELSE ToSet(r.out)
           page == IF r.stage = "failed" \/ r.asked = NoToken THEN {} ELSE {[token |-> r.asked, mw |-> r.mw]}
           new == {l.value : l \in lines} \ {NoCookie}
<1>1. /\ r.stage \in {"answered", "failed"} /\ SetX(x, Idle) /\ UNCHANGED <<sclock, slot, sent>>
      /\ kept' = [kept EXCEPT ![v] = @ \cup new]
      /\ pages' = [pages EXCEPT ![v] = @ \cup page]
  BY DEF DeliverReply
<1>2. RequestInv(r) /\ PlaceInv(r) /\ RequestTypes(r)
  BY <1>1, RunningFacts
<1>3. v \in Visitors /\ r.out \in Seq(CookieLines)
  BY <1>2 DEF RequestTypes
<1>4. new \in SUBSET Cookies
  <2>1. lines \subseteq CookieLines
    BY <1>3 DEF ToSet
  <2> HIDE DEF lines
  <2> QED BY <2>1, LineFacts
<1>5. ASSUME NEW p \in page, p.mw
      PROVE  \E c \in kept[v] \cup new : c.name = "csrf" /\ c.payload = p.token
  <2>1. r.stage = "answered" /\ r.asked # NoToken
    BY <1>1, <1>5
  <2>5. p = [token |-> r.asked, mw |-> r.mw]
    BY <1>5, <2>1
  <2>6. p.token = r.asked /\ p.mw = r.mw
    BY <2>5, Zenon
  <2>2. r.mw /\ p.token = r.token
    BY <1>2, <1>5, <2>1, <2>6 DEF RequestInv, AskedInv
  <2>3. CASE r.issue
    <3>1. PICK i \in DOMAIN r.out : r.out[i].value.name = "csrf" /\ r.out[i].value.payload = r.token
      BY <1>2, <2>1, <2>3 DEF RequestInv
    <3>2. r.out[i] \in lines
      BY <1>3, <2>1, <3>1 DEF ToSet
    <3>3. r.out[i].value # NoCookie
      BY <3>1 DEF NoCookie
    <3>4. r.out[i].value \in new
      BY <3>2, <3>3
    <3> QED BY <2>2, <3>1, <3>4
  <2>4. CASE ~r.issue
    <3>1. r.tcookie.name = "csrf" /\ r.token = r.tcookie.payload
      BY <1>2, <2>2, <2>4 DEF RequestInv
    <3>2. r.tcookie \in kept[v]
      BY <1>2, <3>1 DEF PlaceInv, NoCookie
    <3> QED BY <2>2, <3>1, <3>2
  <2> QED BY <2>3, <2>4
<1> HIDE DEF new, page
<1>6. /\ kept'[v] = kept[v] \cup new /\ pages'[v] = pages[v] \cup page
      /\ \A u \in Visitors \ {v} : kept'[u] = kept[u] /\ pages'[u] = pages[u]
      /\ kept' \in [Visitors -> SUBSET Cookies] /\ DOMAIN pages' = Visitors
  <2> HIDE DEF v
  <2> QED BY <1>1, <1>3, <1>4 DEF SessionInv
<1>7. ASSUME NEW u \in Visitors PROVE PagesInv(u)'
  <2>1. CASE u = v
    <3>1. \A p \in pages[v] : p.mw => \E c \in kept[v] : c.name = "csrf" /\ c.payload = p.token
      BY <1>3 DEF SessionInv, PagesInv
    <3>2. \A p \in pages'[v] : p.mw => \E c \in kept'[v] : c.name = "csrf" /\ c.payload = p.token
      BY <1>5, <1>6, <3>1
    <3> QED BY <2>1, <3>2 DEF PagesInv
  <2>2. CASE u # v
    BY <1>6, <2>2 DEF SessionInv, PagesInv
  <2> QED BY <2>1, <2>2
<1>8. /\ exch'[x] = Idle /\ DOMAIN exch' = Exchanges
      /\ \A y \in Exchanges \ {x} : exch'[y] = exch[y]
  BY <1>1 DEF SetX, SessionInv
<1>9. ASSUME NEW y \in Exchanges
      PROVE  exch'[y] = Idle \/ (RequestInv(exch[y])' /\ PlaceInv(exch[y])')
  <2>1. CASE y = x \/ exch[y] = Idle
    BY <1>8, <2>1
  <2>2. CASE y # x /\ RequestInv(exch[y]) /\ PlaceInv(exch[y])
    <3>1. exch'[y] = exch[y]
      BY <1>8, <2>2
    <3>2. exch[y].visitor \in Visitors
      BY <2>2 DEF RequestInv, RequestTypes
    <3>3. kept[exch[y].visitor] \subseteq kept'[exch[y].visitor]
      <4> HIDE DEF v
      <4> QED BY <1>6, <3>2
    <3>4. PlaceInv(exch[y])'
      BY <1>1, <2>2, <3>1, <3>3 DEF PlaceInv
    <3> QED BY <2>2, <3>1, <3>4
  <2> QED BY <2>1, <2>2 DEF SessionInv
<1> QED BY <1>1, <1>6, <1>7, <1>8, <1>9 DEF SessionInv

LEMMA SecondPassesInv ==
  ASSUME SessionInv, SecondPasses
  PROVE  SessionInv'
<1>1. sclock' \in Nat /\ UNCHANGED <<exch, slot, kept, pages, sent>>
  BY DEF SessionInv, SecondPasses
<1>2. \A x \in Exchanges : exch'[x] = Idle \/ (RequestInv(exch[x])' /\ PlaceInv(exch[x])')
  BY <1>1 DEF SessionInv, PlaceInv
<1>3. \A v \in Visitors : PagesInv(v)'
  BY <1>1 DEF SessionInv, PagesInv
<1> QED BY <1>1, <1>2, <1>3 DEF SessionInv


\* A new request: its Lua state is no other's until it answers, so that the slot is
\* its own when it has written it; else the slot is of an earlier request, whose id it
\* has only when it was let repeat it.
LEMMA SendRequestInv ==
  ASSUME SessionInv, NEW v \in Visitors, NEW x \in Exchanges, NEW s \in LuaStates, SendRequest(v, x, s)
  PROVE  SessionInv'
<1>1. PICK mw \in BOOLEAN, unsafe \in BOOLEAN, cross \in BOOLEAN, id \in RequestIds,
           sc \in {NoCookie} \cup kept[v], tc \in {NoCookie} \cup kept[v],
           supplied \in {NoToken} \cup {p.token : p \in pages[v]} \cup {c.payload : c \in kept[v]} :
        LET known == Verify("csrf", tc)
            req == [stage |-> "run", visitor |-> v, state |-> s, id |-> id, number |-> sent + 1, mw |-> mw,
                    unsafe |-> unsafe, cross |-> cross, cookie |-> sc, tcookie |-> tc, supplied |-> supplied,
                    issue |-> mw /\ ~known, token |-> IF known THEN tc.payload ELSE TokenNo(sent + 1),
                    session |-> FALSE, data |-> {}, found |-> {}, loaded |-> 0, saves |-> 0,
                    out |-> <<>>, asked |-> NoToken]
        IN  /\ mw \/ (tc = NoCookie /\ supplied = NoToken /\ ~cross /\ ~unsafe)
            /\ unsafe \/ (supplied = NoToken /\ ~cross)
            /\ slot' = IF mw THEN [slot EXCEPT ![s] = [id |-> req.id, token |-> req.token]] ELSE slot
            /\ SetX(x, IF mw /\ unsafe /\ ~TokenOk(req) THEN [req EXCEPT !.stage = "refused"] ELSE req)
  BY Zenon DEF SendRequest
<1> DEFINE known == Verify("csrf", tc)
           token == IF known THEN tc.payload ELSE TokenNo(sent + 1)
           issue == mw /\ ~known
           number == sent + 1
           req == [stage |-> "run", visitor |-> v, state |-> s, id |-> id, number |-> number, mw |-> mw,
                   unsafe |-> unsafe, cross |-> cross, cookie |-> sc, tcookie |-> tc, supplied |-> supplied,
                   issue |-> issue, token |-> token,
                   session |-> FALSE, data |-> {}, found |-> {}, loaded |-> 0, saves |-> 0,
                   out |-> <<>>, asked |-> NoToken]
           rec == IF mw /\ unsafe /\ ~TokenOk(req) THEN [req EXCEPT !.stage = "refused"] ELSE req
<1>2. /\ slot' = IF mw THEN [slot EXCEPT ![s] = [id |-> req.id, token |-> req.token]] ELSE slot
      /\ SetX(x, rec) /\ sent' = number /\ UNCHANGED <<sclock, kept, pages>>
  BY <1>1 DEF SendRequest
<1>3. /\ sent \in Nat /\ number \in Nat /\ sent < number /\ kept[v] \subseteq Cookies
      /\ id \in Nat /\ id <= number /\ (id # number => TrustRequestId)
  BY DEF SessionInv, RequestIds
<1>4. known <=> tc.name = "csrf"
  BY DEF Verify
<1>5. token \in CsrfTokens
  <2>1. CASE tc.name = "csrf"
    <3>1. tc \in Cookies
      BY <1>3, <2>1 DEF NoCookie
    <3> QED BY <1>4, <2>1, <3>1, CookieFacts
  <2>2. CASE tc.name # "csrf"
    BY <1>3, <1>4, <2>2 DEF CsrfTokens
  <2> QED BY <2>1, <2>2
<1> HIDE DEF known, number
<1>6. known => token = tc.payload
  OBVIOUS
<1>7. issue \in BOOLEAN /\ (issue <=> mw /\ ~known)
  OBVIOUS
<1> HIDE DEF token, issue
<1>8. /\ DOMAIN req = RequestFields
      /\ req.stage = "run" /\ req.visitor = v /\ req.state = s /\ req.id = id /\ req.number = number
      /\ req.cookie = sc /\ req.tcookie = tc /\ req.supplied = supplied /\ req.token = token
      /\ req.data = {} /\ req.found = {} /\ req.loaded = 0 /\ req.out = <<>> /\ req.asked = NoToken
  BY DEF RequestFields
<1>9. /\ req.mw = mw /\ req.unsafe = unsafe /\ req.cross = cross /\ req.issue = issue /\ req.session = FALSE
  OBVIOUS
<1> HIDE DEF req
<1>10. /\ SameRequest(rec, req) /\ rec.session = req.session /\ rec.data = {} /\ rec.loaded = 0
       /\ rec.out = <<>> /\ rec.asked = NoToken
       /\ rec.stage = IF mw /\ unsafe /\ ~TokenOk(req) THEN "refused" ELSE "run"
  BY <1>8 DEF SameRequest, RequestFields
<1>11. TokenOk(req) => TokenOk(rec)
  BY <1>10 DEF SameRequest, TokenOk
<1> HIDE DEF rec
<1>12. RequestTypes(rec)
  <2>1. /\ rec.mw = mw /\ rec.unsafe = unsafe /\ rec.cross = cross /\ rec.issue = issue
        /\ rec.session = FALSE
    BY <1>9, <1>10 DEF SameRequest
  <2>2. /\ rec.mw \in BOOLEAN /\ rec.unsafe \in BOOLEAN /\ rec.cross \in BOOLEAN /\ rec.issue \in BOOLEAN
        /\ rec.session \in BOOLEAN
    BY <1>7, <2>1
  <2>3. /\ DOMAIN rec = RequestFields /\ rec.visitor = v /\ rec.state = s /\ rec.id = id /\ rec.number = number
        /\ rec.token = token
    BY <1>8, <1>10 DEF SameRequest
  <2>4. rec.stage \in {"run", "refused", "answered", "failed"}
    BY <1>10
  <2>5. rec.id \in Nat /\ rec.number \in Nat /\ rec.loaded \in Nat
    BY <1>3, <1>10, <2>3
  <2>6. rec.data \in SUBSET DataKeys /\ rec.out \in Seq(CookieLines)
    BY <1>10
  <2> QED BY <1>5, <2>2, <2>3, <2>4, <2>5, <2>6 DEF RequestTypes
<1>13. /\ rec.tcookie = tc /\ rec.cookie = sc /\ rec.mw = mw /\ rec.unsafe = unsafe /\ rec.issue = issue
       /\ rec.token = token /\ rec.visitor = v /\ rec.state = s /\ rec.id = id /\ rec.number = number
       /\ rec.session = FALSE
  BY <1>8, <1>9, <1>10 DEF SameRequest
<1>14. RequestInv(rec)
  <2>1. rec.issue <=> rec.mw /\ rec.tcookie.name # "csrf"
    BY <1>4, <1>7, <1>13
  <2>2. rec.tcookie.name = "csrf" => rec.token = rec.tcookie.payload
    BY <1>4, <1>6, <1>13
  <2>3. rec.mw /\ rec.unsafe /\ (rec.stage = "run" \/ rec.session) => TokenOk(rec)
    BY <1>10, <1>11, <1>13
  <2>4. /\ rec.cookie = NoCookie \/ rec.cookie \in Cookies
        /\ rec.tcookie = NoCookie \/ rec.tcookie \in Cookies
    BY <1>3, <1>13
  <2> QED BY <1>10, <1>12, <1>13, <2>1, <2>2, <2>3, <2>4 DEF RequestInv, AskedInv
<1>15. /\ exch'[x] = rec /\ DOMAIN exch' = Exchanges
       /\ \A y \in Exchanges \ {x} : exch'[y] = exch[y]
  BY <1>2 DEF SetX, SessionInv
<1>16. /\ DOMAIN slot' = LuaStates /\ \A t \in LuaStates \ {s} : slot'[t] = slot[t]
       /\ mw => slot'[s].id = id /\ slot'[s].token = token
       /\ ~mw => slot'[s] = slot[s]
  BY <1>2, <1>8 DEF SessionInv
<1>17. \A t \in LuaStates : slot'[t].id \in Nat /\ slot'[t].id <= sent'
  <2>1. \A t \in LuaStates : slot[t].id \in Nat /\ slot[t].id <= sent
    BY DEF SessionInv
  <2>2. \A t \in LuaStates : slot'[t].id = id \/ slot'[t].id = slot[t].id
    BY <1>16
  <2> QED BY <1>2, <1>3, <2>1, <2>2
<1>18. PlaceInv(exch[x])'
  <2>1. slot'[s].id = id /\ ~mw => TrustRequestId /\ id < number
    <3>1. slot[s].id \in Nat /\ slot[s].id <= sent
      BY DEF SessionInv
    <3>2. slot[s].id = id => id # number /\ id < number
      BY <1>3, <3>1
    <3> QED BY <1>3, <1>16, <3>2
  <2> QED BY <1>2, <1>13, <1>15, <1>16, <2>1 DEF PlaceInv
<1>19. ASSUME NEW y \in Exchanges, y # x, RequestInv(exch[y]), PlaceInv(exch[y])
       PROVE  RequestInv(exch[y])' /\ PlaceInv(exch[y])'
  <2> DEFINE o == exch[y]
  <2>1. exch'[y] = o
    BY <1>15, <1>19
  <2>2. o.state \in LuaStates
    BY <1>19 DEF RequestInv, RequestTypes
  <2>3. o.stage = "run" => slot'[o.state] = slot[o.state]
    <3>1. o.stage = "run" => o.state # s
      BY DEF SendRequest, InUse
    <3> QED BY <1>16, <2>2, <3>1
  <2>4. o.tcookie = NoCookie \/ o.tcookie \in kept'[o.visitor]
    BY <1>2, <1>19 DEF PlaceInv
  <2>5. PlaceInv(exch[y])'
    BY <1>19, <2>1, <2>3, <2>4 DEF PlaceInv
  <2> QED BY <1>19, <2>1, <2>5
<1>20. \A y \in Exchanges : exch'[y] = Idle \/ (RequestInv(exch[y])' /\ PlaceInv(exch[y])')
  <2>1. RequestInv(exch[x])'
    BY <1>14, <1>15
  <2> QED BY <1>15, <1>18, <1>19, <2>1 DEF SessionInv
<1>21. \A u \in Visitors : PagesInv(u)'
  BY <1>2 DEF SessionInv, PagesInv
<1> QED BY <1>2, <1>3, <1>15, <1>16, <1>17, <1>20, <1>21 DEF SessionInv

LEMMA SessionInitial == SessionInit => SessionInv
<1> SUFFICES ASSUME SessionInit PROVE SessionInv
  OBVIOUS
<1>1. \A s \in LuaStates : slot[s].id \in Nat /\ slot[s].id <= sent
  BY DEF SessionInit, NoSlot
<1>2. \A v \in Visitors : PagesInv(v)
  BY DEF SessionInit, PagesInv
<1>3. \A x \in Exchanges : exch[x] = Idle
  BY DEF SessionInit
<1> QED BY <1>1, <1>2, <1>3 DEF SessionInit, SessionInv

LEMMA SessionInductive == SessionInv /\ [SessionNext]_sessionVars => SessionInv'
<1> SUFFICES ASSUME SessionInv, [SessionNext]_sessionVars PROVE SessionInv'
  OBVIOUS
<1>1. CASE UNCHANGED sessionVars
  <2>1. UNCHANGED <<sclock, exch, slot, kept, pages, sent>>
    BY <1>1 DEF sessionVars
  <2>2. \A x \in Exchanges : exch'[x] = Idle \/ (RequestInv(exch[x])' /\ PlaceInv(exch[x])')
    BY <2>1 DEF SessionInv, PlaceInv
  <2>3. \A v \in Visitors : PagesInv(v)'
    BY <2>1 DEF SessionInv, PagesInv
  <2> QED BY <2>1, <2>2, <2>3 DEF SessionInv
<1>2. ASSUME NEW v \in Visitors, NEW x \in Exchanges, NEW s \in LuaStates, SendRequest(v, x, s)
      PROVE  SessionInv'
  BY <1>2, SendRequestInv
<1>3. ASSUME NEW x \in Exchanges,
             \/ AskToken(x) \/ LoadSession(x) \/ SetKey(x) \/ ClearSession(x) \/ SaveSession(x)
             \/ SendReply(x) \/ HandlerFails(x) \/ DeliverReply(x)
      PROVE  SessionInv'
  BY <1>3, AskTokenInv, LoadSessionInv, SetKeyInv, ClearSessionInv, SaveSessionInv, SendReplyInv,
     HandlerFailsInv, DeliverReplyInv
<1>4. CASE SecondPasses
  BY <1>4, SecondPassesInv
<1> QED BY <1>1, <1>2, <1>3, <1>4 DEF SessionNext

LEMMA SessionInvHolds == SessionSpec => []SessionInv
BY SessionInitial, SessionInductive, PTL DEF SessionSpec

LEMMA InvKeepsApart == SessionInv => VisitorsAreKeptApart
<1> SUFFICES ASSUME SessionInv PROVE VisitorsAreKeptApart
  OBVIOUS
<1>1. \A x \in Exchanges : Live(x) => RequestInv(exch[x])
  BY DEF SessionInv, Live
<1>2. SessionsAreWhole
  BY <1>1 DEF SessionsAreWhole, RequestInv
<1>3. CookiesAreGuarded
  <2>1. ASSUME NEW x \in Exchanges, Live(x), NEW i \in DOMAIN exch[x].out
        PROVE  exch[x].out[i] \in CookieLines
    <3>1. exch[x].out \in Seq(CookieLines)
      BY <1>1, <2>1 DEF RequestInv, RequestTypes
    <3> QED BY <2>1, <3>1
  <2> QED BY <2>1, LineFacts DEF CookiesAreGuarded
<1>4. TokensAreOwn
  <2>1. ASSUME NEW x \in Exchanges, Live(x), exch[x].mw, exch[x].unsafe, exch[x].session
        PROVE  /\ exch[x].tcookie.name = "csrf" /\ exch[x].supplied = exch[x].tcookie.wrote
               /\ exch[x].cross => ~RefusesCrossSite
    <3> DEFINE r == exch[x]
    <3>1. RequestInv(r) /\ TokenOk(r)
      BY <1>1, <2>1 DEF RequestInv
    <3>2. ~r.issue /\ r.supplied = r.token /\ ~(RefusesCrossSite /\ r.cross)
      BY <3>1 DEF TokenOk
    <3>3. r.tcookie.name = "csrf" /\ r.token = r.tcookie.payload
      BY <2>1, <3>1, <3>2 DEF RequestInv
    <3>4. r.tcookie \in Cookies
      BY <3>1, <3>3 DEF RequestInv, NoCookie
    <3>5. r.tcookie.payload = r.tcookie.wrote
      BY <3>4, CookieFacts
    <3> QED BY <3>2, <3>3, <3>5
  <2>2. \A x \in Exchanges : Live(x) =>
          (exch[x].asked # NoToken =>
             IF exch[x].mw THEN exch[x].asked = exch[x].token
             ELSE TrustRequestId /\ exch[x].id < exch[x].number)
    BY <1>1 DEF RequestInv, AskedInv
  <2>3. \A v \in Visitors : \A p \in pages[v] :
          p.mw => \E c \in kept[v] : c.name = "csrf" /\ c.payload = p.token
    BY DEF SessionInv, PagesInv
  <2> QED BY <2>1, <2>2, <2>3 DEF TokensAreOwn
<1> QED BY <1>2, <1>3, <1>4 DEF VisitorsAreKeptApart

\* However many visitors, requests and Lua states there are, whatever the caller's cookie
\* options and max_age: a handler finds what its own visitor's cookie carries until it
\* expires, both cookies are guarded, and a page has its own request's token when its
\* chain has the middleware, and without it only one of an earlier request whose id the
\* client was let repeat.
\* (session.rs, csrf.rs, http/cookies.rs)
THEOREM VisitorsStayApart == SessionSpec => []VisitorsAreKeptApart
BY SessionInvHolds, InvKeepsApart, PTL

-----------------------------------------------------------------------------
(* Uploads.                                                                *)
(*                                                                         *)
(* A request has one job with the pool at most, the one it awaits, until   *)
(* it ends; what it leaves then is that job and the ones that undo.  So a  *)
(* rename meets the file its request wrote to the end, and whatever was    *)
(* made has its removal queued behind it or is known to have leaked.       *)

UploadPaths == Uploads \X Nat
UploadJobs == [op : {"mkdir", "open", "rename", "remove", "rmdir"}, path : UploadPaths]
Awaiting == {"mkdir", "open", "popen", "persist", "discard", "rename", "remove", "unlink"}
Acting ==
  {"new", "plain", "reading", "field", "text", "drain", "spool", "handler", "part", "ptext", "skip",
   "saving", "raised"}

UploadRecs ==
  [stage : Awaiting \cup Acting \cup {"ended"}, how : Readers, body : Seq(BodyParts), got : Nat,
   read : Int, over : BOOLEAN, stalled : BOOLEAN, count : Nat, index : Nat, files : SUBSET Nat,
   bad : BOOLEAN, await : {<<>>} \cup UploadJobs, taken : BOOLEAN, buf : Nat, answer : Nat]

StagedFiles == [size : Nat, full : Nat]
Finished(f) == f.size = f.full /\ f.size <= MaxFile

InSpool == {"mkdir", "open", "spool", "unlink"}
InPart == {"popen", "saving", "persist", "discard", "part", "ptext", "skip"}

\* How far a request is with its body, stage by stage.
StageInv(u) ==
  /\ u \in UploadRecs
  /\ u.stage = "new" => u = Fresh0
  /\ u.stage \in InSpool \cup {"text", "drain", "rename", "remove"} => u.how \in {"input", "raw"}
  /\ u.stage \in InPart => u.how = "parts"
  /\ u.stage \in {"plain", "reading"} => u.how = "plain"
  /\ u.files # {} \/ u.bad => u.how \in {"input", "raw"}
  /\ u.stage \in InSpool \cup InPart \cup {"text", "drain"} => u.body # <<>>
  /\ u.stage = "raised" /\ u.how = "parts" => u.body # <<>>
  /\ u.stage \in {"field", "mkdir", "open", "popen", "plain"} => u.got = 0
  /\ u.stage = "field" => ~u.taken
  /\ u.stage = "part" /\ ~u.taken => u.got = 0
  /\ u.stage \in InPart \ {"part"} => u.taken
  /\ u.stage \in {"spool", "saving"} => u.buf = u.got
  /\ u.stage = "saving" => u.buf <= MaxFile
  /\ u.files \subseteq 1..u.index
  /\ u.stage \in InSpool => u.index > 0 /\ u.index \notin u.files
  /\ u.stage \in {"handler", "rename", "remove"} => ~u.bad
  /\ u.stage = "plain" => u.read = 0
  /\ u.stage = "reading" => u.read = u.got /\ u.got <= MaxBody
  /\ u.stage = "handler" /\ u.how = "plain" /\ u.buf > MaxBody => u.body = <<>>

\* The job a request awaits.
Awaits(r, u, j) ==
  CASE u.stage = "mkdir"   -> j = SpoolJob("mkdir", SpoolFile(r, u.index))
    [] u.stage = "open"    -> j = SpoolJob("open", SpoolFile(r, u.index))
    [] u.stage = "unlink"  -> j = SpoolJob("remove", SpoolFile(r, u.index))
    [] u.stage = "popen"   -> j = SpoolJob("open", PendingPath(r))
    [] u.stage = "persist" -> j = SpoolJob("rename", PendingPath(r))
    [] u.stage = "discard" -> j = SpoolJob("remove", PendingPath(r))
    [] u.stage = "rename"  -> \E i \in u.files : j = SpoolJob("rename", SpoolFile(r, i))
    [] u.stage = "remove"  -> \E i \in u.files : j = SpoolJob("remove", SpoolFile(r, i))

JobsOf(r) == {j \in jobs : OwnerOf(j) = r}
Makes(j) == j.op \in {"mkdir", "open", "rename"}

\* A creation that nobody awaits has leaked.
LeftBehind(r, j) ==
  /\ j.op \in {"mkdir", "open"} => r \in leaked
  /\ j.op = "open" => up[r].body # <<>>

JobsInv(r) ==
  /\ up[r].stage \in Awaiting => JobsOf(r) = {up[r].await} /\ Awaits(r, up[r], up[r].await)
  /\ up[r].stage \in Acting => up[r].await = <<>> /\ JobsOf(r) = {}
  /\ r \in held => up[r].stage = "ended"
  /\ up[r].stage = "ended" =>
       /\ up[r].await = <<>>
       /\ \A j \in JobsOf(r) : LeftBehind(r, j) /\ \A k \in JobsOf(r) : Makes(j) /\ Makes(k) => j = k

\* What a request has on the disk will go.
GoesInv(r) ==
  r \notin leaked =>
    /\ (r \in dirs \/ \E p \in FilesOf(r) : p[2] # 0)
         => /\ up[r].how \in {"input", "raw"}
            /\ up[r].stage = "ended" => SpoolJob("rmdir", SpoolFile(r, 0)) \in jobs
    /\ PendingPath(r) \in DOMAIN staged
         => \/ up[r].stage \in {"saving", "persist", "discard"}
            \/ up[r].stage = "ended" /\ (r \in held \/ SpoolJob("remove", PendingPath(r)) \in jobs)

\* What a request has written is as much as it read, and whole before it is renamed.
SizesInv(r) ==
  /\ up[r].stage = "spool" /\ CurrentSpool(r) \in DOMAIN staged =>
       /\ staged[CurrentSpool(r)].full = Part(r).size
       /\ up[r].buf <= MaxFile => staged[CurrentSpool(r)].size = up[r].buf
  /\ up[r].stage = "saving" /\ PendingPath(r) \in DOMAIN staged =>
       staged[PendingPath(r)].full = Part(r).size /\ staged[PendingPath(r)].size = up[r].buf
  /\ up[r].stage # "ended" /\ ~up[r].bad =>
       \A i \in up[r].files : SpoolFile(r, i) \in DOMAIN staged => Finished(staged[SpoolFile(r, i)])
  /\ \A j \in JobsOf(r) : j.op = "rename" /\ j.path \in DOMAIN staged => Finished(staged[j.path])

StoreTypeOK ==
  /\ DOMAIN up = Uploads
  /\ jobs \subseteq UploadJobs
  /\ staged \in [DOMAIN staged -> StagedFiles] /\ DOMAIN staged \subseteq UploadPaths

ReqInv(r) == StageInv(up[r]) /\ JobsInv(r) /\ GoesInv(r) /\ SizesInv(r)

UploadInv ==
  /\ StoreTypeOK
  /\ \A r \in Uploads : ReqInv(r)
  /\ Finished(target)

\* A step of r leaves the others where they are.
Apart(r) ==
  /\ DOMAIN up' = Uploads
  /\ \A q \in Uploads \ {r} :
       /\ up'[q] = up[q]
       /\ JobsOf(q)' = JobsOf(q)
       /\ FilesOf(q)' = FilesOf(q) /\ \A p \in FilesOf(q) : staged'[p] = staged[p]
       /\ (q \in dirs') = (q \in dirs) /\ (q \in leaked') = (q \in leaked) /\ (q \in held') = (q \in held)

LEMMA JobIsNoTuple == ASSUME NEW j \in UploadJobs PROVE j # <<>>
<1>1. "op" \in DOMAIN j /\ DOMAIN <<>> = {}
  BY DEF UploadJobs
<1> QED BY <1>1

LEMMA PathIsAPair == ASSUME NEW p \in UploadPaths PROVE p = <<p[1], p[2]>> /\ p[1] \in Uploads /\ p[2] \in Nat
<1> QED BY DEF UploadPaths

\* Its part of the invariant is about a request's own state.
LEMMA ApartKeeps ==
  ASSUME UploadInv, NEW r \in Uploads, Apart(r), NEW q \in Uploads, q # r
  PROVE  ReqInv(q)'
<1> USE DEF UploadInv
<1>1. /\ up'[q] = up[q] /\ JobsOf(q)' = JobsOf(q)
      /\ FilesOf(q)' = FilesOf(q) /\ \A p \in FilesOf(q) : staged'[p] = staged[p]
      /\ (q \in dirs') = (q \in dirs) /\ (q \in leaked') = (q \in leaked) /\ (q \in held') = (q \in held)
  BY DEF Apart
<1>2. ReqInv(q)
  OBVIOUS
<1>3. StageInv(up[q])'
  BY <1>1, <1>2 DEF ReqInv
<1>4. JobsInv(q)'
  BY <1>1, <1>2 DEF ReqInv, JobsInv, LeftBehind
<1>5. \A i : (SpoolFile(q, i) \in DOMAIN staged') = (SpoolFile(q, i) \in DOMAIN staged)
  BY <1>1 DEF FilesOf, SpoolFile
<1>6. \A i : SpoolFile(q, i) \in DOMAIN staged => staged'[SpoolFile(q, i)] = staged[SpoolFile(q, i)]
  BY <1>1 DEF FilesOf, SpoolFile
<1>7. \A o, p : p[1] = q => (SpoolJob(o, p) \in jobs') = (SpoolJob(o, p) \in jobs)
  BY <1>1 DEF JobsOf, OwnerOf, SpoolJob
<1>8. GoesInv(q)'
  BY <1>1, <1>2, <1>5, <1>7 DEF ReqInv, GoesInv, SpoolFile, PendingPath
<1>9. SizesInv(q)'
  <2>1. \A j \in JobsOf(q) : j.path = SpoolFile(q, j.path[2])
    BY PathIsAPair DEF JobsOf, OwnerOf, SpoolFile, StoreTypeOK, UploadJobs
  <2> QED BY <1>1, <1>2, <1>5, <1>6, <2>1 DEF ReqInv, SizesInv, SpoolFile, PendingPath, CurrentSpool, Part
<1> QED BY <1>3, <1>4, <1>8, <1>9 DEF ReqInv

\* Reading on: nothing but r's own record changes.
LEMMA ReadsOn ==
  ASSUME UploadInv, NEW r \in Uploads, NEW u, up' = [up EXCEPT ![r] = u], UNCHANGED <<jobs, disk, held, leaked>>,
         StageInv(u), up[r].stage \in Acting \ {"saving"}, u.stage \in Acting \ {"new", "spool", "saving"},
         u.await = up[r].await, up[r].stage = "new" \/ u.how = up[r].how,
         ~u.bad => ~up[r].bad /\ \A i \in u.files \ up[r].files :
                     SpoolFile(r, i) \in DOMAIN staged => Finished(staged[SpoolFile(r, i)])
  PROVE  UploadInv'
<1> USE DEF UploadInv, disk
<1>1. up'[r] = u /\ StoreTypeOK'
  BY DEF StoreTypeOK
<1>2. Apart(r)
  BY DEF Apart, StoreTypeOK, JobsOf, FilesOf
<1>3. ReqInv(r)
  OBVIOUS
<1>4. u.stage \notin Awaiting \cup {"ended"}
  BY DEF Acting, Awaiting
<1>5. JobsInv(r)'
  <2>1. r \notin held'
    BY <1>3 DEF ReqInv, JobsInv, Acting
  <2> QED BY <1>1, <1>3, <1>4, <2>1 DEF ReqInv, JobsInv, JobsOf
<1>6. GoesInv(r)'
  <2>1. up[r].stage = "new" => up[r].how = "plain"
    BY <1>3 DEF ReqInv, StageInv, Fresh0
  <2>2. up[r].stage \notin {"saving", "persist", "discard", "ended"}
    BY DEF Acting
  <2> QED BY <1>1, <1>3, <1>4, <2>1, <2>2 DEF ReqInv, GoesInv, FilesOf, PendingPath, SpoolFile
<1>7. SizesInv(r)'
  <2>1. up[r].stage # "ended" /\ JobsOf(r)' = {}
    BY <1>3 DEF Acting, ReqInv, JobsInv, JobsOf
  <2> QED BY <1>1, <1>3, <2>1 DEF ReqInv, SizesInv
<1> QED BY <1>1, <1>2, <1>3, <1>5, <1>6, <1>7, ApartKeeps DEF ReqInv

\* A job is given to the pool and awaited.
LEMMA SubmitKeeps ==
  ASSUME UploadInv, NEW r \in Uploads, NEW u, up' = [up EXCEPT ![r] = u], UNCHANGED <<disk, held, leaked>>,
         NEW j \in UploadJobs, jobs' = jobs \cup {j}, OwnerOf(j) = r, u.await = j, Awaits(r, u, j),
         StageInv(u), up[r].stage \in Acting, u.stage \in Awaiting,
         up[r].stage = "saving" => u.stage \in {"persist", "discard"},
         up[r].stage = "new" \/ u.how = up[r].how, u.files = up[r].files, u.bad = up[r].bad,
         j.op = "rename" /\ j.path \in DOMAIN staged => Finished(staged[j.path])
  PROVE  UploadInv'
<1> USE DEF UploadInv, disk
<1>1. up'[r] = u /\ StoreTypeOK'
  BY DEF StoreTypeOK
<1>2. Apart(r)
  BY DEF Apart, StoreTypeOK, JobsOf, FilesOf
<1>3. ReqInv(r) /\ up[r].stage \notin {"ended", "persist", "discard"}
  BY DEF Acting
<1>4. u.stage \notin Acting \cup {"ended", "spool", "saving", "new"}
  BY DEF Acting, Awaiting
<1>5. JobsOf(r)' = {j}
  BY <1>3 DEF ReqInv, JobsInv, JobsOf
<1>6. JobsInv(r)'
  <2>1. r \notin held'
    BY <1>3 DEF ReqInv, JobsInv
  <2> QED BY <1>1, <1>4, <1>5, <2>1 DEF JobsInv
<1>7. GoesInv(r)'
  <2>1. up[r].stage = "new" => up[r].how = "plain"
    BY <1>3 DEF ReqInv, StageInv, Fresh0
  <2> QED BY <1>1, <1>3, <1>4, <2>1 DEF ReqInv, GoesInv, FilesOf, PendingPath, SpoolFile
<1>8. SizesInv(r)'
  BY <1>1, <1>3, <1>4, <1>5 DEF ReqInv, SizesInv
<1> QED BY <1>1, <1>2, <1>6, <1>7, <1>8, ApartKeeps DEF ReqInv

LEMMA AwaitedOp ==
  ASSUME NEW r, NEW u, u.stage \in Awaiting, NEW j, Awaits(r, u, j)
  PROVE  /\ u.stage = "mkdir" <=> j.op = "mkdir"
         /\ u.stage \in {"open", "popen"} <=> j.op = "open"
         /\ u.stage \in {"rename", "persist"} <=> j.op = "rename"
         /\ u.stage \in {"remove", "unlink", "discard"} <=> j.op = "remove"
         /\ u.stage \in InSpool => j.path = SpoolFile(r, u.index)
         /\ u.stage \in InPart => j.path = PendingPath(r)
<1>1. CASE u.stage = "mkdir"
  BY <1>1 DEF Awaits, SpoolJob, InSpool, InPart
<1>2. CASE u.stage = "open"
  BY <1>2 DEF Awaits, SpoolJob, InSpool, InPart
<1>3. CASE u.stage = "unlink"
  BY <1>3 DEF Awaits, SpoolJob, InSpool, InPart
<1>4. CASE u.stage = "popen"
  BY <1>4 DEF Awaits, SpoolJob, InSpool, InPart
<1>5. CASE u.stage = "persist"
  BY <1>5 DEF Awaits, SpoolJob, InSpool, InPart
<1>6. CASE u.stage = "discard"
  BY <1>6 DEF Awaits, SpoolJob, InSpool, InPart
<1>7. CASE u.stage = "rename"
  BY <1>7 DEF Awaits, SpoolJob, InSpool, InPart
<1>8. CASE u.stage = "remove"
  BY <1>8 DEF Awaits, SpoolJob, InSpool, InPart
<1> QED BY <1>1, <1>2, <1>3, <1>4, <1>5, <1>6, <1>7, <1>8 DEF Awaiting

\* The end of a request, wherever it is.
LEMMA EndKeeps ==
  ASSUME UploadInv, NEW r \in Uploads, NEW u, up' = [up EXCEPT ![r] = u], UNCHANGED disk,
         NEW D \in {DropPending(r), {}}, jobs' = jobs \cup Cleanup(r) \cup D,
         held' = held \cup (IF DropPending(r) # D THEN {r} ELSE {}),
         leaked' = leaked \cup (IF InCreation(r) THEN {r} ELSE {}),
         StageInv(u), up[r].stage # "ended", u.stage = "ended", u.await = <<>>,
         u.how = up[r].how, u.body = up[r].body
  PROVE  UploadInv'
<1> USE DEF UploadInv, disk
<1> DEFINE dir == SpoolJob("rmdir", SpoolFile(r, 0))
           file == SpoolJob("remove", PendingPath(r))
<1>0. up[r] \in UploadRecs /\ ReqInv(r) /\ up[r].stage \in Acting \cup Awaiting
  BY DEF ReqInv, StageInv, UploadRecs
<1>1. dir \in UploadJobs /\ file \in UploadJobs /\ OwnerOf(dir) = r /\ OwnerOf(file) = r /\ ~Makes(dir) /\ ~Makes(file)
  BY DEF SpoolJob, SpoolFile, PendingPath, UploadJobs, UploadPaths, OwnerOf, Makes
<1>2. Cleanup(r) \subseteq {dir} /\ D \subseteq {file}
  BY DEF Cleanup, DropPending
<1>3. up'[r] = u /\ StoreTypeOK'
  BY <1>1, <1>2 DEF StoreTypeOK
<1>4. Apart(r)
  BY <1>1, <1>2 DEF Apart, StoreTypeOK, JobsOf, FilesOf
<1>5. JobsOf(r)' \subseteq JobsOf(r) \cup {dir, file}
  BY <1>1, <1>2 DEF JobsOf
<1>6. JobsInv(r)'
  <2>1. ASSUME NEW j \in JobsOf(r), Makes(j)
        PROVE  j = up[r].await /\ Awaits(r, up[r], j) /\ up[r].stage \in Awaiting
    BY <1>0, <2>1 DEF ReqInv, JobsInv
  <2>2. ASSUME NEW j \in JobsOf(r), Makes(j) PROVE LeftBehind(r, j)'
    <3> DEFINE v == up[r]
    <3>0. v.stage \in Awaiting /\ Awaits(r, v, j)
      BY <2>1, <2>2
    <3> HIDE DEF v
    <3>1. /\ j.op = "mkdir" => v.stage = "mkdir"
          /\ j.op = "open" => v.stage \in {"open", "popen"}
      BY <3>0, AwaitedOp
    <3> USE DEF v
    <3> QED BY <1>0, <1>3, <3>1 DEF LeftBehind, InCreation, ReqInv, StageInv, InSpool, InPart
  <2>3. ASSUME NEW j \in {dir, file} PROVE LeftBehind(r, j)'
    BY <2>3 DEF LeftBehind, SpoolJob
  <2>4. \A j \in JobsOf(r) : ~Makes(j) => LeftBehind(r, j)'
    BY DEF LeftBehind, Makes, SpoolJob
  <2>5. \A j \in JobsOf(r)' : LeftBehind(r, j)'
    BY <1>5, <2>2, <2>3, <2>4
  <2>6. \A j, k \in JobsOf(r)' : Makes(j) /\ Makes(k) => j = k
    BY <1>1, <1>5, <2>1
  <2>7. u.stage \notin Acting \cup Awaiting
    BY DEF Acting, Awaiting
  <2> QED BY <1>3, <2>5, <2>6, <2>7 DEF JobsInv
<1>7. GoesInv(r)'
  <2> SUFFICES ASSUME r \notin leaked' PROVE GoesInv(r)'
    BY DEF GoesInv
  <2>1. r \notin leaked
    OBVIOUS
  <2>2. up[r].how \in {"input", "raw"} => dir \in jobs'
    BY DEF Cleanup
  <2>3. up[r].stage \in {"saving", "persist", "discard"} => file \in jobs' \/ r \in held'
    BY DEF DropPending
  <2> QED BY <1>0, <1>3, <2>1, <2>2, <2>3 DEF ReqInv, GoesInv, FilesOf, PendingPath, SpoolFile
<1>8. SizesInv(r)'
  <2>1. \A j \in JobsOf(r)' : j.op = "rename" => j \in JobsOf(r)
    BY <1>5 DEF SpoolJob
  <2> QED BY <1>0, <1>3, <2>1 DEF ReqInv, SizesInv
<1> QED BY <1>3, <1>4, <1>6, <1>7, <1>8, ApartKeeps DEF ReqInv

LEMMA RequestFacts ==
  ASSUME UploadInv, NEW r \in Uploads
  PROVE  /\ StageInv(up[r]) /\ up[r] \in UploadRecs
         /\ up[r].body # <<>> => Part(r) \in BodyParts /\ Rest(r) \in Seq(BodyParts)
         /\ up[r].stage \in Acting => up[r].await = <<>>
<1>1. StageInv(up[r]) /\ JobsInv(r)
  BY DEF UploadInv, ReqInv
<1>2. up[r] \in UploadRecs
  BY <1>1 DEF StageInv
<1>3. up[r].body \in Seq(BodyParts)
  BY <1>2 DEF UploadRecs
<1> QED BY <1>1, <1>2, <1>3 DEF JobsInv, Part, Rest

\* What reading on leaves alone.
Same(u, v) == u.how = v.how /\ u.await = v.await /\ u.files = v.files /\ u.bad = v.bad /\ u.index = v.index

\* Reading on with the same files.
LEMMA GoesOn ==
  ASSUME UploadInv, NEW r \in Uploads, NEW u, up' = [up EXCEPT ![r] = u], UNCHANGED <<jobs, disk, world>>,
         StageInv(u), up[r].stage \in Acting \ {"new", "saving"}, u.stage \in Acting \ {"new", "spool", "saving"},
         Same(u, up[r])
  PROVE  UploadInv'
<1>1. UNCHANGED <<jobs, disk, held, leaked>>
  BY DEF world
<1> QED BY <1>1, ReadsOn DEF Same

LEMMA NextPartStage ==
  ASSUME UploadInv, NEW r \in Uploads, up[r].body # <<>>,
         up[r].stage \in Acting \cup {"unlink"}
  PROVE  /\ StageInv(NextPart(r)) /\ NextPart(r).stage = "field" /\ Same(NextPart(r), up[r])
         /\ NextPart(r) \in UploadRecs /\ NextPart(r).read = up[r].read
<1> DEFINE v == up[r]
<1>1. StageInv(v) /\ v \in UploadRecs /\ Tail(v.body) \in Seq(BodyParts)
  BY RequestFacts DEF Rest
<1> DEFINE u == [v EXCEPT !.stage = "field", !.body = Tail(v.body), !.got = 0, !.taken = FALSE]
<1> HIDE DEF v
<1>2. u \in UploadRecs /\ u.stage = "field" /\ Same(u, v) /\ u.read = v.read /\ u.got = 0 /\ ~u.taken
  BY <1>1 DEF UploadRecs, Same, Acting
<1> HIDE DEF u
<1>3. StageInv(u)
  BY <1>1, <1>2 DEF StageInv, InSpool, InPart, Same, UploadRecs
<1>4. NextPart(r) = u
  BY DEF NextPart, u, v
<1> QED BY <1>2, <1>3, <1>4 DEF v

\* A chunk was read.
LEMMA GotFields ==
  ASSUME UploadInv, NEW r \in Uploads
  PROVE  /\ Got(r) \in UploadRecs /\ Same(Got(r), up[r]) /\ Got(r).stage = up[r].stage /\ Got(r).buf = up[r].buf
         /\ Got(r).got = up[r].got + 1 /\ Got(r).body = up[r].body /\ Got(r).taken = up[r].taken
<1> DEFINE v == up[r]
<1>1. v \in UploadRecs
  BY RequestFacts
<1> HIDE DEF v
<1>2. ASSUME NEW n \in Nat, NEW m \in Int
      PROVE  LET u == [v EXCEPT !.got = n, !.read = m]
             IN  /\ u \in UploadRecs /\ u.got = n /\ Same(u, v) /\ u.stage = v.stage /\ u.buf = v.buf
                 /\ u.body = v.body /\ u.taken = v.taken
  BY <1>1 DEF UploadRecs, Same
<1>3. v.got + 1 \in Nat /\ v.read + 1 \in Int
  BY <1>1 DEF UploadRecs
<1> QED BY <1>2, <1>3 DEF Got, v

\* And counted ...
LEMMA CountedFields ==
  ASSUME UploadInv, NEW r \in Uploads, NEW b \in Nat
  PROVE  LET u == [Got(r) EXCEPT !.buf = b]
         IN  /\ u \in UploadRecs /\ Same(u, up[r]) /\ u.stage = up[r].stage /\ u.buf = b
             /\ u.got = up[r].got + 1 /\ u.body = up[r].body /\ u.taken = up[r].taken
<1> DEFINE g == Got(r)
<1>1. /\ g \in UploadRecs /\ Same(g, up[r]) /\ g.stage = up[r].stage
      /\ g.got = up[r].got + 1 /\ g.body = up[r].body /\ g.taken = up[r].taken
  BY GotFields
<1> HIDE DEF g
<1>2. [g EXCEPT !.buf = b] \in UploadRecs
  BY <1>1 DEF UploadRecs
<1> QED BY <1>1, <1>2 DEF UploadRecs, Same, g

\* ... or one too many.
LEMMA RaisedFields ==
  ASSUME UploadInv, NEW r \in Uploads
  PROVE  LET u == [Got(r) EXCEPT !.stage = "raised"]
         IN  u \in UploadRecs /\ Same(u, up[r]) /\ u.stage = "raised" /\ u.body = up[r].body
<1> DEFINE g == Got(r)
<1>1. g \in UploadRecs /\ Same(g, up[r]) /\ g.body = up[r].body
  BY GotFields
<1> HIDE DEF g
<1>2. [g EXCEPT !.stage = "raised"] \in UploadRecs
  BY <1>1 DEF UploadRecs, Acting
<1> QED BY <1>1, <1>2 DEF UploadRecs, Same, g

LEMMA ReadTextKeeps == ASSUME UploadInv, NEW r \in Uploads, ReadText(r) PROVE UploadInv'
<1> DEFINE v == up[r]
<1>0. StageInv(v) /\ v \in UploadRecs /\ v.stage = "text"
  BY RequestFacts DEF ReadText
<1> DEFINE b == IF Got(r).buf + 1 > MaxField THEN Got(r).buf ELSE Got(r).buf + 1
<1>1. b \in Nat /\ up' = [up EXCEPT ![r] = [Got(r) EXCEPT !.buf = b]] /\ UNCHANGED <<jobs, disk, world>>
  <2>1. Got(r).buf \in Nat
    BY GotFields DEF UploadRecs
  <2>2. b \in Nat
    BY <2>1
  <2> QED BY <2>2 DEF ReadText, Set
<1> HIDE DEF b
<1> DEFINE u == [Got(r) EXCEPT !.buf = b]
<1>2. u \in UploadRecs /\ Same(u, v) /\ u.stage = "text" /\ u.body = v.body
  BY <1>0, <1>1, CountedFields DEF Acting
<1> HIDE DEF u, v
<1>3. StageInv(u)
  BY <1>0, <1>2 DEF StageInv, InSpool, InPart, Same
<1> QED BY <1>0, <1>1, <1>2, <1>3, GoesOn DEF Acting, u, v

LEMMA DrainKeeps == ASSUME UploadInv, NEW r \in Uploads, Drain(r) PROVE UploadInv'
<1> DEFINE v == up[r]
<1>0. StageInv(v) /\ v \in UploadRecs /\ v.stage = "drain" /\ UNCHANGED <<jobs, disk, world>>
  BY RequestFacts DEF Drain
<1>1. CASE up' = [up EXCEPT ![r] = Got(r)]
  <2> DEFINE u == Got(r)
  <2>1. u \in UploadRecs /\ Same(u, v) /\ u.stage = "drain" /\ u.body = v.body
    BY <1>0, GotFields
  <2> HIDE DEF u, v
  <2>2. StageInv(u)
    BY <1>0, <2>1 DEF StageInv, InSpool, InPart, Same
  <2> QED BY <1>0, <1>1, <2>1, <2>2, GoesOn DEF Acting, u, v
<1>2. CASE up' = [up EXCEPT ![r] = NextPart(r)]
  <2>1. v.body # <<>>
    BY <1>0 DEF StageInv
  <2> QED BY <1>0, <1>2, <2>1, NextPartStage, GoesOn DEF Acting
<1> QED BY <1>1, <1>2 DEF Drain, Set

\* Steps that only move the stage.
LEMMA AtKeeps ==
  ASSUME UploadInv, NEW r \in Uploads, NEW s, At(r, s), UNCHANGED <<jobs, disk, world>>,
         \/ up[r].stage = "field" /\ s = "handler" /\ ~up[r].bad /\ up[r].how # "plain"
         \/ up[r].stage \in {"ptext", "skip"} /\ s = "part"
         \/ up[r].stage = "reading" /\ s = "handler" /\ ~WantsFrame(r)
  PROVE  UploadInv'
<1> DEFINE v == up[r]
           u == [v EXCEPT !.stage = s]
<1>0. StageInv(v) /\ v \in UploadRecs
  BY RequestFacts
<1>1. v.stage = "reading" => v.got \in Nat /\ v.buf \in Nat /\ (v.got < ClampWant(v.buf) => v.body = <<>>)
  BY <1>0 DEF WantsFrame, UploadRecs
<1>2. \/ v.stage = "field" /\ s = "handler" /\ ~v.bad /\ v.how # "plain"
      \/ v.stage \in {"ptext", "skip"} /\ s = "part"
      \/ v.stage = "reading" /\ s = "handler"
  OBVIOUS
<1> HIDE DEF v
<1>3. /\ u \in UploadRecs /\ u.stage = s /\ Same(u, v) /\ u.body = v.body /\ u.taken = v.taken /\ u.buf = v.buf
      /\ u.got = v.got
  BY <1>0, <1>2 DEF UploadRecs, Same, Acting
<1>4. up' = [up EXCEPT ![r] = u]
  BY DEF At, Set, v
<1> HIDE DEF u
<1>5. v.stage = "reading" /\ v.buf > MaxBody => v.body = <<>>
  <2> SUFFICES ASSUME v.stage = "reading", v.buf > MaxBody PROVE v.got < ClampWant(v.buf)
    BY <1>1
  <2> QED BY <1>0, <1>1, UploadLimitsAreNatural DEF StageInv, ClampWant
<1>6. v.stage = "reading" => ~v.bad
  BY <1>0 DEF StageInv
<1>7. StageInv(u)
  BY <1>0, <1>2, <1>3, <1>5, <1>6 DEF StageInv, InSpool, InPart, Same
<1> QED BY <1>2, <1>3, <1>4, <1>7, GoesOn DEF Acting, v

LEMMA ReadingKeeps == ASSUME UploadInv, NEW r \in Uploads, AskRead(r) \/ ReadFrame(r) PROVE UploadInv'
<1> DEFINE v == up[r]
<1>0. StageInv(v) /\ v \in UploadRecs /\ v.stage \in {"plain", "reading"} /\ UNCHANGED <<jobs, disk, world>>
  BY RequestFacts DEF AskRead, ReadFrame
<1>1. CASE AskRead(r)
  <2>1. PICK want \in {MaxBody, MaxBody + 1, MaxBody + 2} :
               up' = [up EXCEPT ![r] = [v EXCEPT !.stage = "reading", !.buf = want]]
    BY <1>1 DEF AskRead, Set
  <2>6. want \in Nat
    BY UploadLimitsAreNatural
  <2> DEFINE u == [v EXCEPT !.stage = "reading", !.buf = want]
  <2>2. v.stage = "plain"
    BY <1>1 DEF AskRead
  <2> HIDE DEF v
  <2>3. /\ u \in UploadRecs /\ u.stage = "reading" /\ Same(u, v) /\ u.body = v.body /\ u.read = v.read /\ u.got = v.got
    BY <1>0, <2>6 DEF UploadRecs, Same, Acting
  <2>4. up' = [up EXCEPT ![r] = u]
    BY <2>1
  <2> HIDE DEF u
  <2>5. StageInv(u)
    BY <1>0, <2>2, <2>3, UploadLimitsAreNatural DEF StageInv, InSpool, InPart, Same
  <2> QED BY <1>0, <2>3, <2>4, <2>5, GoesOn DEF Acting, v
<1>2. CASE up' = [up EXCEPT ![r] = [v EXCEPT !.over = TRUE, !.stage = "raised"]]
  <2> DEFINE u == [v EXCEPT !.over = TRUE, !.stage = "raised"]
  <2> HIDE DEF v
  <2>1. u \in UploadRecs /\ u.stage = "raised" /\ Same(u, v)
    BY <1>0 DEF UploadRecs, Same, Acting
  <2>2. up' = [up EXCEPT ![r] = u]
    BY <1>2
  <2> HIDE DEF u
  <2>3. StageInv(u)
    BY <1>0, <2>1 DEF StageInv, InSpool, InPart, Same
  <2> QED BY <1>0, <2>1, <2>2, <2>3, GoesOn DEF Acting, v
<1>3. CASE ReadFrame(r) /\ ~PassesLimit(r, Part(r).size)
  <2> DEFINE n == Part(r).size
             u == [v EXCEPT !.read = v.read + n, !.got = v.got + n, !.body = Rest(r)]
  <2>1. v.stage = "reading" /\ n \in Nat /\ Rest(r) \in Seq(BodyParts) /\ ~(v.read + n > MaxBody)
    BY <1>3, RequestFacts DEF ReadFrame, WantsFrame, PassesLimit, BodyParts
  <2>2. up' = [up EXCEPT ![r] = u]
    BY <1>3 DEF ReadFrame, Set
  <2> HIDE DEF v, n
  <2>3. v.read + n \in Int /\ v.got + n \in Nat
    BY <1>0, <2>1 DEF UploadRecs
  <2>4. u \in UploadRecs /\ u.stage = "reading" /\ Same(u, v) /\ u.read = v.read + n /\ u.got = v.got + n
    BY <1>0, <2>1, <2>3 DEF UploadRecs, Same, Acting
  <2> HIDE DEF u
  <2>5. StageInv(u)
    BY <1>0, <2>1, <2>3, <2>4, UploadLimitsAreNatural DEF StageInv, InSpool, InPart, Same
  <2> QED BY <1>0, <2>1, <2>2, <2>4, <2>5, GoesOn DEF Acting, v
<1> QED BY <1>1, <1>2, <1>3 DEF ReadFrame, Set

\* The callback is called, and takes the part or returns.
LEMMA PartKeeps ==
  ASSUME UploadInv, NEW r \in Uploads, NEW u, up' = [up EXCEPT ![r] = u], UNCHANGED <<jobs, disk, world>>,
         \/ /\ up[r].stage = "field" /\ up[r].how = "parts" /\ up[r].body # <<>>
            /\ u = [up[r] EXCEPT !.stage = "part", !.count = up[r].count + 1, !.buf = 0]
         \/ /\ up[r].stage = "part"
            /\ \E s \in {"ptext", "skip"} : u = [up[r] EXCEPT !.taken = TRUE, !.buf = 0, !.stage = s]
  PROVE  UploadInv'
<1> DEFINE v == up[r]
<1>0. StageInv(v) /\ v \in UploadRecs
  BY RequestFacts
<1> HIDE DEF v
<1>1. CASE /\ v.stage = "field" /\ v.how = "parts" /\ v.body # <<>>
           /\ u = [v EXCEPT !.stage = "part", !.count = v.count + 1, !.buf = 0]
  <2>1. v.count + 1 \in Nat
    BY <1>0 DEF UploadRecs
  <2>2. u \in UploadRecs /\ u.stage = "part" /\ Same(u, v) /\ u.body = v.body /\ u.got = v.got
    BY <1>0, <1>1, <2>1 DEF UploadRecs, Same, Acting
  <2>3. StageInv(u)
    BY <1>0, <1>1, <2>2 DEF StageInv, InSpool, InPart, Same
  <2> QED BY <1>1, <2>2, <2>3, GoesOn DEF Acting, v
<1>2. CASE /\ v.stage = "part"
           /\ \E s \in {"ptext", "skip"} : u = [v EXCEPT !.taken = TRUE, !.buf = 0, !.stage = s]
  <2>1. PICK s \in {"ptext", "skip"} : u = [v EXCEPT !.taken = TRUE, !.buf = 0, !.stage = s]
    BY <1>2
  <2>2. u \in UploadRecs /\ u.stage = s /\ Same(u, v) /\ u.body = v.body /\ u.taken
    BY <1>0, <2>1 DEF UploadRecs, Same, Acting
  <2>3. StageInv(u)
    BY <1>0, <1>2, <2>2 DEF StageInv, InSpool, InPart, Same
  <2> QED BY <1>2, <2>2, <2>3, GoesOn DEF Acting, v
<1> QED BY <1>1, <1>2 DEF v

LEMMA PartReturnKeeps ==
  ASSUME UploadInv, NEW r \in Uploads, up[r].stage \in {"part", "raised"}, up[r].how = "parts", NEW left,
         left = Part(r).size - up[r].got, Set(r, [NextPart(r) EXCEPT !.read = @ + left]),
         UNCHANGED <<jobs, disk, world>>
  PROVE  UploadInv'
<1> DEFINE g == NextPart(r)
<1>0. StageInv(up[r]) /\ up[r] \in UploadRecs /\ up[r].body # <<>>
  BY RequestFacts DEF StageInv, InPart
<1>1. left \in Int
  BY <1>0, RequestFacts DEF UploadRecs, BodyParts
<1>2. StageInv(g) /\ g.stage = "field" /\ Same(g, up[r]) /\ g \in UploadRecs
  BY <1>0, NextPartStage DEF Acting
<1> HIDE DEF g
<1> DEFINE u == [g EXCEPT !.read = g.read + left]
<1>3. g.read + left \in Int
  BY <1>1, <1>2 DEF UploadRecs
<1>4. /\ u \in UploadRecs /\ u.stage = g.stage /\ Same(u, g) /\ u.got = g.got /\ u.taken = g.taken
  BY <1>2, <1>3 DEF UploadRecs, Same
<1>5. up' = [up EXCEPT ![r] = u]
  BY DEF Set, g
<1> HIDE DEF u
<1>6. StageInv(u)
  BY <1>2, <1>4 DEF StageInv, InSpool, InPart, Same
<1> QED BY <1>2, <1>4, <1>5, <1>6, GoesOn DEF Acting, Same

\* part:text() and part:discard().
LEMMA PartChunkRead ==
  ASSUME UploadInv, NEW r \in Uploads, up[r].stage \in {"ptext", "skip"}, UNCHANGED <<jobs, disk, world>>,
         \/ Set(r, [Got(r) EXCEPT !.buf = up[r].buf + 1])
         \/ Set(r, [Got(r) EXCEPT !.stage = "raised"])
  PROVE  UploadInv'
<1> DEFINE v == up[r]
<1>0. StageInv(v) /\ v \in UploadRecs /\ v.buf + 1 \in Nat
  BY RequestFacts DEF UploadRecs
<1>1. CASE Set(r, [Got(r) EXCEPT !.buf = up[r].buf + 1])
  <2> DEFINE u == [Got(r) EXCEPT !.buf = v.buf + 1]
  <2>1. u \in UploadRecs /\ Same(u, v) /\ u.stage = v.stage /\ u.body = v.body /\ u.taken = v.taken
    BY <1>0, CountedFields
  <2> HIDE DEF u
  <2>2. StageInv(u)
    BY <1>0, <2>1 DEF StageInv, InSpool, InPart, Same
  <2> QED BY <1>1, <2>1, <2>2, GoesOn DEF Acting, u, Set
<1>2. CASE Set(r, [Got(r) EXCEPT !.stage = "raised"])
  <2> DEFINE u == [Got(r) EXCEPT !.stage = "raised"]
  <2>1. u \in UploadRecs /\ Same(u, v) /\ u.stage = "raised" /\ u.body = v.body
    BY RaisedFields
  <2> HIDE DEF u
  <2>2. StageInv(u)
    BY <1>0, <2>1 DEF StageInv, InSpool, InPart, Same
  <2> QED BY <1>2, <2>1, <2>2, GoesOn DEF Acting, u, Set
<1> QED BY <1>1, <1>2

\* A file is at its end.
LEMMA FileEnds ==
  ASSUME UploadInv, NEW r \in Uploads, up[r].stage = "spool", WholePart(r), UNCHANGED <<jobs, disk, world>>,
         Set(r, [NextPart(r) EXCEPT !.files = @ \cup {up[r].index}, !.bad = @ \/ TooLarge(r)])
  PROVE  UploadInv'
<1> DEFINE g == NextPart(r)
           v == up[r]
<1>0. StageInv(v) /\ v \in UploadRecs /\ v.body # <<>> /\ SizesInv(r)
  BY RequestFacts DEF StageInv, InSpool, UploadInv, ReqInv
<1>1. StageInv(g) /\ g.stage = "field" /\ Same(g, v) /\ g \in UploadRecs
  BY <1>0, NextPartStage DEF Acting
<1>2. TooLarge(r) \in BOOLEAN
  BY DEF TooLarge
<1> HIDE DEF g
<1> DEFINE u == [g EXCEPT !.files = g.files \cup {v.index}, !.bad = g.bad \/ TooLarge(r)]
<1>3. g.files \cup {v.index} \in SUBSET Nat /\ (g.bad \/ TooLarge(r)) \in BOOLEAN
  BY <1>0, <1>1, <1>2 DEF UploadRecs
<1>4. /\ u \in UploadRecs /\ u.stage = "field" /\ u.how = g.how /\ u.await = g.await /\ u.index = g.index
      /\ u.got = g.got /\ u.taken = g.taken /\ u.files = g.files \cup {v.index} /\ u.bad = (g.bad \/ TooLarge(r))
  BY <1>1, <1>3 DEF UploadRecs
<1>5. up' = [up EXCEPT ![r] = u]
  BY DEF Set, g
<1> HIDE DEF u
<1>6. v.index \in 1..u.index /\ u.how \in {"input", "raw"}
  <2>1. v.index \in Nat
    BY <1>0 DEF UploadRecs
  <2>2. v.index > 0 /\ v.how \in {"input", "raw"}
    BY ONLY <1>0, v.stage = "spool" DEF StageInv, InSpool
  <2>3. u.index = v.index /\ u.how = v.how
    BY <1>1, <1>4 DEF Same
  <2> HIDE DEF v
  <2> QED BY ONLY <2>1, <2>2, <2>3
<1>7. StageInv(u)
  BY <1>1, <1>4, <1>6 DEF StageInv, InSpool, InPart
<1>8. ASSUME ~u.bad, SpoolFile(r, v.index) \in DOMAIN staged
      PROVE  ~v.bad /\ Finished(staged[SpoolFile(r, v.index)])
  <2>1. ~v.bad /\ ~(v.buf > MaxFile) /\ v.buf = v.got /\ v.got = Part(r).size /\ v.buf \in Nat
    BY <1>0, <1>1, <1>4, <1>8 DEF Same, TooLarge, StageInv, WholePart, UploadRecs
  <2>2. staged[SpoolFile(r, v.index)].full = Part(r).size /\ staged[SpoolFile(r, v.index)].size = v.buf
    BY <1>0, <1>8, <2>1, UploadLimitsAreNatural DEF SizesInv, CurrentSpool
  <2> QED BY <2>1, <2>2, UploadLimitsAreNatural DEF Finished
<1>9. ~u.bad => ~v.bad /\ \A i \in u.files \ v.files :
                  SpoolFile(r, i) \in DOMAIN staged => Finished(staged[SpoolFile(r, i)])
  BY <1>1, <1>4, <1>8 DEF Same
<1> QED BY <1>1, <1>4, <1>5, <1>7, <1>9, ReadsOn DEF Acting, Same, world

LEMMA SubmittedFields ==
  ASSUME NEW v \in UploadRecs, NEW s \in Awaiting, NEW j \in UploadJobs
  PROVE  LET u == [v EXCEPT !.stage = s, !.await = j]
         IN  /\ u \in UploadRecs /\ u.stage = s /\ u.await = j /\ u.how = v.how /\ u.body = v.body /\ u.got = v.got
             /\ u.index = v.index /\ u.files = v.files /\ u.bad = v.bad /\ u.taken = v.taken
<1> QED BY DEF UploadRecs

LEMMA JobTypes ==
  ASSUME NEW r \in Uploads, NEW i \in Nat, NEW o \in {"mkdir", "open", "rename", "remove", "rmdir"}
  PROVE  /\ SpoolJob(o, SpoolFile(r, i)) \in UploadJobs /\ OwnerOf(SpoolJob(o, SpoolFile(r, i))) = r
         /\ SpoolJob(o, PendingPath(r)) \in UploadJobs /\ OwnerOf(SpoolJob(o, PendingPath(r))) = r
         /\ SpoolJob(o, SpoolFile(r, i)).op = o /\ SpoolJob(o, PendingPath(r)).op = o
         /\ SpoolJob(o, SpoolFile(r, i)).path = SpoolFile(r, i) /\ SpoolJob(o, PendingPath(r)).path = PendingPath(r)
<1> QED BY DEF SpoolJob, SpoolFile, PendingPath, UploadJobs, UploadPaths, OwnerOf

\* A request arrives.
LEMMA ArriveKeeps == ASSUME UploadInv, NEW r \in Uploads, ArriveUpload(r) PROVE UploadInv'
<1> DEFINE v == up[r]
<1>0. StageInv(v) /\ v \in UploadRecs /\ v = Fresh0 /\ v.stage = "new" /\ UNCHANGED <<disk, world>>
  BY RequestFacts DEF ArriveUpload, StageInv
<1>1. PICK how \in Readers, b \in Bodies[r] :
         LET rec == [v EXCEPT !.how = how, !.body = b]
         IN  \/ /\ how = "raw" /\ Len(b) = 1
                /\ Submit(r, [rec EXCEPT !.index = 1], "mkdir", SpoolJob("mkdir", SpoolFile(r, 1)))
             \/ /\ how # "raw"
                /\ Set(r, [rec EXCEPT !.stage = IF how = "plain" THEN "plain" ELSE "field"])
                /\ UNCHANGED jobs
  BY DEF ArriveUpload
<1>2. b \in Seq(BodyParts)
  BY BodiesAreParts
<1> DEFINE w == [v EXCEPT !.how = how, !.body = b]
<1>3. /\ v.got = 0 /\ v.read = 0 /\ ~v.taken /\ v.files = {} /\ ~v.bad /\ v.buf = 0
  BY <1>0 DEF Fresh0
<1> HIDE DEF v
<1>4. /\ w \in UploadRecs /\ w.stage = "new" /\ w.how = how /\ w.body = b /\ w.got = 0 /\ w.read = 0 /\ ~w.taken
      /\ w.files = {} /\ ~w.bad /\ w.bad = v.bad /\ w.buf = 0 /\ w.await = v.await
  BY <1>0, <1>2, <1>3 DEF UploadRecs
<1>5. CASE how = "raw"
  <2> DEFINE j == SpoolJob("mkdir", SpoolFile(r, 1))
             x == [w EXCEPT !.index = 1]
             u == [x EXCEPT !.stage = "mkdir", !.await = j]
  <2>1. up' = [up EXCEPT ![r] = u] /\ jobs' = jobs \cup {j} /\ Len(b) = 1
    BY <1>1, <1>5 DEF Submit, Set, v
  <2> HIDE DEF w
  <2>2. /\ x \in UploadRecs /\ x.how = how /\ x.body = b /\ x.got = 0 /\ ~x.taken /\ x.files = {} /\ x.bad = v.bad
        /\ x.index = 1
    BY <1>4 DEF UploadRecs
  <2>3. j \in UploadJobs /\ OwnerOf(j) = r /\ j.op = "mkdir"
    BY JobTypes
  <2>7. "mkdir" \in Awaiting /\ b # <<>>
    BY <1>2, <2>1 DEF Awaiting
  <2> HIDE DEF x, j
  <2>4. /\ u \in UploadRecs /\ u.stage = "mkdir" /\ u.await = j /\ u.how = how /\ u.body = b /\ u.got = 0
        /\ u.index = 1 /\ u.files = {} /\ u.bad = v.bad
    <3>1. /\ u \in UploadRecs /\ u.stage = "mkdir" /\ u.await = j /\ u.how = x.how /\ u.body = x.body /\ u.got = x.got
          /\ u.index = x.index /\ u.files = x.files /\ u.bad = x.bad
      <4>1. x \in UploadRecs /\ j \in UploadJobs /\ "mkdir" \in Awaiting
        BY <2>2, <2>3, <2>7
      <4> QED BY ONLY <4>1 DEF UploadRecs
    <3> QED BY <2>2, <3>1
  <2> HIDE DEF u
  <2>5. StageInv(u)
    BY <1>3, <1>5, <2>4, <2>7 DEF StageInv, InSpool, InPart
  <2>6. Awaits(r, u, j)
    BY <2>4 DEF Awaits, j
  <2> QED BY <1>0, <1>3, <2>1, <2>3, <2>4, <2>5, <2>6, SubmitKeeps DEF Acting, Awaiting, v, world
<1>6. CASE how # "raw"
  <2> DEFINE s == IF how = "plain" THEN "plain" ELSE "field"
             u == [w EXCEPT !.stage = s]
  <2>1. up' = [up EXCEPT ![r] = u] /\ UNCHANGED jobs
    BY <1>1, <1>6 DEF Set, v
  <2>2. s \in {"plain", "field"} /\ (s = "plain" => how = "plain")
    OBVIOUS
  <2> HIDE DEF w, s
  <2>3. /\ u \in UploadRecs /\ u.stage = s /\ u.how = how /\ u.got = 0 /\ u.read = 0 /\ ~u.taken
        /\ u.files = {} /\ ~u.bad /\ u.await = v.await
    BY <1>4, <2>2 DEF UploadRecs, Acting
  <2> HIDE DEF u
  <2>4. StageInv(u)
    BY <1>6, <2>2, <2>3 DEF StageInv, InSpool, InPart
  <2> QED BY <1>0, <1>3, <2>1, <2>2, <2>3, <2>4, ReadsOn DEF Acting, v, world
<1> QED BY <1>5, <1>6

\* A part is taken up, and a declared file gets its directory.
LEMMA FieldKeeps ==
  ASSUME UploadInv, NEW r \in Uploads, up[r].stage = "field", up[r].how = "input", up[r].body # <<>>,
         UNCHANGED <<disk, world>>, NEW rec, rec = [up[r] EXCEPT !.count = @ + 1],
         \/ \E s \in {"text", "drain"} : Set(r, [rec EXCEPT !.stage = s, !.buf = 0]) /\ UNCHANGED jobs
         \/ Submit(r, [rec EXCEPT !.index = up[r].index + 1], "mkdir", SpoolJob("mkdir", SpoolFile(r, up[r].index + 1)))
  PROVE  UploadInv'
<1> DEFINE v == up[r]
           i == v.index + 1
<1>0. StageInv(v) /\ v \in UploadRecs /\ v.count + 1 \in Nat /\ i \in Nat
  BY RequestFacts DEF UploadRecs
<1>1. rec = [v EXCEPT !.count = v.count + 1]
  OBVIOUS
<1> HIDE DEF v
<1>2. /\ rec \in UploadRecs /\ Same(rec, v) /\ rec.body = v.body /\ rec.got = v.got /\ rec.taken = v.taken
  BY <1>0, <1>1 DEF UploadRecs, Same
<1>3. ASSUME NEW s \in {"text", "drain"}, Set(r, [rec EXCEPT !.stage = s, !.buf = 0]), UNCHANGED jobs
      PROVE  UploadInv'
  <2> DEFINE u == [rec EXCEPT !.stage = s, !.buf = 0]
  <2>1. u \in UploadRecs /\ u.stage = s /\ Same(u, v) /\ u.body = v.body
    BY <1>2 DEF UploadRecs, Same, Acting
  <2>2. up' = [up EXCEPT ![r] = u]
    BY <1>3 DEF Set
  <2> HIDE DEF u
  <2>3. StageInv(u)
    BY <1>0, <2>1 DEF StageInv, InSpool, InPart, Same, v
  <2> QED BY <1>3, <2>1, <2>2, <2>3, GoesOn DEF Acting, v
<1>4. ASSUME Submit(r, [rec EXCEPT !.index = i], "mkdir", SpoolJob("mkdir", SpoolFile(r, i)))
      PROVE  UploadInv'
  <2> DEFINE j == SpoolJob("mkdir", SpoolFile(r, i))
             x == [rec EXCEPT !.index = i]
             u == [x EXCEPT !.stage = "mkdir", !.await = j]
  <2>1. up' = [up EXCEPT ![r] = u] /\ jobs' = jobs \cup {j}
    BY <1>4 DEF Submit, Set
  <2>2. j \in UploadJobs /\ OwnerOf(j) = r /\ j.op = "mkdir"
    BY <1>0, JobTypes
  <2> HIDE DEF i
  <2>3. /\ x \in UploadRecs /\ x.how = v.how /\ x.body = v.body /\ x.got = v.got /\ x.files = v.files
        /\ x.bad = v.bad /\ x.index = i
    BY <1>0, <1>2 DEF UploadRecs, Same
  <2> HIDE DEF x, j
  <2>4. /\ u \in UploadRecs /\ u.stage = "mkdir" /\ u.await = j /\ u.how = v.how /\ u.body = v.body /\ u.got = v.got
        /\ u.index = i /\ u.files = v.files /\ u.bad = v.bad
    <3>1. "mkdir" \in Awaiting
      BY DEF Awaiting
    <3> QED BY <2>2, <2>3, <3>1, SubmittedFields
  <2> HIDE DEF u
  <2>5. v.index \in Nat /\ i = v.index + 1 /\ v.files \subseteq 1..v.index
    BY <1>0 DEF UploadRecs, StageInv, i
  <2>6. u.files \subseteq 1..u.index /\ u.index > 0 /\ u.index \notin u.files
    BY <2>4, <2>5
  <2>7. StageInv(u)
    BY <1>0, <2>4, <2>6 DEF StageInv, InSpool, InPart, v
  <2>8. Awaits(r, u, j)
    BY <2>4 DEF Awaits, j
  <2> QED BY <1>0, <2>1, <2>2, <2>4, <2>7, <2>8, SubmitKeeps DEF Acting, Awaiting, v, world
<1> QED BY <1>3, <1>4 DEF v

\* A file is removed, renamed or created.
LEMMA FileJobKeeps ==
  ASSUME UploadInv, NEW r \in Uploads, NEW rec \in UploadRecs, Same(rec, up[r]), rec.body = up[r].body,
         NEW s, NEW j, Submit(r, rec, s, j), UNCHANGED <<disk, world>>,
         \/ up[r].stage = "spool" /\ s = "unlink" /\ j = SpoolJob("remove", CurrentSpool(r))
         \/ /\ up[r].stage = "handler" /\ s \in {"rename", "remove"}
            /\ \E i \in up[r].files : j = SpoolJob(s, SpoolFile(r, i))
         \/ /\ up[r].stage = "part" /\ s = "popen" /\ j = SpoolJob("open", PendingPath(r))
            /\ rec.taken /\ rec.got = 0
         \/ up[r].stage = "saving" /\ s = "discard" /\ j = SpoolJob("remove", PendingPath(r)) /\ rec.taken
         \/ /\ up[r].stage = "saving" /\ WholePart(r) /\ s = "persist" /\ j = SpoolJob("rename", PendingPath(r))
            /\ rec.taken
  PROVE  UploadInv'
<1> DEFINE v == up[r]
           u == [rec EXCEPT !.stage = s, !.await = j]
<1>0. StageInv(v) /\ v \in UploadRecs /\ v.index \in Nat /\ v.files \subseteq Nat
  BY RequestFacts DEF UploadRecs
<1>1. s \in Awaiting
  BY DEF Awaiting
<1>2. j \in UploadJobs /\ OwnerOf(j) = r
  BY <1>0, JobTypes DEF CurrentSpool
<1>3. up' = [up EXCEPT ![r] = u] /\ jobs' = jobs \cup {j}
  BY DEF Submit, Set
<1>4. /\ u \in UploadRecs /\ u.stage = s /\ u.await = j /\ u.how = rec.how /\ u.body = rec.body /\ u.got = rec.got
      /\ u.index = rec.index /\ u.files = rec.files /\ u.bad = rec.bad /\ u.taken = rec.taken
  BY ONLY <1>1, <1>2, rec \in UploadRecs DEF UploadRecs
<1> HIDE DEF u
<1>5. /\ u.how = v.how /\ u.body = v.body /\ u.index = v.index /\ u.files = v.files /\ u.bad = v.bad
  BY <1>4 DEF Same
<1>6. StageInv(u)
  <2>1. CASE v.stage = "spool" /\ s = "unlink"
    BY <1>0, <1>4, <1>5, <2>1 DEF StageInv, InSpool, InPart
  <2>2. CASE v.stage = "handler" /\ s \in {"rename", "remove"} /\ v.files # {}
    BY <1>0, <1>4, <1>5, <2>2 DEF StageInv, InSpool, InPart
  <2>3. CASE v.stage = "part" /\ s = "popen" /\ rec.taken /\ rec.got = 0
    BY <1>0, <1>4, <1>5, <2>3 DEF StageInv, InSpool, InPart
  <2>4. CASE v.stage = "saving" /\ s \in {"discard", "persist"} /\ rec.taken
    BY <1>0, <1>4, <1>5, <2>4 DEF StageInv, InSpool, InPart
  <2> QED BY <2>1, <2>2, <2>3, <2>4
<1>7. Awaits(r, u, j)
  BY <1>4, <1>5 DEF Awaits, CurrentSpool
<1>8. ASSUME j.op = "rename", j.path \in DOMAIN staged PROVE Finished(staged[j.path])
  <2>0. SizesInv(r)
    BY DEF UploadInv, ReqInv
  <2>1. ASSUME v.stage = "handler", NEW i \in v.files, j = SpoolJob(s, SpoolFile(r, i))
        PROVE  Finished(staged[j.path])
    BY <1>0, <1>8, <2>0, <2>1 DEF SizesInv, SpoolJob, StageInv
  <2>2. ASSUME v.stage = "saving", WholePart(r), j = SpoolJob("rename", PendingPath(r))
        PROVE  Finished(staged[j.path])
    BY <1>0, <1>8, <2>0, <2>2 DEF SizesInv, SpoolJob, StageInv, Finished, WholePart
  <2> QED BY <1>8, <2>1, <2>2 DEF SpoolJob
<1>9. v.stage \in Acting /\ (v.stage = "saving" => s \in {"persist", "discard"})
  BY DEF Acting
<1> QED BY <1>1, <1>2, <1>3, <1>4, <1>5, <1>6, <1>7, <1>8, <1>9, SubmitKeeps DEF world

LEMMA EndedFields ==
  ASSUME NEW v \in UploadRecs, NEW n \in Nat, StageInv(v)
  PROVE  /\ LET u == [v EXCEPT !.stage = "ended", !.await = <<>>, !.answer = n]
            IN  StageInv(u) /\ u.stage = "ended" /\ u.await = <<>> /\ u.how = v.how /\ u.body = v.body
         /\ LET u == [v EXCEPT !.stage = "ended", !.await = <<>>]
            IN  StageInv(u) /\ u.stage = "ended" /\ u.await = <<>> /\ u.how = v.how /\ u.body = v.body
<1>1. ASSUME NEW u \in UploadRecs, u.stage = "ended", u.how = v.how, u.files = v.files, u.bad = v.bad, u.index = v.index
      PROVE  StageInv(u)
  BY <1>1 DEF StageInv, InSpool, InPart
<1> DEFINE a == [v EXCEPT !.stage = "ended", !.await = <<>>, !.answer = n]
           b == [v EXCEPT !.stage = "ended", !.await = <<>>]
<1>2. /\ a \in UploadRecs /\ a.stage = "ended" /\ a.await = <<>> /\ a.how = v.how /\ a.body = v.body
      /\ a.files = v.files /\ a.bad = v.bad /\ a.index = v.index
  BY DEF UploadRecs
<1>3. /\ b \in UploadRecs /\ b.stage = "ended" /\ b.await = <<>> /\ b.how = v.how /\ b.body = v.body
      /\ b.files = v.files /\ b.bad = v.bad /\ b.index = v.index
  BY DEF UploadRecs
<1> HIDE DEF a, b
<1>4. StageInv(a) /\ StageInv(b)
  BY <1>1, <1>2, <1>3
<1> QED BY <1>2, <1>3, <1>4 DEF a, b

LEMMA CutKeeps == ASSUME UploadInv, NEW r \in Uploads, CutUpload(r) \/ HangUpUpload(r) PROVE UploadInv'
<1>1. StageInv(up[r]) /\ up[r] \in UploadRecs
  BY RequestFacts
<1> DEFINE u == [up[r] EXCEPT !.stage = "ended", !.await = <<>>]
<1>2. StageInv(u) /\ u.stage = "ended" /\ u.await = <<>> /\ u.how = up[r].how /\ u.body = up[r].body
  BY <1>1, EndedFields, 0 \in Nat
<1>3. /\ up' = [up EXCEPT ![r] = u] /\ UNCHANGED disk /\ up[r].stage # "ended"
      /\ leaked' = leaked \cup (IF InCreation(r) THEN {r} ELSE {})
  BY DEF CutUpload, HangUpUpload, Dropped, Set
<1> HIDE DEF u
<1>4. CASE CutUpload(r)
  <2>1. jobs' = jobs \cup Cleanup(r) \cup DropPending(r) /\ held' = held
    BY <1>4 DEF CutUpload
  <2> QED BY <1>2, <1>3, <2>1, EndKeeps
<1>5. CASE HangUpUpload(r)
  <2>1. jobs' = jobs \cup Cleanup(r) \cup {} /\ held' = held \cup (IF DropPending(r) # {} THEN {r} ELSE {})
    BY <1>5 DEF HangUpUpload
  <2> QED BY <1>2, <1>3, <2>1, EndKeeps
<1> QED BY <1>4, <1>5

\* The pending file of a collected coroutine is removed like any other.
LEMMA CollectKeeps == ASSUME UploadInv, NEW r \in Uploads, CollectUpload(r) PROVE UploadInv'
<1> USE DEF UploadInv, disk
<1> DEFINE file == SpoolJob("remove", PendingPath(r))
<1>1. /\ UNCHANGED <<up, dirs, staged, target, leaked>>
      /\ jobs' = jobs \cup {file} /\ held' = held \ {r}
  BY DEF CollectUpload
<1>2. file \in UploadJobs /\ OwnerOf(file) = r /\ ~Makes(file) /\ file.op = "remove"
  BY DEF SpoolJob, PendingPath, UploadJobs, UploadPaths, OwnerOf, Makes
<1>3. StoreTypeOK' /\ JobsOf(r)' \subseteq JobsOf(r) \cup {file}
  BY <1>1, <1>2 DEF StoreTypeOK, JobsOf
<1>4. Apart(r)
  BY <1>1, <1>2 DEF Apart, StoreTypeOK, JobsOf, FilesOf
<1>5. ReqInv(r) /\ file \in jobs' /\ up[r].stage = "ended"
  BY <1>1 DEF ReqInv, JobsInv, CollectUpload
<1> HIDE DEF file
<1>6. JobsInv(r)'
  <2>1. \A j \in JobsOf(r)' : LeftBehind(r, j)'
    BY <1>1, <1>2, <1>3, <1>5 DEF ReqInv, JobsInv, LeftBehind
  <2>2. \A j, k \in JobsOf(r)' : Makes(j) /\ Makes(k) => j = k
    BY <1>2, <1>3, <1>5 DEF ReqInv, JobsInv
  <2> QED BY <1>1, <1>5, <2>1, <2>2 DEF ReqInv, JobsInv, Acting, Awaiting
<1>7. GoesInv(r)'
  BY <1>1, <1>5 DEF ReqInv, GoesInv, FilesOf, file
<1>8. SizesInv(r)'
  <2>1. \A j \in JobsOf(r)' : j.op = "rename" => j \in JobsOf(r)
    BY <1>2, <1>3
  <2> QED BY <1>1, <1>5, <2>1 DEF ReqInv, SizesInv
<1> QED BY <1>1, <1>3, <1>4, <1>5, <1>6, <1>7, <1>8, ApartKeeps DEF ReqInv

\* A request ends on its own, awaiting nothing and with no pending file.
LEMMA EndWithKeeps ==
  ASSUME UploadInv, NEW r \in Uploads, NEW u, StageInv(u), u.stage = "ended", u.await = <<>>, u.how = up[r].how,
         u.body = up[r].body, up' = [up EXCEPT ![r] = u], jobs' = jobs \cup Cleanup(r), UNCHANGED <<disk, world>>,
         up[r].stage \in Acting \ {"new", "saving"}
  PROVE  UploadInv'
<1>1. DropPending(r) = {} /\ ~InCreation(r) /\ up[r].stage # "ended"
  BY DEF DropPending, InCreation, Acting
<1>2. /\ jobs' = jobs \cup Cleanup(r) \cup {}
      /\ held' = held \cup (IF DropPending(r) # {} THEN {r} ELSE {})
      /\ leaked' = leaked \cup (IF InCreation(r) THEN {r} ELSE {})
      /\ UNCHANGED disk
  BY <1>1 DEF world
<1> QED BY <1>1, <1>2, EndKeeps

LEMMA AnswersKeep ==
  ASSUME UploadInv, NEW r \in Uploads, NEW n \in Nat, EndWith(r, n), up[r].stage \in Acting \ {"new", "saving"}
  PROVE  UploadInv'
<1>1. StageInv(up[r]) /\ up[r] \in UploadRecs
  BY RequestFacts
<1> DEFINE u == [up[r] EXCEPT !.stage = "ended", !.await = <<>>, !.answer = n]
<1>2. StageInv(u) /\ u.stage = "ended" /\ u.await = <<>> /\ u.how = up[r].how /\ u.body = up[r].body
  BY <1>1, EndedFields
<1>3. up' = [up EXCEPT ![r] = u] /\ jobs' = jobs \cup Cleanup(r) /\ UNCHANGED <<disk, world>>
  BY DEF EndWith, Set
<1> HIDE DEF u
<1> QED BY <1>2, <1>3, EndWithKeeps

LEMMA FailKeeps ==
  ASSUME UploadInv, NEW r \in Uploads, NEW limit, FailRead(r, limit), up[r].stage \in Acting \ {"new", "saving"}
  PROVE  UploadInv'
<1>1. Answer(up[r], limit) \in Nat
  BY DEF Answer
<1> QED BY <1>1, AnswersKeep DEF FailRead

\* A read fails.
LEMMA ReadFailsKeeps ==
  ASSUME UploadInv, NEW r \in Uploads, NEW malformed, up[r].body # <<>>, NEW rec,
         \/ rec = up[r] \/ rec = [up[r] EXCEPT !.stalled = TRUE] \/ rec = [up[r] EXCEPT !.over = TRUE],
         ReadFails(r, rec, malformed)
  PROVE  UploadInv'
<1> DEFINE v == up[r]
<1>0. StageInv(v) /\ v \in UploadRecs /\ UNCHANGED <<disk, world>> /\ (v.stage \in Acting => v.await = <<>>)
  BY RequestFacts DEF ReadFails
<1>1. /\ rec \in UploadRecs /\ Same(rec, v) /\ rec.body = v.body /\ rec.taken = v.taken
  BY <1>0 DEF UploadRecs, Same
<1>2. CASE v.stage = "saving" /\ Submit(r, rec, "discard", SpoolJob("remove", PendingPath(r)))
  <2>1. rec.taken
    BY <1>0, <1>1, <1>2 DEF StageInv, InPart
  <2> QED BY <1>0, <1>1, <1>2, <2>1, FileJobKeeps
<1>3. CASE v.stage \in {"ptext", "skip", "reading"} /\ Set(r, [rec EXCEPT !.stage = "raised"]) /\ UNCHANGED jobs
  <2> DEFINE u == [rec EXCEPT !.stage = "raised"]
  <2>1. u \in UploadRecs /\ u.stage = "raised" /\ Same(u, v) /\ u.body = v.body
    BY <1>1 DEF UploadRecs, Same, Acting
  <2> HIDE DEF u
  <2>2. StageInv(u)
    BY <1>0, <1>3, <2>1 DEF StageInv, InSpool, InPart, Same
  <2> QED BY <1>0, <1>3, <2>1, <2>2, GoesOn DEF Acting, Set, u
<1>4. CASE /\ v.stage \in {"field", "text", "drain", "spool"}
           /\ Set(r, [rec EXCEPT !.stage = "ended", !.answer = IF malformed THEN 422 ELSE Answer(rec, FALSE)])
           /\ jobs' = jobs \cup Cleanup(r)
  <2> DEFINE n == IF malformed THEN 422 ELSE Answer(rec, FALSE)
             u == [rec EXCEPT !.stage = "ended", !.answer = n]
  <2>1. n \in Nat
    BY DEF Answer
  <2>2. up' = [up EXCEPT ![r] = u]
    BY <1>4 DEF Set
  <2> HIDE DEF n
  <2>3. /\ u \in UploadRecs /\ u.stage = "ended" /\ u.await = v.await /\ u.how = v.how /\ u.body = v.body
        /\ u.files = v.files /\ u.bad = v.bad /\ u.index = v.index
    BY <1>1, <2>1 DEF UploadRecs, Same
  <2> HIDE DEF u
  <2>4. StageInv(u) /\ u.await = <<>>
    BY <1>0, <1>4, <2>3 DEF StageInv, InSpool, InPart, Acting
  <2> QED BY <1>0, <1>4, <2>2, <2>3, <2>4, EndWithKeeps DEF Acting
<1> QED BY <1>2, <1>3, <1>4 DEF ReadFails

\* A chunk goes to the file at p.
LEMMA WriteKeeps ==
  ASSUME UploadInv, NEW r \in Uploads, NEW p, UNCHANGED <<jobs, dirs, target, world>>,
         \/ up[r].stage = "spool" /\ p = CurrentSpool(r)
         \/ up[r].stage = "saving" /\ p = PendingPath(r) /\ up[r].buf + 1 <= MaxFile,
         Set(r, [Got(r) EXCEPT !.buf = up[r].buf + 1]),
         staged' = IF up[r].buf + 1 <= MaxFile /\ p \in DOMAIN staged
                   THEN [staged EXCEPT ![p].size = @ + 1] ELSE staged
  PROVE  UploadInv'
<1> DEFINE v == up[r]
           u == [Got(r) EXCEPT !.buf = v.buf + 1]
<1>0. StageInv(v) /\ v \in UploadRecs /\ v.buf \in Nat /\ v.buf + 1 \in Nat /\ v.index \in Nat /\ v.got \in Nat
  BY RequestFacts DEF UploadRecs
<1>1. /\ u \in UploadRecs /\ Same(u, v) /\ u.stage = v.stage /\ u.body = v.body /\ u.taken = v.taken
      /\ u.buf = v.buf + 1 /\ u.got = v.got + 1
  BY <1>0, CountedFields
<1>2. up' = [up EXCEPT ![r] = u] /\ up'[r] = u
  BY DEF Set, UploadInv, StoreTypeOK
<1> HIDE DEF u
<1>3. StageInv(u)
  BY <1>0, <1>1 DEF StageInv, InSpool, InPart, Same
<1>4. p = <<r, p[2]>> /\ p[1] = r
  BY DEF CurrentSpool, SpoolFile, PendingPath
<1>5. StoreTypeOK
  BY DEF UploadInv
<1>6. /\ DOMAIN staged' = DOMAIN staged /\ \A x \in DOMAIN staged : x # p => staged'[x] = staged[x]
      /\ \A x \in DOMAIN staged : staged'[x] \in StagedFiles
      /\ staged' \in [DOMAIN staged -> StagedFiles]
      /\ p \in DOMAIN staged =>
           /\ staged'[p].full = staged[p].full
           /\ v.buf + 1 <= MaxFile => staged'[p].size = staged[p].size + 1
  <2>1. CASE v.buf + 1 <= MaxFile /\ p \in DOMAIN staged
    <3>1. staged[p] \in StagedFiles /\ staged[p].size + 1 \in Nat
      BY <1>5, <2>1 DEF StoreTypeOK, StagedFiles
    <3>2. [staged[p] EXCEPT !.size = staged[p].size + 1] \in StagedFiles
      BY <3>1 DEF StagedFiles
    <3>3. staged' = [staged EXCEPT ![p] = [staged[p] EXCEPT !.size = staged[p].size + 1]]
      BY <2>1
    <3>4. staged'[p] = [staged[p] EXCEPT !.size = staged[p].size + 1]
      BY <2>1, <3>3
    <3>5. staged'[p].full = staged[p].full /\ staged'[p].size = staged[p].size + 1
      BY <3>1, <3>4 DEF StagedFiles
    <3> QED BY <1>5, <3>2, <3>3, <3>4, <3>5 DEF StoreTypeOK
  <2>2. CASE ~(v.buf + 1 <= MaxFile /\ p \in DOMAIN staged)
    BY <1>5, <2>2 DEF StoreTypeOK
  <2> QED BY <2>1, <2>2
<1>7. StoreTypeOK'
  BY <1>2, <1>5, <1>6 DEF StoreTypeOK
<1>8. Apart(r)
  BY <1>2, <1>4, <1>5, <1>6 DEF Apart, StoreTypeOK, JobsOf, FilesOf, world
<1>9. ReqInv(r) /\ v.stage \in Acting \ {"new"}
  BY DEF UploadInv, Acting
<1>10. JobsInv(r)' /\ JobsOf(r)' = {}
  <2>1. r \notin held'
    BY <1>2, <1>9 DEF ReqInv, JobsInv, Acting, world
  <2> QED BY <1>1, <1>2, <1>9, <2>1 DEF ReqInv, JobsInv, JobsOf, Same, Acting, Awaiting
<1>11. GoesInv(r)'
  BY <1>1, <1>2, <1>6, <1>9 DEF ReqInv, GoesInv, FilesOf, Same, world, PendingPath, SpoolFile
<1>12. SizesInv(r)'
  <2>1. SizesInv(r)
    BY <1>9 DEF ReqInv
  <2>2. Part(r)' = Part(r) /\ CurrentSpool(r)' = CurrentSpool(r)
    BY <1>1, <1>2 DEF Part, CurrentSpool, Same
  <2>3. \A i \in v.files : SpoolFile(r, i) # p
    <3>1. ASSUME NEW i \in v.files PROVE i # 0 /\ (v.stage = "spool" => i # v.index)
      BY <1>0 DEF StageInv, InSpool
    <3> QED BY <3>1 DEF SpoolFile, PendingPath, CurrentSpool
  <2>4. \A i \in v.files : SpoolFile(r, i) \in DOMAIN staged => staged'[SpoolFile(r, i)] = staged[SpoolFile(r, i)]
    BY <1>6, <2>3
  <2>5. u.stage = "spool" /\ p \in DOMAIN staged /\ p = CurrentSpool(r) =>
          /\ staged'[p].full = Part(r).size
          /\ u.buf <= MaxFile => staged'[p].size = u.buf
    BY <1>0, <1>1, <1>6, <2>1, UploadLimitsAreNatural DEF SizesInv
  <2>6. u.stage = "saving" /\ p \in DOMAIN staged /\ p = PendingPath(r) =>
          staged'[p].full = Part(r).size /\ staged'[p].size = u.buf
    BY <1>0, <1>1, <1>6, <2>1, UploadLimitsAreNatural DEF SizesInv
  <2>7. u.files = v.files /\ u.bad = v.bad /\ v.stage # "ended"
    BY <1>1, <1>9 DEF Same, Acting
  <2> QED BY <1>1, <1>2, <1>6, <1>10, <2>1, <2>2, <2>4, <2>5, <2>6, <2>7 DEF SizesInv
<1>13. Finished(target)'
  BY DEF UploadInv, Finished
<1> QED BY <1>2, <1>3, <1>7, <1>8, <1>10, <1>11, <1>12, <1>13, ApartKeeps DEF UploadInv, ReqInv

\* The steps of a body read by an input declaration.
LEMMA InputSteps ==
  ASSUME UploadInv, NEW r \in Uploads,
         \/ ArriveUpload(r) \/ NextField(r) \/ ReadText(r) \/ EndText(r) \/ Drain(r) \/ PushChunk(r)
         \/ FinishFile(r) \/ CallHandler(r) \/ FileSave(r) \/ FileDiscard(r) \/ Respond(r)
  PROVE  UploadInv'
<1>0. StageInv(up[r]) /\ up[r] \in UploadRecs
  BY RequestFacts
<1>1. CASE NextField(r)
  <2> DEFINE rec == [up[r] EXCEPT !.count = @ + 1]
  <2>1. CASE FailRead(r, TRUE)
    BY <1>1, <2>1, FailKeeps DEF NextField, Acting
  <2>2. ASSUME NEW s \in {"text", "drain"}, Set(r, [rec EXCEPT !.stage = s, !.buf = 0]), UNCHANGED <<jobs, disk, world>>
        PROVE  UploadInv'
    BY <1>1, <2>2, FieldKeeps DEF NextField
  <2>3. ASSUME Submit(r, [rec EXCEPT !.index = up[r].index + 1], "mkdir", SpoolJob("mkdir", SpoolFile(r, up[r].index + 1))),
               UNCHANGED <<disk, world>>
        PROVE  UploadInv'
    BY <1>1, <2>3, FieldKeeps DEF NextField
  <2> HIDE DEF rec
  <2> QED BY <1>1, <2>1, <2>2, <2>3 DEF NextField, rec
<1>2. CASE EndText(r)
  <2>1. CASE FailRead(r, TRUE)
    BY <1>2, <2>1, FailKeeps DEF EndText, Acting
  <2>2. CASE Set(r, NextPart(r)) /\ UNCHANGED <<jobs, disk, world>>
    <3>1. up[r].body # <<>> /\ up[r].stage = "text"
      BY <1>0, <1>2 DEF StageInv, EndText
    <3> QED BY <2>2, <3>1, NextPartStage, GoesOn DEF Acting, Set
  <2> QED BY <1>2, <2>1, <2>2 DEF EndText
<1>3. CASE PushChunk(r)
  BY <1>3, WriteKeeps DEF PushChunk, PushSize
<1>4. CASE FinishFile(r)
  <2>1. CASE Submit(r, up[r], "unlink", SpoolJob("remove", CurrentSpool(r)))
    BY <1>0, <1>4, <2>1, FileJobKeeps DEF FinishFile, Same
  <2>2. CASE ~Submit(r, up[r], "unlink", SpoolJob("remove", CurrentSpool(r)))
    BY <1>4, <2>2, FileEnds DEF FinishFile
  <2> QED BY <2>1, <2>2
<1>5. CASE CallHandler(r)
  <2>1. CASE EndWith(r, 422)
    BY <1>5, <2>1, AnswersKeep DEF CallHandler, Acting
  <2>2. CASE ~up[r].bad /\ At(r, "handler") /\ UNCHANGED <<jobs, disk, world>>
    BY <1>5, <2>2, AtKeeps DEF CallHandler
  <2> QED BY <1>5, <2>1, <2>2 DEF CallHandler
<1>6. CASE FileSave(r)
  BY <1>0, <1>6, FileJobKeeps DEF FileSave, Same
<1>7. CASE FileDiscard(r)
  BY <1>0, <1>7, FileJobKeeps DEF FileDiscard, Same
<1>8. CASE Respond(r)
  <2>1. PICK code \in {200, 500} : EndWith(r, IF code = 500 THEN Answer(up[r], FALSE) ELSE code)
    BY <1>8 DEF Respond
  <2> DEFINE n == IF code = 500 THEN Answer(up[r], FALSE) ELSE code
  <2>2. n \in Nat
    BY DEF Answer
  <2>3. EndWith(r, n) /\ up[r].stage \in Acting \ {"new", "saving"}
    BY <1>8, <2>1 DEF Respond, Acting
  <2> HIDE DEF n
  <2> QED BY <2>2, <2>3, AnswersKeep
<1> QED BY <1>1, <1>2, <1>3, <1>4, <1>5, <1>6, <1>7, <1>8, ArriveKeeps, ReadTextKeeps, DrainKeeps

\* The steps of a body the handler reads, and what can happen to any.
LEMMA HandlerSteps ==
  ASSUME UploadInv, NEW r \in Uploads,
         \/ CallPart(r) \/ PartSave(r) \/ PartRead(r) \/ PartChunk(r) \/ PartDone(r)
         \/ PartReturn(r) \/ EndParts(r) \/ AskRead(r) \/ ReadFrame(r) \/ ReadEnds(r)
         \/ RaiseInInput(r) \/ Trips(r) \/ BodyFails(r) \/ CutUpload(r) \/ HangUpUpload(r) \/ CollectUpload(r)
  PROVE  UploadInv'
<1>0. StageInv(up[r]) /\ up[r] \in UploadRecs
  BY RequestFacts
<1>1. CASE CallPart(r)
  <2>1. CASE FailRead(r, TRUE)
    BY <1>1, <2>1, FailKeeps DEF CallPart, Acting
  <2>2. CASE ~FailRead(r, TRUE)
    BY <1>1, <2>2, PartKeeps DEF CallPart, Set
  <2> QED BY <2>1, <2>2
<1>2. CASE PartSave(r)
  <2> DEFINE rec == [up[r] EXCEPT !.taken = TRUE, !.buf = 0]
  <2>1. /\ rec \in UploadRecs /\ Same(rec, up[r]) /\ rec.body = up[r].body /\ rec.taken /\ rec.got = up[r].got
    BY <1>0 DEF UploadRecs, Same
  <2>2. up[r].got = 0
    BY <1>0, <1>2 DEF PartSave, StageInv
  <2>3. Submit(r, rec, "popen", SpoolJob("open", PendingPath(r))) /\ UNCHANGED <<disk, world>> /\ up[r].stage = "part"
    BY <1>2 DEF PartSave
  <2> HIDE DEF rec
  <2> QED BY <2>1, <2>2, <2>3, FileJobKeeps
<1>3. CASE PartRead(r)
  BY <1>3, PartKeeps DEF PartRead, Set
<1>4. CASE PartChunk(r)
  <2>1. CASE up[r].stage \in {"ptext", "skip"}
    BY <1>4, <2>1, PartChunkRead DEF PartChunk
  <2>2. CASE up[r].stage = "saving" /\ up[r].buf + 1 <= MaxFile
    <3>1. /\ Set(r, [Got(r) EXCEPT !.buf = up[r].buf + 1]) /\ UNCHANGED <<jobs, dirs, target, world>>
          /\ staged' = IF PendingPath(r) \in DOMAIN staged
                       THEN [staged EXCEPT ![PendingPath(r)].size = @ + 1] ELSE staged
      <4>1. ~(up[r].buf + 1 > MaxFile)
        BY <1>0, <2>2, UploadLimitsAreNatural DEF UploadRecs
      <4> QED BY <1>4, <2>2, <4>1 DEF PartChunk
    <3> QED BY <2>2, <3>1, WriteKeeps
  <2>3. CASE up[r].stage = "saving" /\ ~(up[r].buf + 1 <= MaxFile)
    <3>1. Submit(r, Got(r), "discard", SpoolJob("remove", PendingPath(r))) /\ UNCHANGED <<disk, world>>
      BY <1>4, <2>3 DEF PartChunk
    <3>2. Got(r) \in UploadRecs /\ Same(Got(r), up[r]) /\ Got(r).body = up[r].body /\ Got(r).taken
      BY <1>0, <2>3, GotFields DEF StageInv, InPart
    <3> QED BY <2>3, <3>1, <3>2, FileJobKeeps
  <2> QED BY <1>4, <2>1, <2>2, <2>3 DEF PartChunk
<1>5. CASE PartDone(r)
  <2>1. CASE Persists(r) /\ Submit(r, up[r], "persist", SpoolJob("rename", PendingPath(r)))
    <3>1. up[r].taken
      BY <1>0, <2>1 DEF StageInv, InPart, Persists
    <3> QED BY <1>0, <1>5, <2>1, <3>1, FileJobKeeps DEF PartDone, Persists, Same
  <2>2. CASE up[r].stage \in {"ptext", "skip"} /\ At(r, "part") /\ UNCHANGED jobs
    BY <1>5, <2>2, AtKeeps DEF PartDone
  <2> QED BY <1>5, <2>1, <2>2 DEF PartDone
<1>6. CASE PartReturn(r)
  <2> DEFINE left == Part(r).size - up[r].got
  <2>1. ASSUME NEW limit, FailRead(r, limit) PROVE UploadInv'
    BY <1>6, <2>1, FailKeeps DEF PartReturn, Acting
  <2>2. CASE EndWith(r, 413)
    BY <1>6, <2>2, AnswersKeep DEF PartReturn, Acting
  <2>3. CASE Set(r, [NextPart(r) EXCEPT !.read = @ + left]) /\ UNCHANGED <<jobs, disk, world>>
    BY <1>6, <2>3, PartReturnKeeps DEF PartReturn
  <2> HIDE DEF left
  <2> QED BY <1>6, <2>1, <2>2, <2>3 DEF PartReturn, left
<1>7. CASE EndParts(r)
  <2>1. ~up[r].bad
    BY <1>0, <1>7 DEF EndParts, StageInv
  <2> QED BY <1>7, <2>1, AtKeeps DEF EndParts
<1>8. CASE ReadEnds(r)
  BY <1>8, AtKeeps DEF ReadEnds
<1>9. CASE RaiseInInput(r)
  BY <1>9, FailKeeps DEF RaiseInInput, Acting
<1>10. CASE Trips(r)
  BY <1>10, ReadFailsKeeps DEF Trips
<1>11. CASE BodyFails(r)
  BY <1>11, ReadFailsKeeps DEF BodyFails
<1> QED BY <1>1, <1>2, <1>3, <1>4, <1>5, <1>6, <1>7, <1>8, <1>9, <1>10, <1>11, ReadingKeeps, CutKeeps, CollectKeeps

\* Who owns a job awaits it, or has ended.
LEMMA JobFacts ==
  ASSUME UploadInv, NEW j \in jobs
  PROVE  LET r == OwnerOf(j)
         IN  /\ j \in UploadJobs /\ r \in Uploads /\ j.path = <<r, j.path[2]>> /\ j.path[2] \in Nat /\ j \in JobsOf(r)
             /\ ReqInv(r) /\ up[r] \in UploadRecs
             /\ \/ up[r].stage = "ended" /\ up[r].await # j
                \/ /\ up[r].stage \in Awaiting /\ up[r].await = j /\ JobsOf(r) = {j} /\ Awaits(r, up[r], j)
             /\ j.op = "open" => up[r].body # <<>>
<1> DEFINE r == OwnerOf(j)
<1>1. j \in UploadJobs /\ j.path \in UploadPaths
  BY DEF UploadInv, StoreTypeOK, UploadJobs
<1>2. r \in Uploads /\ j.path = <<r, j.path[2]>> /\ j.path[2] \in Nat
  BY <1>1, PathIsAPair DEF OwnerOf
<1>3. j \in JobsOf(r)
  BY DEF JobsOf
<1>4. ReqInv(r) /\ up[r] \in UploadRecs
  BY <1>2 DEF UploadInv, ReqInv, StageInv
<1>5. up[r].stage \in Awaiting \cup Acting \cup {"ended"}
  BY <1>4 DEF UploadRecs
<1>6. up[r].stage \notin Acting
  BY <1>3, <1>4 DEF ReqInv, JobsInv
<1>7. \/ up[r].stage = "ended" /\ up[r].await # j
      \/ /\ up[r].stage \in Awaiting /\ up[r].await = j /\ JobsOf(r) = {j} /\ Awaits(r, up[r], j)
  BY <1>1, <1>3, <1>4, <1>5, <1>6, JobIsNoTuple DEF ReqInv, JobsInv
<1>8. j.op = "open" => up[r].body # <<>>
  <2>1. CASE up[r].stage = "ended"
    BY <1>3, <1>4, <2>1 DEF ReqInv, JobsInv, LeftBehind
  <2>2. CASE up[r].stage \in Awaiting /\ Awaits(r, up[r], j)
    <3> DEFINE v == up[r]
    <3>1. v.stage \in Awaiting /\ Awaits(r, v, j) /\ StageInv(v)
      BY <1>4, <2>2 DEF ReqInv
    <3> HIDE DEF v
    <3>2. j.op = "open" => v.stage \in {"open", "popen"}
      BY <3>1, AwaitedOp
    <3>3. j.op = "open" => v.body # <<>>
      BY <3>1, <3>2 DEF StageInv, InSpool, InPart
    <3> QED BY <3>3 DEF v
  <2> QED BY <1>7, <2>1, <2>2
<1> QED BY <1>1, <1>2, <1>3, <1>4, <1>7, <1>8

\* What a job does to the disk is done to its owner's files, and they keep their types.
LEMMA JobDisk ==
  ASSUME UploadInv, NEW j \in jobs, RunUploadJob(j)
  PROVE  LET r == OwnerOf(j)
         IN  /\ staged' \in [DOMAIN staged' -> StagedFiles] /\ DOMAIN staged' \subseteq UploadPaths
             /\ \A q \in Uploads \ {r} :
                  /\ FilesOf(q)' = FilesOf(q) /\ \A p \in FilesOf(q) : staged'[p] = staged[p]
                  /\ (q \in dirs') = (q \in dirs)
             /\ leaked' = leaked /\ held' = held
<1> DEFINE r == OwnerOf(j)
<1>0. /\ j \in UploadJobs /\ r \in Uploads /\ j.path = <<r, j.path[2]>> /\ j.path[2] \in Nat
      /\ j.op = "open" => up[r].body # <<>>
  BY JobFacts
<1>1. j.path \in UploadPaths /\ j.path[1] = r
  BY <1>0 DEF UploadJobs, OwnerOf
<1>2. staged \in [DOMAIN staged -> StagedFiles] /\ DOMAIN staged \subseteq UploadPaths
  BY DEF UploadInv, StoreTypeOK
<1>3. leaked' = leaked /\ held' = held
  BY DEF RunUploadJob, world
<1>4. ASSUME NEW gone, staged' = Unstaged(gone), \A p \in gone : p[1] = r, \A q \in Uploads \ {r} : (q \in dirs') = (q \in dirs)
      PROVE  /\ staged' \in [DOMAIN staged' -> StagedFiles] /\ DOMAIN staged' \subseteq UploadPaths
             /\ \A q \in Uploads \ {r} :
                  /\ FilesOf(q)' = FilesOf(q) /\ \A p \in FilesOf(q) : staged'[p] = staged[p]
                  /\ (q \in dirs') = (q \in dirs)
  <2>1. DOMAIN staged' = DOMAIN staged \ gone /\ \A p \in DOMAIN staged' : staged'[p] = staged[p]
    BY <1>4 DEF Unstaged, Restrict
  <2>2. staged' = [p \in DOMAIN staged' |-> staged'[p]]
    BY <1>4 DEF Unstaged, Restrict
  <2> HIDE DEF r
  <2> QED BY <1>2, <1>4, <2>1, <2>2 DEF FilesOf
<1>5. CASE j.op = "open" /\ staged' = StagedAs(j.path, [size |-> 0, full |-> Part(r).size]) /\ UNCHANGED dirs
  <2> DEFINE f == [size |-> 0, full |-> Part(r).size]
  <2>1. f \in StagedFiles
    <3>1. Part(r) \in BodyParts
      BY <1>0, <1>5, RequestFacts
    <3> QED BY <3>1 DEF StagedFiles, BodyParts
  <2> HIDE DEF f
  <2>2. staged' = [p \in DOMAIN staged \cup {j.path} |-> IF p = j.path THEN f ELSE staged[p]]
    BY <1>5 DEF StagedAs, f
  <2> HIDE DEF r
  <2>3. DOMAIN staged' = DOMAIN staged \cup {j.path} /\ \A p \in DOMAIN staged : p # j.path => staged'[p] = staged[p]
    BY <2>2
  <2>4. staged' \in [DOMAIN staged' -> StagedFiles]
    BY <1>2, <2>1, <2>2
  <2>5. \A q \in Uploads \ {r} : FilesOf(q)' = FilesOf(q) /\ \A p \in FilesOf(q) : staged'[p] = staged[p]
    BY <1>1, <2>3 DEF FilesOf
  <2> QED BY <1>1, <1>2, <1>3, <1>5, <2>3, <2>4, <2>5 DEF r
<1>6. CASE UNCHANGED disk
  BY <1>2, <1>3, <1>6 DEF disk, FilesOf
<1>7. CASE UNCHANGED staged /\ dirs' = dirs \cup {r}
  <2>1. \A q \in Uploads \ {r} : (q \in dirs') = (q \in dirs)
    BY <1>7
  <2> QED BY <1>2, <1>3, <1>7, <2>1 DEF FilesOf
<1>8. CASE staged' = Unstaged({j.path}) /\ UNCHANGED dirs
  <2>1. (\A p \in {j.path} : p[1] = r) /\ \A q \in Uploads \ {r} : (q \in dirs') = (q \in dirs)
    BY <1>1, <1>8
  <2>2. /\ staged' \in [DOMAIN staged' -> StagedFiles] /\ DOMAIN staged' \subseteq UploadPaths
        /\ \A q \in Uploads \ {r} :
             /\ FilesOf(q)' = FilesOf(q) /\ \A p \in FilesOf(q) : staged'[p] = staged[p]
             /\ (q \in dirs') = (q \in dirs)
    BY <1>4, <1>8, <2>1
  <2> QED BY <1>3, <2>2
<1>9. CASE dirs' = dirs \ {r} /\ staged' = Unstaged(FilesOf(r) \ {PendingPath(r)})
  BY <1>3, <1>4, <1>9 DEF FilesOf
<1> HIDE DEF r
<1> QED BY <1>5, <1>6, <1>7, <1>8, <1>9 DEF RunUploadJob, r

\* What the owner does when its job is done.
LEMMA OwnerGoesOn ==
  ASSUME UploadInv, NEW j \in jobs, NEW ok \in BOOLEAN, AfterJob(j, ok), NEW r, r = OwnerOf(j),
         up[r].stage \in Awaiting
  PROVE  \E u :
           /\ up' = [up EXCEPT ![r] = u] /\ StageInv(u) /\ u.how = up[r].how
           /\ u.files \subseteq up[r].files /\ u.bad = up[r].bad
           /\ \/ /\ up[r].stage = "mkdir" /\ ok /\ u.stage = "open" /\ u.index = up[r].index
                 /\ u.await = SpoolJob("open", j.path) /\ jobs' = (jobs \ {j}) \cup {u.await}
              \/ /\ up[r].stage = "persist" /\ ~ok /\ u.stage = "discard"
                 /\ u.await = SpoolJob("remove", j.path) /\ jobs' = (jobs \ {j}) \cup {u.await}
              \/ /\ u.stage \in Acting \ {"new"} /\ u.await = <<>> /\ jobs' = jobs \ {j}
                 /\ ~(up[r].stage = "persist" /\ ~ok)
                 /\ up[r].stage = "popen" /\ ok => u.stage = "saving"
                 /\ u.stage = "spool" => /\ up[r].stage = "open" /\ ok /\ u.buf = 0
                                         /\ u.body = up[r].body /\ u.index = up[r].index
                 /\ u.stage = "saving" => up[r].stage = "popen" /\ ok /\ u.buf = 0 /\ u.body = up[r].body
<1> DEFINE v == up[r]
<1>0. /\ r \in Uploads /\ j \in UploadJobs /\ j.path = <<r, j.path[2]>> /\ j.path[2] \in Nat
      /\ StageInv(v) /\ v \in UploadRecs /\ v.await = j /\ Awaits(r, v, j)
  BY JobFacts DEF ReqInv, Awaiting
<1> DEFINE w == [v EXCEPT !.await = <<>>]
<1>1. v.stage = "unlink" => /\ StageInv(NextPart(r)) /\ NextPart(r).stage = "field" /\ Same(NextPart(r), v)
                            /\ NextPart(r) \in UploadRecs
  <2>1. v.stage = "unlink" => v.body # <<>>
    BY <1>0 DEF StageInv, InSpool
  <2> QED BY <1>0, <2>1, NextPartStage
<1>2. \/ v.stage = "mkdir" /\ ok /\ up' = [up EXCEPT ![r] = [v EXCEPT !.stage = "open", !.await = SpoolJob("open", j.path)]]
                           /\ jobs' = (jobs \ {j}) \cup {SpoolJob("open", j.path)}
      \/ v.stage = "persist" /\ ~ok /\ up' = [up EXCEPT ![r] = [v EXCEPT !.stage = "discard", !.await = SpoolJob("remove", j.path)]]
                           /\ jobs' = (jobs \ {j}) \cup {SpoolJob("remove", j.path)}
      \/ /\ ~(v.stage = "mkdir" /\ ok) /\ ~(v.stage = "persist" /\ ~ok)
         /\ up' = [up EXCEPT ![r] = Resumed(r, j, ok)] /\ jobs' = jobs \ {j}
  BY <1>0 DEF AfterJob, Set
<1> HIDE DEF v
<1>3. /\ w \in UploadRecs /\ w.stage = v.stage /\ w.await = <<>> /\ w.how = v.how /\ w.body = v.body /\ w.got = v.got
      /\ w.index = v.index /\ w.files = v.files /\ w.bad = v.bad /\ w.taken = v.taken
  BY <1>0 DEF UploadRecs
<1>4. CASE /\ v.stage = "mkdir" /\ ok /\ up' = [up EXCEPT ![r] = [v EXCEPT !.stage = "open", !.await = SpoolJob("open", j.path)]]
           /\ jobs' = (jobs \ {j}) \cup {SpoolJob("open", j.path)}
  <2> DEFINE o == SpoolJob("open", j.path)
             u == [v EXCEPT !.stage = "open", !.await = o]
  <2>1. o \in UploadJobs
    BY <1>0 DEF SpoolJob, UploadJobs
  <2> HIDE DEF o
  <2>2. /\ u \in UploadRecs /\ u.stage = "open" /\ u.await = o /\ u.how = v.how /\ u.body = v.body /\ u.got = v.got
        /\ u.index = v.index /\ u.files = v.files /\ u.bad = v.bad
    BY ONLY <1>0, <2>1 DEF UploadRecs, Awaiting
  <2>3. up' = [up EXCEPT ![r] = u]
    BY <1>4 DEF o
  <2> HIDE DEF u
  <2>4. StageInv(u)
    BY <1>0, <1>4, <2>2 DEF StageInv, InSpool, InPart
  <2> QED BY <1>4, <2>2, <2>3, <2>4 DEF o, v
<1>5. CASE /\ v.stage = "persist" /\ ~ok /\ up' = [up EXCEPT ![r] = [v EXCEPT !.stage = "discard", !.await = SpoolJob("remove", j.path)]]
           /\ jobs' = (jobs \ {j}) \cup {SpoolJob("remove", j.path)}
  <2> DEFINE o == SpoolJob("remove", j.path)
             u == [v EXCEPT !.stage = "discard", !.await = o]
  <2>1. o \in UploadJobs
    BY <1>0 DEF SpoolJob, UploadJobs
  <2> HIDE DEF o
  <2>2. /\ u \in UploadRecs /\ u.stage = "discard" /\ u.await = o /\ u.how = v.how /\ u.body = v.body
        /\ u.index = v.index /\ u.files = v.files /\ u.bad = v.bad /\ u.taken = v.taken
    BY ONLY <1>0, <2>1 DEF UploadRecs, Awaiting
  <2>3. up' = [up EXCEPT ![r] = u]
    BY <1>5 DEF o
  <2> HIDE DEF u
  <2>4. StageInv(u)
    BY <1>0, <1>5, <2>2 DEF StageInv, InSpool, InPart
  <2> QED BY <1>5, <2>2, <2>3, <2>4 DEF o, v
<1>6. CASE /\ ~(v.stage = "mkdir" /\ ok) /\ ~(v.stage = "persist" /\ ~ok)
           /\ up' = [up EXCEPT ![r] = Resumed(r, j, ok)] /\ jobs' = jobs \ {j}
  <2> DEFINE u == Resumed(r, j, ok)
  <2> SUFFICES /\ StageInv(u) /\ u.how = v.how /\ u.files \subseteq v.files /\ u.bad = v.bad
               /\ u.stage \in Acting \ {"new"} /\ u.await = <<>>
               /\ v.stage = "popen" /\ ok => u.stage = "saving"
               /\ u.stage = "spool" => v.stage = "open" /\ ok /\ u.buf = 0 /\ u.body = v.body /\ u.index = v.index
               /\ u.stage = "saving" => v.stage = "popen" /\ ok /\ u.buf = 0 /\ u.body = v.body
    <3> HIDE DEF u
    <3> QED BY <1>6 DEF u, v
  <2> HIDE DEF w
  <2>1. CASE v.stage = "open" /\ ok
    <3>1. u = [w EXCEPT !.stage = "spool", !.buf = 0]
      BY <2>1 DEF Resumed, w, v
    <3>2. /\ u \in UploadRecs /\ u.stage = "spool" /\ u.await = w.await /\ u.how = w.how /\ u.body = w.body /\ u.got = w.got
          /\ u.index = w.index /\ u.files = w.files /\ u.bad = w.bad /\ u.buf = 0
      <4>1. w \in UploadRecs /\ "spool" \in Acting
        BY <1>3 DEF Acting
      <4> HIDE DEF u
      <4> QED BY ONLY <3>1, <4>1 DEF UploadRecs
    <3> HIDE DEF u
    <3>3. StageInv(u)
      BY <1>0, <1>3, <2>1, <3>2 DEF StageInv, InSpool, InPart
    <3> QED BY <1>3, <2>1, <3>2, <3>3 DEF Acting
  <2>2. CASE v.stage = "popen" /\ ok
    <3>1. u = [w EXCEPT !.stage = "saving", !.buf = 0]
      BY <2>2 DEF Resumed, w, v
    <3>2. /\ u \in UploadRecs /\ u.stage = "saving" /\ u.await = w.await /\ u.how = w.how /\ u.body = w.body /\ u.got = w.got
          /\ u.index = w.index /\ u.files = w.files /\ u.bad = w.bad /\ u.buf = 0 /\ u.taken = w.taken
      <4>1. w \in UploadRecs /\ "saving" \in Acting
        BY <1>3 DEF Acting
      <4> HIDE DEF u
      <4> QED BY ONLY <3>1, <4>1 DEF UploadRecs
    <3> HIDE DEF u
    <3>3. StageInv(u)
      BY <1>0, <1>3, <2>2, <3>2, UploadLimitsAreNatural DEF StageInv, InSpool, InPart
    <3> QED BY <1>3, <2>2, <3>2, <3>3 DEF Acting
  <2>3. CASE v.stage \in {"rename", "remove"}
    <3>1. PICK f \in SUBSET v.files : u = [w EXCEPT !.stage = "handler", !.files = f]
      <4>1. CASE v.stage = "remove" \/ ok
        <5>1. u = [w EXCEPT !.stage = "handler", !.files = w.files \ {j.path[2]}]
          <6>1. CASE v.stage = "remove"
            BY <6>1 DEF Resumed, w, v
          <6>2. CASE v.stage = "rename" /\ ok
            <7>1. v.stage # "open" /\ v.stage # "popen"
              BY <6>2
            <7> QED BY <6>2, <7>1 DEF Resumed, w, v
          <6> QED BY <2>3, <4>1, <6>1, <6>2
        <5> HIDE DEF u
        <5>2. w.files \ {j.path[2]} \in SUBSET v.files
          BY <1>3
        <5> QED BY <5>1, <5>2
      <4>2. CASE v.stage = "rename" /\ ~ok
        <5>1. u = [w EXCEPT !.stage = "handler"]
          BY <4>2 DEF Resumed, w, v
        <5>2. [w EXCEPT !.stage = "handler"] = [w EXCEPT !.stage = "handler", !.files = w.files]
          BY <1>3 DEF UploadRecs
        <5> QED BY <1>3, <4>2, <5>1, <5>2
      <4> QED BY <2>3, <4>1, <4>2
    <3>2. f \in SUBSET Nat
      BY <1>0 DEF UploadRecs
    <3>3. /\ u \in UploadRecs /\ u.stage = "handler" /\ u.await = w.await /\ u.how = w.how /\ u.body = w.body
          /\ u.index = w.index /\ u.files = f /\ u.bad = w.bad
      BY ONLY <1>3, <3>1, <3>2 DEF UploadRecs, Acting
    <3> HIDE DEF u
    <3>4. StageInv(u)
      BY <1>0, <1>3, <2>3, <3>1, <3>3 DEF StageInv, InSpool, InPart
    <3> QED BY <1>3, <2>3, <3>1, <3>3, <3>4 DEF Acting
  <2>4. CASE v.stage = "unlink"
    <3> DEFINE g == NextPart(r)
    <3>0. StageInv(g) /\ g.stage = "field" /\ Same(g, v) /\ g \in UploadRecs
      BY <1>1, <2>4 DEF v
    <3>1. u = [g EXCEPT !.await = <<>>]
      BY <2>4 DEF Resumed, v
    <3> HIDE DEF g
    <3>2. /\ u \in UploadRecs /\ u.stage = "field" /\ u.await = <<>> /\ u.how = g.how /\ u.body = g.body /\ u.got = g.got
          /\ u.index = g.index /\ u.files = g.files /\ u.bad = g.bad /\ u.taken = g.taken
      BY ONLY <3>0, <3>1 DEF UploadRecs, Acting
    <3> HIDE DEF u
    <3>3. StageInv(u)
      BY <3>0, <3>2 DEF StageInv, InSpool, InPart
    <3> QED BY <2>4, <3>0, <3>2, <3>3 DEF Acting, Same
  <2>5. CASE v.stage = "persist"
    <3>1. u = [w EXCEPT !.stage = "part"]
      BY <1>6, <2>5 DEF Resumed, w, v
    <3>2. /\ u \in UploadRecs /\ u.stage = "part" /\ u.await = w.await /\ u.how = w.how /\ u.body = w.body
          /\ u.index = w.index /\ u.files = w.files /\ u.bad = w.bad /\ u.taken = w.taken
      BY ONLY <1>3, <3>1 DEF UploadRecs, Acting
    <3> HIDE DEF u
    <3>3. StageInv(u)
      BY <1>0, <1>3, <2>5, <3>2 DEF StageInv, InSpool, InPart
    <3> QED BY <1>3, <2>5, <3>2, <3>3 DEF Acting
  <2>6. CASE v.stage = "discard" \/ (v.stage \in {"mkdir", "open", "popen"} /\ ~ok)
    <3>1. u = [w EXCEPT !.stage = "raised"]
      BY <2>6 DEF Resumed, w, v
    <3>2. /\ u \in UploadRecs /\ u.stage = "raised" /\ u.await = w.await /\ u.how = w.how /\ u.body = w.body
          /\ u.index = w.index /\ u.files = w.files /\ u.bad = w.bad
      BY ONLY <1>3, <3>1 DEF UploadRecs, Acting
    <3> HIDE DEF u
    <3>3. StageInv(u)
      BY <1>0, <1>3, <2>6, <3>2 DEF StageInv, InSpool, InPart
    <3> QED BY <1>3, <2>6, <3>2, <3>3 DEF Acting
  <2>7. \/ v.stage = "open" /\ ok
        \/ v.stage = "popen" /\ ok
        \/ v.stage \in {"rename", "remove"}
        \/ v.stage = "unlink"
        \/ v.stage = "persist"
        \/ v.stage = "discard"
        \/ v.stage \in {"mkdir", "open", "popen"} /\ ~ok
    BY <1>6 DEF v, Awaiting
  <2> HIDE DEF u
  <2> QED BY ONLY <2>1, <2>2, <2>3, <2>4, <2>5, <2>6, <2>7
<1> QED BY <1>2, <1>4, <1>5, <1>6 DEF v

\* What a job may do to the disk, for its owner r.
JobEffect(r, j, ok) ==
  /\ dirs' = IF j.op = "mkdir" /\ ok THEN dirs \cup {r} ELSE IF j.op = "rmdir" THEN dirs \ {r} ELSE dirs
  /\ j.op \in {"remove", "rmdir"} => ok
  /\ \/ /\ j.op = "open" /\ ok /\ (j.path[2] # 0 => r \in dirs) /\ UNCHANGED target
        /\ DOMAIN staged' = DOMAIN staged \cup {j.path}
        /\ staged'[j.path] = [size |-> 0, full |-> Part(r).size]
        /\ \A p \in DOMAIN staged \ {j.path} : staged'[p] = staged[p]
     \/ /\ ~(j.op = "open" /\ ok)
        /\ DOMAIN staged' \subseteq DOMAIN staged
        /\ \A p \in DOMAIN staged' : staged'[p] = staged[p]
        /\ j.op \in {"rename", "remove"} /\ ok => j.path \notin DOMAIN staged'
        /\ j.op = "rmdir" => FilesOf(r)' \subseteq {PendingPath(r)}
        /\ UNCHANGED target \/ (j.op = "rename" /\ j.path \in DOMAIN staged /\ target' = staged[j.path])

LEMMA JobHasEffect ==
  ASSUME NEW j, RunUploadJob(j)
  PROVE  \E ok \in BOOLEAN : AfterJob(j, ok) /\ JobEffect(OwnerOf(j), j, ok)
<1> DEFINE r == OwnerOf(j)
<1>1. \A gone : staged' = Unstaged(gone) =>
        DOMAIN staged' = DOMAIN staged \ gone /\ \A p \in DOMAIN staged' : staged'[p] = staged[p]
  BY DEF Unstaged, Restrict
<1>2. \A p, f : staged' = StagedAs(p, f) =>
        /\ DOMAIN staged' = DOMAIN staged \cup {p} /\ staged'[p] = f
        /\ \A q \in DOMAIN staged \ {p} : staged'[q] = staged[q]
  BY DEF StagedAs
<1>3. CASE j.op = "mkdir" /\ dirs' = dirs \cup {r} /\ AfterJob(j, TRUE) /\ UNCHANGED <<staged, target>>
  BY <1>3 DEF JobEffect
<1>4. CASE /\ j.op = "open" /\ (j.path[2] # 0 => r \in dirs) /\ AfterJob(j, TRUE) /\ UNCHANGED <<dirs, target>>
           /\ staged' = StagedAs(j.path, [size |-> 0, full |-> Part(r).size])
  BY <1>2, <1>4 DEF JobEffect
<1>5. CASE /\ j.op = "rename" /\ j.path \in DOMAIN staged /\ AfterJob(j, TRUE) /\ target' = staged[j.path]
           /\ staged' = Unstaged({j.path}) /\ UNCHANGED dirs
  BY <1>1, <1>5 DEF JobEffect
<1>6. CASE j.op \in {"mkdir", "open", "rename"} /\ AfterJob(j, FALSE) /\ UNCHANGED disk
  BY <1>6 DEF JobEffect, disk
<1>7. CASE j.op = "remove" /\ staged' = Unstaged({j.path}) /\ AfterJob(j, TRUE) /\ UNCHANGED <<dirs, target>>
  BY <1>1, <1>7 DEF JobEffect
<1>8. CASE /\ j.op = "rmdir" /\ AfterJob(j, TRUE) /\ dirs' = dirs \ {r} /\ UNCHANGED target
           /\ staged' = Unstaged(FilesOf(r) \ {PendingPath(r)})
  <2>1. FilesOf(r)' \subseteq {PendingPath(r)}
    BY <1>1, <1>8 DEF FilesOf
  <2> QED BY <1>1, <1>8, <2>1 DEF JobEffect
<1> HIDE DEF r
<1> QED BY <1>3, <1>4, <1>5, <1>6, <1>7, <1>8 DEF RunUploadJob, r

\* A job whose request has ended.
LEMMA LateJobKeeps ==
  ASSUME UploadInv, NEW j \in jobs, RunUploadJob(j), up[OwnerOf(j)].stage = "ended"
  PROVE  UploadInv'
<1> DEFINE r == OwnerOf(j)
<1>0. /\ r \in Uploads /\ j.path = <<r, j.path[2]>> /\ j \in JobsOf(r) /\ ReqInv(r) /\ up[r].await # j
      /\ up[r].stage = "ended"
  BY JobFacts DEF Awaiting
<1>1. PICK ok \in BOOLEAN : AfterJob(j, ok) /\ JobEffect(r, j, ok)
  BY JobHasEffect
<1>2. UNCHANGED up /\ jobs' = jobs \ {j}
  BY <1>0, <1>1 DEF AfterJob
<1>3. leaked' = leaked /\ held' = held /\ StoreTypeOK' /\ Apart(r)
  BY <1>2, JobDisk DEF UploadInv, StoreTypeOK, Apart, JobsOf
<1> HIDE DEF r
<1>4. StageInv(up[r])'
  BY <1>0, <1>2 DEF ReqInv
<1>5. JobsInv(r)'
  BY <1>0, <1>2, <1>3 DEF ReqInv, JobsInv, JobsOf, LeftBehind, Acting, Awaiting
<1>6. GoesInv(r)'
  <2> SUFFICES ASSUME r \notin leaked PROVE GoesInv(r)'
    BY <1>3 DEF GoesInv
  <2> DEFINE dir == SpoolJob("rmdir", SpoolFile(r, 0))
             file == SpoolJob("remove", PendingPath(r))
  <2>1. j.op # "mkdir" /\ j.op # "open"
    <3>1. LeftBehind(r, j)
      BY <1>0 DEF ReqInv, JobsInv
    <3> QED BY <3>1 DEF LeftBehind
  <2>2. /\ (r \in dirs \/ \E p \in FilesOf(r) : p[2] # 0) => up[r].how \in {"input", "raw"} /\ dir \in jobs
        /\ PendingPath(r) \in DOMAIN staged => r \in held \/ file \in jobs
    BY <1>0 DEF ReqInv, GoesInv
  <2>3. (r \in dirs \/ \E p \in FilesOf(r) : p[2] # 0)' => j.op # "rmdir" /\ (r \in dirs \/ \E p \in FilesOf(r) : p[2] # 0)
    <3>1. FilesOf(r)' \subseteq FilesOf(r)
      BY <1>1, <2>1 DEF JobEffect, FilesOf
    <3>2. j.op = "rmdir" => r \notin dirs' /\ \A p \in FilesOf(r)' : p[2] = 0
      BY <1>1, <2>1 DEF JobEffect, PendingPath
    <3>3. r \in dirs' => r \in dirs
      BY <1>1, <2>1 DEF JobEffect
    <3> QED BY <3>1, <3>2, <3>3
  <2>4. PendingPath(r) \in DOMAIN staged' => PendingPath(r) \in DOMAIN staged /\ j # file
    <3>1. j = file => j.op = "remove" /\ j.path = PendingPath(r)
      BY DEF SpoolJob
    <3> QED BY <1>1, <2>1, <3>1 DEF JobEffect
  <2>5. j.op # "rmdir" => j # dir
    BY DEF SpoolJob
  <2>6. /\ (r \in dirs \/ \E p \in FilesOf(r) : p[2] # 0)' => up[r].how \in {"input", "raw"} /\ dir \in jobs'
        /\ PendingPath(r) \in DOMAIN staged' => r \in held' \/ file \in jobs'
    BY <1>2, <1>3, <2>2, <2>3, <2>4, <2>5
  <2> QED BY <1>0, <1>2, <2>6 DEF GoesInv
<1>7. SizesInv(r)'
  <2>1. ASSUME NEW k \in JobsOf(r)', k.op = "rename", k.path \in DOMAIN staged' PROVE Finished(staged'[k.path])
    <3>1. k \in JobsOf(r) /\ k # j
      BY <1>2 DEF JobsOf
    <3>2. ~Makes(j)
      BY <1>0, <2>1, <3>1 DEF ReqInv, JobsInv, Makes
    <3>3. k.path \in DOMAIN staged /\ staged'[k.path] = staged[k.path]
      BY <1>1, <2>1, <3>2 DEF JobEffect, Makes
    <3> QED BY <1>0, <2>1, <3>1, <3>3 DEF ReqInv, SizesInv
  <2> QED BY <1>0, <1>2, <2>1 DEF SizesInv
<1>8. Finished(target')
  BY <1>0, <1>1 DEF JobEffect, ReqInv, SizesInv, UploadInv
<1> QED BY <1>0, <1>3, <1>4, <1>5, <1>6, <1>7, <1>8, ApartKeeps DEF ReqInv, UploadInv

\* The race of a removal with a late open is one of a request that has leaked.
LEMMA RaceKeeps ==
  ASSUME UploadInv, NEW j \in jobs, NEW o \in jobs, RacedRemoval(j, o)
  PROVE  UploadInv'
<1> DEFINE r == OwnerOf(j)
           gone == FilesOf(r) \ {PendingPath(r)}
           new == [size |-> 0, full |-> Part(r).size]
<1>1. /\ j.op = "rmdir" /\ o.op = "open" /\ OwnerOf(o) = r
      /\ staged' = [p \in (DOMAIN staged \ gone) \cup {o.path} |-> IF p = o.path THEN new ELSE staged[p]]
      /\ jobs' = jobs \ {j, o} /\ UNCHANGED <<up, dirs, target, held, leaked>>
  BY DEF RacedRemoval, world
<1>2. /\ r \in Uploads /\ j \in JobsOf(r) /\ o \in JobsOf(r) /\ ReqInv(r) /\ o.path \in UploadPaths
      /\ o.path[1] = r
  BY <1>1, JobFacts DEF JobsOf, UploadInv, StoreTypeOK, UploadJobs, OwnerOf
<1>3. up[r].stage = "ended" /\ r \in leaked /\ up[r].body # <<>>
  <2>1. up[r].stage \in Awaiting => j = o
    BY <1>2 DEF ReqInv, JobsInv
  <2>2. up[r].stage \in Awaiting \cup Acting \cup {"ended"}
    BY <1>2 DEF ReqInv, StageInv, UploadRecs
  <2>3. up[r].stage = "ended"
    BY <1>1, <1>2, <2>1, <2>2 DEF ReqInv, JobsInv
  <2>4. LeftBehind(r, o)
    BY <1>2, <2>3 DEF ReqInv, JobsInv
  <2> QED BY <1>1, <2>3, <2>4 DEF LeftBehind
<1>4. new \in StagedFiles
  <2>1. up[r].body \in Seq(BodyParts)
    BY <1>2 DEF ReqInv, StageInv, UploadRecs
  <2>2. Head(up[r].body) \in BodyParts
    BY <1>3, <2>1
  <2> QED BY <2>2 DEF BodyParts, StagedFiles, Part
<1>5. /\ DOMAIN staged' = (DOMAIN staged \ gone) \cup {o.path} /\ gone \subseteq FilesOf(r)
      /\ \A p \in DOMAIN staged' \ {o.path} : p \in DOMAIN staged /\ staged'[p] = staged[p]
  BY <1>1
<1>6. StoreTypeOK'
  <2>1. staged' \in [DOMAIN staged' -> StagedFiles] /\ DOMAIN staged' \subseteq UploadPaths
    BY <1>1, <1>2, <1>4, <1>5 DEF UploadInv, StoreTypeOK
  <2> QED BY <1>1, <2>1 DEF UploadInv, StoreTypeOK
<1>7. Apart(r)
  <2>1. \A q \in Uploads \ {r} : FilesOf(q)' = FilesOf(q) /\ \A p \in FilesOf(q) : staged'[p] = staged[p]
    BY <1>2, <1>5 DEF FilesOf
  <2> QED BY <1>1, <1>2, <2>1 DEF Apart, JobsOf, UploadInv, StoreTypeOK
<1> HIDE DEF r, gone, new
<1>8. StageInv(up[r])' /\ JobsOf(r)' \subseteq JobsOf(r)
  BY <1>1, <1>2 DEF ReqInv, JobsOf
<1>9. JobsInv(r)'
  BY <1>1, <1>2, <1>3, <1>8 DEF ReqInv, JobsInv, LeftBehind, Acting, Awaiting
<1>10. GoesInv(r)'
  BY <1>1, <1>3 DEF GoesInv
<1>11. SizesInv(r)'
  <2>1. \A k \in JobsOf(r)' : k.op # "rename"
    BY <1>1, <1>2, <1>3, <1>8 DEF ReqInv, JobsInv, Makes
  <2> QED BY <1>1, <1>3, <2>1 DEF SizesInv
<1> QED BY <1>1, <1>2, <1>6, <1>7, <1>8, <1>9, <1>10, <1>11, ApartKeeps DEF ReqInv, UploadInv

\* A job whose request awaits it.
LEMMA AwaitedJobKeeps ==
  ASSUME UploadInv, NEW j \in jobs, RunUploadJob(j), up[OwnerOf(j)].stage \in Awaiting
  PROVE  UploadInv'
<1> DEFINE r == OwnerOf(j)
           v == up[r]
<1>0. /\ r \in Uploads /\ j.path = <<r, j.path[2]>> /\ j.path[2] \in Nat /\ j \in JobsOf(r) /\ JobsOf(r) = {j}
      /\ ReqInv(r) /\ v \in UploadRecs /\ v.stage \in Awaiting /\ Awaits(r, v, j) /\ StageInv(v)
  BY JobFacts DEF Awaiting, ReqInv
<1>1. PICK ok \in BOOLEAN : AfterJob(j, ok) /\ JobEffect(r, j, ok)
  BY JobHasEffect
<1>2. PICK u :
        /\ up' = [up EXCEPT ![r] = u] /\ StageInv(u) /\ u.how = v.how
        /\ u.files \subseteq v.files /\ u.bad = v.bad
        /\ \/ /\ v.stage = "mkdir" /\ ok /\ u.stage = "open" /\ u.index = v.index
              /\ u.await = SpoolJob("open", j.path) /\ jobs' = (jobs \ {j}) \cup {u.await}
           \/ /\ v.stage = "persist" /\ ~ok /\ u.stage = "discard"
              /\ u.await = SpoolJob("remove", j.path) /\ jobs' = (jobs \ {j}) \cup {u.await}
           \/ /\ u.stage \in Acting \ {"new"} /\ u.await = <<>> /\ jobs' = jobs \ {j}
              /\ ~(v.stage = "persist" /\ ~ok)
              /\ v.stage = "popen" /\ ok => u.stage = "saving"
              /\ u.stage = "spool" => v.stage = "open" /\ ok /\ u.buf = 0 /\ u.body = v.body /\ u.index = v.index
              /\ u.stage = "saving" => v.stage = "popen" /\ ok /\ u.buf = 0 /\ u.body = v.body
  BY <1>0, <1>1, OwnerGoesOn
<1>3. /\ v.stage = "mkdir" <=> j.op = "mkdir"
      /\ v.stage \in {"open", "popen"} <=> j.op = "open"
      /\ v.stage \in {"rename", "persist"} <=> j.op = "rename"
      /\ v.stage \in {"remove", "unlink", "discard"} <=> j.op = "remove"
      /\ v.stage \in InSpool => j.path = SpoolFile(r, v.index)
      /\ v.stage \in InPart => j.path = PendingPath(r)
  <2>1. \A x : x = v => x.stage \in Awaiting /\ Awaits(r, x, j)
    BY <1>0
  <2> HIDE DEF v
  <2> QED BY <2>1, AwaitedOp
<1>4. /\ leaked' = leaked /\ held' = held /\ staged' \in [DOMAIN staged' -> StagedFiles] /\ DOMAIN staged' \subseteq UploadPaths
      /\ \A q \in Uploads \ {r} :
           /\ FilesOf(q)' = FilesOf(q) /\ \A p \in FilesOf(q) : staged'[p] = staged[p]
           /\ (q \in dirs') = (q \in dirs)
  BY JobDisk
<1>5. OwnerOf(SpoolJob("open", j.path)) = r /\ OwnerOf(SpoolJob("remove", j.path)) = r
  BY DEF SpoolJob, OwnerOf
<1>6. up'[r] = u /\ DOMAIN up' = Uploads /\ jobs \subseteq UploadJobs /\ \A q \in Uploads \ {r} : up'[q] = up[q]
  BY <1>0, <1>2 DEF UploadInv, StoreTypeOK
<1>7. v.stage \in InSpool => v.index \in Nat /\ v.index > 0 /\ v.index \notin v.files /\ v.how \in {"input", "raw"}
  BY <1>0 DEF StageInv, UploadRecs
<1>8. JobsOf(r)' = IF u.stage \in Acting THEN {} ELSE {u.await}
  BY <1>0, <1>2, <1>5 DEF JobsOf, Acting
<1> HIDE DEF r, v
<1>9. StoreTypeOK' /\ Apart(r)
  <2>1. jobs' \subseteq UploadJobs
    <3>1. SpoolJob("open", j.path) \in UploadJobs /\ SpoolJob("remove", j.path) \in UploadJobs
      BY <1>6 DEF SpoolJob, UploadJobs
    <3> QED BY <1>2, <1>6, <3>1
  <2>2. \A q \in Uploads \ {r} : JobsOf(q)' = JobsOf(q)
    BY <1>2, <1>5 DEF JobsOf, r
  <2> QED BY <1>4, <1>6, <2>1, <2>2 DEF StoreTypeOK, Apart
<1>10. JobsInv(r)'
  <2>0. r \notin held'
    BY <1>0, <1>4 DEF ReqInv, JobsInv, Awaiting, v
  <2>1. CASE u.stage = "open"
    <3>1. v.stage = "mkdir" /\ u.await = SpoolJob("open", SpoolFile(r, u.index))
      BY <1>2, <1>3, <2>1 DEF Acting, InSpool
    <3>2. Awaits(r, u, u.await)
      BY <2>1, <3>1 DEF Awaits
    <3> QED BY <1>6, <1>8, <2>0, <2>1, <3>2 DEF JobsInv, Acting
  <2>2. CASE u.stage = "discard"
    <3>1. v.stage = "persist" /\ u.await = SpoolJob("remove", PendingPath(r))
      BY <1>2, <1>3, <2>2 DEF Acting, InPart
    <3>2. Awaits(r, u, u.await)
      BY <2>2, <3>1 DEF Awaits
    <3> QED BY <1>6, <1>8, <2>0, <2>2, <3>2 DEF JobsInv, Acting
  <2>3. CASE u.stage \in Acting /\ u.await = <<>>
    BY <1>6, <1>8, <2>0, <2>3 DEF JobsInv, Acting, Awaiting
  <2> QED BY <1>2, <2>1, <2>2, <2>3
<1>11. GoesInv(r)'
  <2> SUFFICES ASSUME r \notin leaked PROVE GoesInv(r)'
    BY <1>4 DEF GoesInv
  <2>0. u.stage # "ended" /\ v.stage # "ended"
    BY <1>0, <1>2 DEF Acting, Awaiting
  <2>1. (r \in dirs \/ \E p \in FilesOf(r) : p[2] # 0) => v.how \in {"input", "raw"}
    BY <1>0 DEF ReqInv, GoesInv, v
  <2>2. PendingPath(r) \in DOMAIN staged => v.stage \in {"saving", "persist", "discard"}
    BY <1>0, <2>0 DEF ReqInv, GoesInv, v
  <2>3. (r \in dirs \/ \E p \in FilesOf(r) : p[2] # 0)' => v.how \in {"input", "raw"}
    <3>1. CASE j.op = "mkdir"
      BY <1>3, <1>7, <3>1 DEF InSpool
    <3>2. CASE j.op = "open" /\ ok
      <4>1. FilesOf(r)' \subseteq FilesOf(r) \cup {j.path} /\ dirs' = dirs /\ (j.path[2] # 0 => r \in dirs)
        BY <1>1, <3>2 DEF JobEffect, FilesOf
      <4> QED BY <2>1, <4>1
    <3>3. CASE j.op # "mkdir" /\ ~(j.op = "open" /\ ok)
      <4>1. FilesOf(r)' \subseteq FilesOf(r) /\ dirs' \subseteq dirs
        BY <1>1, <3>3 DEF JobEffect, FilesOf
      <4> QED BY <2>1, <4>1
    <3> QED BY <3>1, <3>2, <3>3
  <2>4. PendingPath(r) \in DOMAIN staged' => u.stage \in {"saving", "persist", "discard"}
    <3>1. CASE j.op = "open" /\ ok
      <4>1. v.stage = "open" => j.path # PendingPath(r)
        BY <1>3, <1>7 DEF InSpool, SpoolFile, PendingPath
      <4>2. PendingPath(r) \in DOMAIN staged' => v.stage = "popen"
        BY <1>1, <1>3, <2>2, <3>1, <4>1 DEF JobEffect
      <4> QED BY <1>2, <3>1, <4>2 DEF Acting
    <3>2. CASE ~(j.op = "open" /\ ok)
      <4>1. PendingPath(r) \in DOMAIN staged' => PendingPath(r) \in DOMAIN staged
        BY <1>1, <3>2 DEF JobEffect
      <4>2. PendingPath(r) \in DOMAIN staged' => v.stage \in {"persist", "discard"}
        BY <1>0, <2>2, <4>1 DEF Awaiting
      <4>3. v.stage \in {"persist", "discard"} => j.path = PendingPath(r) /\ j.op \in {"rename", "remove"}
        BY <1>3 DEF InPart
      <4>4. PendingPath(r) \in DOMAIN staged' => ~ok /\ v.stage = "persist"
        BY <1>1, <1>3, <3>2, <4>2, <4>3 DEF JobEffect
      <4> QED BY <1>2, <4>4
    <3> QED BY <3>1, <3>2
  <2> QED BY <1>2, <1>6, <2>0, <2>3, <2>4 DEF GoesInv
<1>12. SizesInv(r)'
  <2>1. CurrentSpool(r)' = SpoolFile(r, u.index) /\ Part(r)' = Head(u.body) /\ Part(r) = Head(v.body)
    BY <1>6 DEF CurrentSpool, Part, SpoolFile, v
  <2>2. u.stage \in {"spool", "saving"} =>
          /\ staged'[j.path] = [size |-> 0, full |-> Part(r).size]
          /\ u.buf = 0 /\ u.body = v.body
          /\ u.stage = "spool" => j.path = SpoolFile(r, u.index)
          /\ u.stage = "saving" => j.path = PendingPath(r)
    <3>1. u.stage \in {"spool", "saving"} => v.stage \in {"open", "popen"} /\ ok /\ u.buf = 0 /\ u.body = v.body
      BY <1>2 DEF Acting
    <3>2. u.stage \in {"spool", "saving"} => staged'[j.path] = [size |-> 0, full |-> Part(r).size]
      BY <1>1, <1>3, <3>1 DEF JobEffect
    <3> QED BY <1>2, <1>3, <3>1, <3>2 DEF InSpool, InPart, Acting
  <2>3. ASSUME u.stage # "ended", ~u.bad, NEW i \in u.files, SpoolFile(r, i) \in DOMAIN staged'
        PROVE  Finished(staged'[SpoolFile(r, i)])
    <3>1. i \in v.files /\ ~v.bad /\ v.stage # "ended"
      BY <1>0, <1>2, <2>3 DEF Awaiting
    <3>2. i # 0
      BY <1>0, <3>1 DEF StageInv, UploadRecs
    <3>3. j.op = "open" => j.path # SpoolFile(r, i)
      BY <1>3, <1>7, <3>1, <3>2 DEF InSpool, InPart, SpoolFile, PendingPath
    <3>4. SpoolFile(r, i) \in DOMAIN staged /\ staged'[SpoolFile(r, i)] = staged[SpoolFile(r, i)]
      BY <1>1, <2>3, <3>3 DEF JobEffect
    <3> QED BY <1>0, <3>1, <3>4 DEF ReqInv, SizesInv, v
  <2>4. \A k \in JobsOf(r)' : k.op # "rename"
    BY <1>2, <1>8 DEF SpoolJob, Acting
  <2> QED BY <1>6, <2>1, <2>2, <2>3, <2>4 DEF SizesInv, PendingPath, SpoolFile
<1>13. Finished(target')
  BY <1>0, <1>1 DEF JobEffect, ReqInv, SizesInv, UploadInv
<1> QED BY <1>0, <1>2, <1>6, <1>9, <1>10, <1>11, <1>12, <1>13, ApartKeeps DEF ReqInv, UploadInv

LEMMA CrashKeeps == ASSUME UploadInv, Crash PROVE UploadInv'
<1> USE DEF UploadInv
<1>0. jobs' = {} /\ UNCHANGED disk
  BY DEF Crash
<1>1. StoreTypeOK' /\ Finished(target')
  BY DEF Crash, StoreTypeOK, disk
<1>2. SUFFICES ASSUME NEW r \in Uploads PROVE ReqInv(r)'
  BY <1>1
<1> DEFINE v == up[r]
           s == IF v.stage = "new" THEN "new" ELSE "ended"
           u == [v EXCEPT !.stage = s, !.await = <<>>]
<1>3. up'[r] = u /\ (r \notin leaked' => r \notin leaked \cup held /\ v.stage = "ended" /\ JobsOf(r) = {})
      /\ held' = {}
  BY DEF Crash, JobsOf
<1>4. StageInv(v) /\ v \in UploadRecs /\ ReqInv(r)
  BY DEF ReqInv, StageInv
<1> HIDE DEF v
<1>5. /\ u \in UploadRecs /\ u.stage = s /\ u.await = <<>> /\ u.how = v.how /\ u.files = v.files /\ u.bad = v.bad
      /\ u.index = v.index
  <2>1. s \in Acting \cup {"ended"}
    BY DEF Acting
  <2> HIDE DEF s
  <2> QED BY <1>4, <2>1 DEF UploadRecs
<1>6. v.stage = "new" => u = Fresh0
  <2>1. v.stage = "new" => v = Fresh0
    BY <1>4 DEF StageInv
  <2>2. v.stage = "new" => v.await = <<>>
    BY <2>1 DEF Fresh0
  <2>3. \A x \in UploadRecs : x.stage = "new" /\ x.await = <<>> => x = [x EXCEPT !.stage = "new", !.await = <<>>]
    BY DEF UploadRecs
  <2> QED BY <1>4, <2>1, <2>2, <2>3
<1>7. u.stage = "new" => v.stage = "new"
  BY <1>5
<1> HIDE DEF u, s
<1>8. u.stage \in {"new", "ended"}
  BY <1>5 DEF s
<1>9. StageInv(u)
  BY <1>4, <1>5, <1>6, <1>7, <1>8 DEF StageInv, InSpool, InPart
<1>10. JobsOf(r)' = {}
  BY <1>0 DEF JobsOf
<1>11. JobsInv(r)'
  BY <1>3, <1>5, <1>8, <1>10 DEF JobsInv, Acting, Awaiting
<1>12. GoesInv(r)'
  <2> SUFFICES ASSUME r \notin leaked' PROVE GoesInv(r)'
    BY DEF GoesInv
  <2>1. \A o, p : p[1] = r => SpoolJob(o, p) \notin jobs
    BY <1>3 DEF JobsOf, OwnerOf, SpoolJob
  <2>2. r \notin dirs /\ (\A p \in FilesOf(r) : p[2] = 0) /\ PendingPath(r) \notin DOMAIN staged
    BY <1>3, <1>4, <2>1 DEF ReqInv, GoesInv, SpoolFile, PendingPath, v
  <2> QED BY <1>0, <2>2 DEF GoesInv, disk, FilesOf, PendingPath
<1>13. SizesInv(r)'
  <2>1. u.stage # "ended" => u.files = {}
    BY <1>6, <1>7, <1>8 DEF Fresh0
  <2> QED BY <1>3, <1>8, <1>10, <2>1 DEF SizesInv
<1> QED BY <1>3, <1>9, <1>11, <1>12, <1>13 DEF ReqInv

LEMMA BootKeeps == ASSUME UploadInv, Boot PROVE UploadInv'
<1> USE DEF UploadInv
<1>0. DOMAIN staged' = {} /\ staged' = <<>> /\ dirs' = {} /\ UNCHANGED <<up, target, jobs, held>>
  BY DEF Boot
<1>1. StoreTypeOK' /\ Finished(target')
  BY <1>0 DEF StoreTypeOK
<1>2. SUFFICES ASSUME NEW r \in Uploads PROVE ReqInv(r)'
  BY <1>1
<1>3. ReqInv(r)
  OBVIOUS
<1>4. r \in leaked /\ JobsOf(r) # {} => r \in leaked'
  BY DEF Boot, JobsOf
<1>5. JobsInv(r)'
  BY <1>0, <1>3, <1>4 DEF ReqInv, JobsInv, JobsOf, LeftBehind
<1>6. GoesInv(r)'
  BY <1>0 DEF GoesInv, FilesOf
<1>7. SizesInv(r)'
  BY <1>0 DEF SizesInv
<1> QED BY <1>0, <1>3, <1>5, <1>6, <1>7 DEF ReqInv

LEMMA UploadInitInv == UploadInit => UploadInv
<1> SUFFICES ASSUME UploadInit PROVE UploadInv
  OBVIOUS
<1>1. StoreTypeOK /\ DOMAIN staged = {} /\ jobs = {} /\ dirs = {} /\ held = {}
  BY DEF UploadInit, StoreTypeOK
<1>2. Finished(target)
  BY UploadLimitsAreNatural DEF UploadInit, Nothing, Finished
<1>3. StageInv(Fresh0) /\ Fresh0.stage = "new" /\ Fresh0.await = <<>> /\ Fresh0.files = {}
  BY DEF StageInv, Fresh0, UploadRecs, Acting, Readers, InSpool, InPart
<1>4. ASSUME NEW r \in Uploads PROVE ReqInv(r)
  <2>1. up[r] = Fresh0 /\ JobsOf(r) = {} /\ FilesOf(r) = {}
    BY <1>1 DEF UploadInit, JobsOf, FilesOf
  <2> QED BY <1>1, <1>3, <2>1 DEF ReqInv, JobsInv, GoesInv, SizesInv, Awaiting, Acting
<1> QED BY <1>1, <1>2, <1>4 DEF UploadInv

LEMMA UploadNextInv == UploadInv /\ [UploadNext]_uploadVars => UploadInv'
<1> SUFFICES ASSUME UploadInv, [UploadNext]_uploadVars PROVE UploadInv'
  OBVIOUS
<1>1. CASE UNCHANGED uploadVars
  BY <1>1 DEF uploadVars, UploadInv, StoreTypeOK, ReqInv, JobsInv, GoesInv, SizesInv, JobsOf, LeftBehind,
              FilesOf, CurrentSpool, Part
<1>2. CASE \E r \in Uploads :
             \/ ArriveUpload(r) \/ NextField(r) \/ ReadText(r) \/ EndText(r) \/ Drain(r) \/ PushChunk(r)
             \/ FinishFile(r) \/ CallHandler(r) \/ FileSave(r) \/ FileDiscard(r) \/ Respond(r)
  BY <1>2, InputSteps
<1>3. CASE \E r \in Uploads :
             \/ CallPart(r) \/ PartSave(r) \/ PartRead(r) \/ PartChunk(r) \/ PartDone(r)
             \/ PartReturn(r) \/ EndParts(r) \/ AskRead(r) \/ ReadFrame(r) \/ ReadEnds(r)
             \/ RaiseInInput(r) \/ Trips(r) \/ BodyFails(r) \/ CutUpload(r) \/ HangUpUpload(r) \/ CollectUpload(r)
  BY <1>3, HandlerSteps
<1>4. CASE \E j \in jobs : RunUploadJob(j)
  BY <1>4, JobFacts, LateJobKeeps, AwaitedJobKeeps
<1>5. CASE \E j, o \in jobs : RacedRemoval(j, o)
  BY <1>5, RaceKeeps
<1> QED BY <1>1, <1>2, <1>3, <1>4, <1>5, CrashKeeps, BootKeeps DEF UploadNext

\* A name under the upload root holds a file that was written to its end and
\* within the bound, and no handler takes the start of an oversized body for all of it.
THEOREM UploadsStayWhole == UploadSpec => []UploadsAreWhole
<1>1. UploadInv => UploadsAreWhole
  BY DEF UploadInv, UploadsAreWhole, SavedIsWhole, OversizeIsNoticed, Finished, ReqInv, StageInv
<1> QED BY <1>1, UploadInitInv, UploadNextInv, PTL DEF UploadSpec

\* What a request that ended has staged is gone when its last job has run and its
\* coroutine is collected: PendingFile and SpoolDir undo what was made, whatever order
\* the pool runs the jobs in.  Not said of a request dropped while the pool creates a
\* file or a directory for it, nor of one lost in a crash.
THEOREM SpoolGetsEmptied == UploadSpec => []SpoolIsEmptied
<1>1. ASSUME UploadInv PROVE SpoolIsEmptied
  <2> SUFFICES ASSUME NEW r \in Uploads, up[r].stage = "ended", r \notin leaked \cup held, \A j \in jobs : OwnerOf(j) # r
               PROVE  r \notin dirs /\ FilesOf(r) = {}
    BY DEF SpoolIsEmptied
  <2>1. GoesInv(r) /\ DOMAIN staged \subseteq UploadPaths
    BY <1>1 DEF UploadInv, ReqInv, StoreTypeOK
  <2>2. \A o, p : p[1] = r => SpoolJob(o, p) \notin jobs
    BY DEF OwnerOf, SpoolJob
  <2>3. r \notin dirs /\ (\A p \in FilesOf(r) : p[2] = 0) /\ PendingPath(r) \notin DOMAIN staged
    BY <2>1, <2>2 DEF GoesInv, SpoolFile, PendingPath
  <2>4. \A p \in FilesOf(r) : p = <<r, p[2]>>
    BY <2>1, PathIsAPair DEF FilesOf
  <2> QED BY <2>3, <2>4 DEF FilesOf, PendingPath
<1> QED BY <1>1, UploadInitInv, UploadNextInv, PTL DEF UploadSpec

-----------------------------------------------------------------------------
\* Every set of naturals that is not empty has a least element.
LEMMA LeastNatural ==
  ASSUME NEW T \in SUBSET Nat, T # {}
  PROVE  \E n \in T : \A m \in T : n <= m
<1> DEFINE R == {p \in Nat \X Nat : p[1] < p[2]}
<1>1. R = OpToRel(<, Nat)
  BY DEF OpToRel
<1>2. IsWellFoundedOn(R, Nat)
  BY <1>1, NatLessThanWellFounded
<1> HIDE DEF R
<1>3. PICK n \in T : \A m \in T : ~(<<m, n>> \in R)
  BY <1>2, WFMin
<1>4. \A m \in T : ~(m < n)
  BY <1>3 DEF R
<1> QED BY <1>4

-----------------------------------------------------------------------------
(* Static files and the copies clients keep.                               *)
(*                                                                         *)
(* Every byte a client has is at least as new as the date of its copy, and *)
(* one that was read before any redeployment is of the file the headers    *)
(* described.  A request that resumes or revalidates names the validators  *)
(* of the copy, and the copy stays as it is until the answer is there.     *)

Codings == {Identity} \cup ToSet(Offered)
Builds == [ver : Nat, len : Nat, sec : Nat]
Etags == [len : Nat, sec : Nat, suffix : Codings, weak : BOOLEAN]
BodyBytes == [rep : Codings, ver : Nat, sec : Nat, len : Nat, fly : Codings, late : BOOLEAN]
Origins == CorsOrigins \cup {"none", "stranger"}
IfRanges == [by : {"none", "etag", "date"}, tag : Etags, sec : Nat]
Requests ==
  [accept : SUBSET ToSet(Offered), origin : Origins, inm : SUBSET Etags, ims : Nat \cup {-1}, from : Nat,
   ifRange : IfRanges]
AnswerFields ==
  {"stage", "req", "status", "start", "declared", "total", "coding", "ranges", "etag", "date", "vary", "allow", "meta",
   "body"}
CopyFields == {"bytes", "total", "etag", "date", "coding", "allow", "ranges", "accept", "origin", "by"}

\* What is deployed: a version has one length and one date.
DeployedInv ==
  /\ second \in Nat /\ deploys \in Nat
  /\ fs \in [Reps -> Builds]
  /\ \A r \in Reps : fs[r] # Gone => fs[r].ver \in 1..deploys /\ fs[r].sec <= second
  /\ \A r, s \in Reps : fs[r].ver = fs[s].ver => fs[r] = fs[s]

\* Byte b was sent under headers of date sec and length len.
SentAs(b, sec, len) == b.sec >= sec /\ (~b.late => b.sec = sec /\ b.len = len)

\* The coding a body was put in on its way: a compressed answer offers no ranges.
FlyOf(a) == IF a.ranges THEN Identity ELSE a.coding

IsAnswer(a) ==
  /\ DOMAIN a = AnswerFields
  /\ a.stage = "answer" /\ a.req \in Requests /\ a.status \in {200, 206, 304, 416} /\ a.start \in Nat
  /\ a.declared \in Nat /\ a.total \in Nat /\ a.coding \in Codings /\ a.ranges \in BOOLEAN /\ a.etag \in Etags
  /\ a.date \in Nat /\ a.vary \in SUBSET {"accept-encoding", "origin"} /\ a.allow \in Origins
  /\ a.meta \in Builds /\ a.body \in Seq(BodyBytes)

AnswerInv(a) ==
  /\ IsAnswer(a)
  /\ a.date = a.meta.sec /\ a.total = a.meta.len /\ a.etag.sec = a.meta.sec /\ a.etag.len = a.meta.len
  /\ \A i \in DOMAIN a.body : SentAs(a.body[i], a.meta.sec, a.meta.len) /\ a.body[i].fly = FlyOf(a)
  /\ a.status = 206 => a.ranges
  /\ a.coding \in a.req.accept \cup {Identity}
  /\ "accept-encoding" \in a.vary
  /\ a.allow # "none" => "origin" \in a.vary /\ a.allow = a.req.origin

IsCopy(k) ==
  /\ DOMAIN k = CopyFields
  /\ k.bytes \in Seq(BodyBytes) /\ k.total \in Nat /\ k.etag \in Etags /\ k.date \in Nat /\ k.coding \in Codings
  /\ k.allow \in Origins /\ k.ranges \in BOOLEAN /\ k.accept \in SUBSET ToSet(Offered) /\ k.origin \in Origins
  /\ k.by \in {"etag", "date"}

CopyInv(k) ==
  /\ k = NoCopy \/ IsCopy(k)
  /\ k # NoCopy =>
       /\ k.etag.sec = k.date
       /\ \A i \in DOMAIN k.bytes :
            /\ k.bytes[i].sec >= k.date /\ k.bytes[i].fly = FlyOf(k)
            /\ ~k.bytes[i].late => k.bytes[i].sec = k.date /\ (k.by = "etag" => k.bytes[i].len = k.etag.len)
       /\ k.coding \in k.accept \cup {Identity}
       /\ k.allow \in {"none", k.origin}

\* What a request says of the copy k of its client.
AskInv(req, k) ==
  /\ req \in Requests
  /\ req.from # 0 =>
       /\ k # NoCopy /\ k.ranges
       /\ \/ req.ifRange.by = "etag" /\ req.ifRange.tag = k.etag
          \/ req.ifRange.by = "date" /\ req.ifRange.sec = k.date
  /\ req.inm # {} => k # NoCopy /\ req.inm = {k.etag}
  /\ req.ims # -1 => k # NoCopy /\ req.ims = k.date

\* What an answer says of the copy k it is for.
AnsweredInv(a, k) ==
  /\ a.status = 206 =>
       /\ k # NoCopy /\ k.ranges /\ a.meta.sec = k.date
       /\ a.req.ifRange.by # "date" => a.meta.len = k.etag.len
  /\ a.status = 304 => k # NoCopy /\ a.meta.sec <= k.date

\* The metadata of a located file: what is there now is it, or is newer.
LocatedInv(k) ==
  /\ k.rep \in Reps /\ k.rep \in k.req.accept \cup {Identity}
  /\ k.meta \in Builds /\ k.meta.ver \in 1..deploys /\ k.meta.sec <= second
  /\ fs[k.rep] # Gone => fs[k.rep].sec >= k.meta.sec
  /\ \A r \in Reps : fs[r].ver = k.meta.ver => fs[r] = k.meta

ConnInv(c) ==
  \/ conn[c] = NoConn
  \/ /\ conn[c] = [stage |-> "located", req |-> conn[c].req, rep |-> conn[c].rep, meta |-> conn[c].meta]
     /\ AskInv(conn[c].req, copy[c]) /\ LocatedInv(conn[c])
  \/ conn[c] = [stage |-> "answer", status |-> 404]
  \/ AnswerInv(conn[c]) /\ AnsweredInv(conn[c], copy[c])

Preflights ==
  [origin : CorsOrigins \cup {"stranger"}, method : {"PUT", "DELETE"}, headers : {{}, {"x-other"}}, accept : {{}}]

ShelfInv ==
  \/ shelf = NoEntry
  \/ /\ shelf = [kind |-> "get", req |-> shelf.answer.req, answer |-> shelf.answer]
     /\ AnswerInv(shelf.answer) /\ shelf.answer.status = 200
  \/ /\ shelf = [kind |-> "preflight", req |-> shelf.req, answer |-> Preflight(shelf.req)]
     /\ shelf.req \in Preflights

VerdictInv(c) ==
  \/ verdict[c] = NoEntry
  \/ /\ verdict[c] = [kind |-> "seen", req |-> verdict[c].req, approved |-> Approved(verdict[c].req)]

ToldInv(t) == t.total > 0 => \A i \in DOMAIN t.bytes : t.bytes[i].sec >= t.meta.sec

ContentInv ==
  /\ DeployedInv /\ ShelfInv
  /\ DOMAIN conn = Browsers /\ DOMAIN copy = Browsers /\ DOMAIN told = Browsers /\ DOMAIN verdict = Browsers
  /\ \A c \in Browsers : ConnInv(c) /\ CopyInv(copy[c]) /\ VerdictInv(c) /\ ToldInv(told[c])

LEMMA CodingFacts ==
  /\ Identity \in Codings /\ Reps \subseteq Codings /\ Offered \in Seq(STRING)
  /\ \A accept \in SUBSET ToSet(Offered) : Acceptable(accept) # {} =>
       NegotiatedFor(accept) \in accept /\ NegotiatedFor(accept) \in Codings
<1>1. Identity \in Codings /\ Reps \subseteq Codings /\ Offered \in Seq(STRING)
  BY ContentConstants DEF Codings, Reps
<1>2. ASSUME NEW accept \in SUBSET ToSet(Offered), Acceptable(accept) # {}
      PROVE  NegotiatedFor(accept) \in accept /\ NegotiatedFor(accept) \in Codings
  <2>1. Acceptable(accept) \in SUBSET Nat
    BY <1>1 DEF Acceptable
  <2>2. PICK i \in Acceptable(accept) : \A j \in Acceptable(accept) : i <= j
    BY <1>2, <2>1, LeastNatural
  <2>3. NegotiatedFor(accept) \in accept
    BY <2>2 DEF NegotiatedFor, Acceptable
  <2> QED BY <2>3 DEF Codings
<1> QED BY <1>1, <1>2

LEMMA EtagFacts ==
  ASSUME NEW v \in Builds
  PROVE  /\ EtagFor(v) \in Etags /\ EtagFor(v).len = v.len /\ EtagFor(v).sec = v.sec
         /\ \A e \in Codings : /\ WeakenEtag(EtagFor(v), e) \in Etags
                               /\ WeakenEtag(EtagFor(v), e).len = v.len /\ WeakenEtag(EtagFor(v), e).sec = v.sec
BY CodingFacts DEF EtagFor, WeakenEtag, Etags, Builds

LEMMA GoneIsABuild == Gone \in Builds /\ Gone.ver = 0 /\ NoTag \in Etags /\ NoIfRange \in IfRanges
<1>1. Gone \in Builds /\ Gone.ver = 0
  BY DEF Gone, Builds
<1>2. NoTag \in Etags
  BY <1>1, EtagFacts DEF NoTag
<1> QED BY <1>1, <1>2 DEF NoIfRange, IfRanges

LEMMA CopyIsThere == ~IsCopy(NoCopy) /\ NoCopy.total = 0 /\ NoCopy.bytes = <<>>
BY DEF NoCopy, IsCopy, CopyFields

\* The request a client makes of its copy says so.
LEMMA AskIsOfCopy ==
  ASSUME NEW c \in Browsers, CopyInv(copy[c]), NEW accept \in SUBSET ToSet(Offered), NEW origin \in Origins,
         NEW how \in {"plain", "tag", "date", "rest_tag", "rest_date"},
         Request(c, accept, origin, how).from >= 0
  PROVE  AskInv(Request(c, accept, origin, how), copy[c]) /\ Request(c, accept, origin, how).accept = accept
<1> DEFINE k == copy[c]
           whole == k.total > 0 /\ Len(k.bytes) = k.total
           ask == [accept |-> accept, origin |-> origin, inm |-> {}, ims |-> -1, from |-> 0, ifRange |-> NoIfRange]
           req == Request(c, accept, origin, how)
<1>1. ask \in Requests /\ AskInv(ask, k) /\ ask.accept = accept /\ ask.ifRange = NoIfRange
  BY GoneIsABuild DEF Requests, AskInv
<1>2. CASE req = ask
  BY <1>1, <1>2
<1>3. CASE how = "tag" /\ whole
  <2>1. req = [ask EXCEPT !.inm = {k.etag}, !.ims = k.date]
    BY <1>3 DEF Request
  <2>2. k # NoCopy /\ IsCopy(k) /\ k.etag \in Etags /\ k.date \in Nat
    BY <1>3, CopyIsThere DEF CopyInv, IsCopy
  <2> HIDE DEF req, k
  <2>4. req \in Requests /\ req.accept = accept /\ req.inm = {k.etag} /\ req.ims = k.date /\ req.from = 0
    BY <1>1, <2>1, <2>2 DEF Requests
  <2>5. AskInv(req, k) /\ req.accept = accept
    BY <2>2, <2>4 DEF AskInv
  <2> QED BY <2>5 DEF req, k
<1>4. CASE how = "date" /\ whole
  <2>1. req = [ask EXCEPT !.ims = k.date]
    BY <1>4 DEF Request
  <2>2. k # NoCopy /\ IsCopy(k) /\ k.etag \in Etags /\ k.date \in Nat
    BY <1>4, CopyIsThere DEF CopyInv, IsCopy
  <2> HIDE DEF req, k
  <2>4. req \in Requests /\ req.accept = accept /\ req.inm = {} /\ req.ims = k.date /\ req.from = 0
    BY <1>1, <2>1, <2>2 DEF Requests
  <2>5. AskInv(req, k) /\ req.accept = accept
    BY <2>2, <2>4 DEF AskInv
  <2> QED BY <2>5 DEF req, k
<1>5. CASE how = "rest_tag" /\ k.bytes # <<>> /\ ~whole /\ k.ranges
  <2>1. req = [ask EXCEPT !.from = Len(k.bytes), !.ifRange = [by |-> "etag", tag |-> k.etag, sec |-> 0]]
    BY <1>5 DEF Request
  <2>2. k # NoCopy /\ k.etag \in Etags /\ k.date \in Nat /\ Len(k.bytes) \in Nat
    <3>1. k # NoCopy /\ IsCopy(k)
      BY <1>5, CopyIsThere DEF CopyInv
    <3> QED BY <3>1 DEF IsCopy
  <2>3. [by |-> "etag", tag |-> k.etag, sec |-> 0] \in IfRanges
    BY <2>2 DEF IfRanges
  <2> HIDE DEF req, k
  <2>4. req \in Requests /\ req.accept = accept /\ req.inm = {} /\ req.ims = -1 /\ req.ifRange.by = "etag" /\ req.ifRange.tag = k.etag
    BY <1>1, <2>1, <2>2, <2>3 DEF Requests
  <2>5. AskInv(req, k) /\ req.accept = accept
    BY <1>5, <2>2, <2>4 DEF AskInv
  <2> QED BY <2>5 DEF req, k
<1>6. CASE how = "rest_date" /\ k.bytes # <<>> /\ ~whole /\ k.ranges
  <2>1. req = [ask EXCEPT !.from = Len(k.bytes), !.ifRange = [by |-> "date", tag |-> NoTag, sec |-> k.date]]
    BY <1>6 DEF Request
  <2>2. k # NoCopy /\ k.etag \in Etags /\ k.date \in Nat /\ Len(k.bytes) \in Nat
    <3>1. k # NoCopy /\ IsCopy(k)
      BY <1>6, CopyIsThere DEF CopyInv
    <3> QED BY <3>1 DEF IsCopy
  <2>3. [by |-> "date", tag |-> NoTag, sec |-> k.date] \in IfRanges
    BY <2>2, GoneIsABuild DEF IfRanges
  <2> HIDE DEF req, k
  <2>4. req \in Requests /\ req.accept = accept /\ req.inm = {} /\ req.ims = -1 /\ req.ifRange.by = "date" /\ req.ifRange.sec = k.date
    BY <1>1, <2>1, <2>2, <2>3 DEF Requests
  <2>5. AskInv(req, k) /\ req.accept = accept
    BY <1>6, <2>2, <2>4 DEF AskInv
  <2> QED BY <2>5 DEF req, k
<1>7. CASE ~(req = ask) /\ ~(how = "tag" /\ whole) /\ ~(how = "date" /\ whole)
           /\ ~(how = "rest_tag" /\ k.bytes # <<>> /\ ~whole /\ k.ranges)
           /\ ~(how = "rest_date" /\ k.bytes # <<>> /\ ~whole /\ k.ranges)
  <2>1. req = [ask EXCEPT !.from = -1]
    BY <1>7 DEF Request
  <2>2. req.from = -1
    <3> HIDE DEF req
    <3> QED BY <2>1
  <2> QED BY <2>2
<1> QED BY <1>2, <1>3, <1>4, <1>5, <1>6, <1>7

-----------------------------------------------------------------------------
(* An answer on its way through serve_file(), apply() and apply().         *)

\* a is a bodiless answer to req that describes v.
Describes(a, req, rep, v) ==
  /\ IsAnswer(a) /\ a.meta = v /\ a.req = req /\ a.coding = rep /\ a.ranges = TRUE /\ a.etag = EtagFor(v)
  /\ a.date = v.sec /\ a.total = v.len /\ a.vary = {"accept-encoding"} /\ a.allow = "none"
  /\ a.status = 304 => IsFresh(req, v)
  /\ a.status = 206 => req.from # 0 /\ IfRangeMatches(req.ifRange, v)

LEMMA HeadersFacts ==
  ASSUME NEW req \in Requests, NEW rep \in Codings, NEW v \in Builds
  PROVE  Describes(Headers(req, rep, v), req, rep, v)
<1> DEFINE a == Headers(req, rep, v)
<1> SUFFICES Describes(a, req, rep, v)
  OBVIOUS
<1>0. v.len \in Nat /\ v.sec \in Nat /\ req.from \in Nat
  BY DEF Builds, Requests
<1>1. EtagFor(v) \in Etags /\ <<>> \in Seq(BodyBytes)
  BY EtagFacts
<1> DEFINE b == [stage |-> "answer", req |-> req, status |-> 200, start |-> 0, declared |-> v.len, total |-> v.len,
                 coding |-> rep, ranges |-> TRUE, etag |-> EtagFor(v), date |-> v.sec,
                 vary |-> {"accept-encoding"}, allow |-> "none", meta |-> v, body |-> <<>>]
           Suits(o) == /\ o.meta = v /\ o.req = req /\ o.coding = rep /\ o.ranges = TRUE /\ o.etag = EtagFor(v)
                      /\ o.date = v.sec /\ o.total = v.len /\ o.vary = {"accept-encoding"} /\ o.allow = "none"
<1>6. IsAnswer(b)
  BY <1>0, <1>1 DEF IsAnswer, AnswerFields, Origins
<1>7. Suits(b) /\ b.status = 200
  OBVIOUS
<1>2. CASE IsFresh(req, v)
  <2>1. a = [b EXCEPT !.status = 304, !.declared = 0]
    BY <1>2 DEF Headers
  <2> HIDE DEF a, b
  <2>3. IsAnswer(a) /\ a.status = 304
    BY <1>6, <2>1 DEF IsAnswer, AnswerFields
  <2>4. DOMAIN a = DOMAIN b /\ \A x \in DOMAIN b \ {"status", "start", "declared"} : a[x] = b[x]
    BY <2>1
  <2>5. Suits(a)
    BY <1>6, <1>7, <2>4 DEF IsAnswer, AnswerFields
  <2> QED BY <1>2, <2>3, <2>5 DEF Describes
<1>3. CASE ~IsFresh(req, v) /\ Resolve(req, v) = "unsatisfiable"
  <2>1. a = [b EXCEPT !.status = 416, !.declared = 0]
    BY <1>3 DEF Headers
  <2> HIDE DEF a, b
  <2>3. IsAnswer(a) /\ a.status = 416
    BY <1>6, <2>1 DEF IsAnswer, AnswerFields
  <2>4. DOMAIN a = DOMAIN b /\ \A x \in DOMAIN b \ {"status", "start", "declared"} : a[x] = b[x]
    BY <2>1
  <2>5. Suits(a)
    BY <1>6, <1>7, <2>4 DEF IsAnswer, AnswerFields
  <2> QED BY <2>3, <2>5 DEF Describes
<1>4. CASE ~IsFresh(req, v) /\ Resolve(req, v) = "partial"
  <2>1. req.from # 0 /\ IfRangeMatches(req.ifRange, v) /\ v.len - req.from \in Nat
    BY <1>0, <1>4 DEF Resolve
  <2>2. a = [b EXCEPT !.status = 206, !.start = req.from, !.declared = v.len - req.from]
    BY <1>4 DEF Headers
  <2> HIDE DEF a, b
  <2>3. IsAnswer(a) /\ a.status = 206
    BY <1>0, <1>6, <2>1, <2>2 DEF IsAnswer, AnswerFields
  <2>4. DOMAIN a = DOMAIN b /\ \A x \in DOMAIN b \ {"status", "start", "declared"} : a[x] = b[x]
    BY <2>2
  <2>5. Suits(a)
    BY <1>6, <1>7, <2>4 DEF IsAnswer, AnswerFields
  <2> QED BY <2>1, <2>3, <2>5 DEF Describes
<1>5. CASE ~IsFresh(req, v) /\ Resolve(req, v) = "full"
  <2>1. a = b
    BY <1>5 DEF Headers
  <2> HIDE DEF a, b
  <2> QED BY <1>6, <1>7, <2>1 DEF Describes
<1> QED BY <1>2, <1>3, <1>4, <1>5 DEF Resolve

LEMMA SpanFacts ==
  ASSUME DeployedInv, NEW k, LocatedInv(k), fs[k.rep] # Gone, NEW start \in Nat, NEW count \in Nat
  PROVE  /\ ReadSpan(k.rep, start, count, k.meta) \in Seq(BodyBytes)
         /\ \A i \in DOMAIN ReadSpan(k.rep, start, count, k.meta) :
              /\ SentAs(ReadSpan(k.rep, start, count, k.meta)[i], k.meta.sec, k.meta.len)
              /\ ReadSpan(k.rep, start, count, k.meta)[i].fly = Identity
<1> DEFINE v == fs[k.rep]
           b == Byte(k.rep, v, k.meta)
           upto == IF start + count < v.len THEN start + count ELSE v.len
           m == IF upto > start THEN upto - start ELSE 0
           body == ReadSpan(k.rep, start, count, k.meta)
<1>0. v \in Builds /\ k.rep \in Codings /\ v.len \in Nat /\ v.sec \in Nat /\ v.ver \in Nat
  BY CodingFacts DEF DeployedInv, LocatedInv, Builds
<1>1. body = [i \in 1..m |-> b]
  BY DEF ReadSpan
<1>2. m \in Nat
  BY <1>0
<1>3. b \in BodyBytes /\ b.fly = Identity /\ b.sec = v.sec /\ b.len = v.len /\ (~b.late => v.ver = k.meta.ver)
  BY <1>0, CodingFacts DEF Byte, BodyBytes
<1>4. SentAs(b, k.meta.sec, k.meta.len)
  BY <1>3 DEF SentAs, LocatedInv
<1> HIDE DEF b, m, body, v
<1>5. body \in Seq(BodyBytes) /\ \A i \in DOMAIN body : body[i] = b
  BY <1>1, <1>2, <1>3
<1> QED BY <1>3, <1>4, <1>5 DEF body

LEMMA CompressKeeps ==
  ASSUME NEW a, AnswerInv(a), a.ranges = TRUE, a.etag = EtagFor(a.meta), NEW out, out = CompressApply(a, a.req)
  PROVE  AnswerInv(out) /\ out.status = a.status /\ out.meta = a.meta /\ out.req = a.req /\ out.allow = a.allow
<1> DEFINE e == NegotiatedFor(a.req.accept)
           body == [i \in DOMAIN a.body |-> [a.body[i] EXCEPT !.fly = e]]
<1>1. CASE ~(CompressOn /\ Acceptable(a.req.accept) # {} /\ ShouldCompress(a.status, a.coding, a.declared))
  <2>1. out = a
    BY <1>1 DEF CompressApply
  <2> QED BY <2>1
<1>2. CASE CompressOn /\ Acceptable(a.req.accept) # {} /\ ShouldCompress(a.status, a.coding, a.declared)
  <2>0. IsAnswer(a) /\ a.body \in Seq(BodyBytes) /\ a.meta \in Builds /\ a.req.accept \in SUBSET ToSet(Offered)
    BY DEF AnswerInv, IsAnswer, Requests
  <2>1. e \in a.req.accept /\ e \in Codings
    BY <1>2, <2>0, CodingFacts
  <2>2. WeakenEtag(a.etag, e) \in Etags /\ WeakenEtag(a.etag, e).len = a.meta.len /\ WeakenEtag(a.etag, e).sec = a.meta.sec
    BY <2>0, <2>1, EtagFacts
  <2>3. out = [a EXCEPT !.coding = e, !.vary = AppendVary(@, "accept-encoding"), !.etag = WeakenEtag(@, e),
                        !.ranges = FALSE, !.body = body]
    BY <1>2 DEF CompressApply
  <2> DEFINE tag == WeakenEtag(a.etag, e)
             vary == AppendVary(a.vary, "accept-encoding")
  <2>4. /\ body \in Seq(BodyBytes) /\ DOMAIN body = DOMAIN a.body
        /\ \A i \in DOMAIN body : /\ body[i].fly = e /\ body[i].sec = a.body[i].sec /\ body[i].len = a.body[i].len
                                  /\ body[i].late = a.body[i].late
    <3> HIDE DEF e
    <3>1. \A b \in BodyBytes : /\ [b EXCEPT !.fly = e] \in BodyBytes /\ [b EXCEPT !.fly = e].fly = e
                               /\ [b EXCEPT !.fly = e].sec = b.sec /\ [b EXCEPT !.fly = e].len = b.len
                               /\ [b EXCEPT !.fly = e].late = b.late
      BY <2>1 DEF BodyBytes
    <3>2. \A i \in DOMAIN a.body : a.body[i] \in BodyBytes
      BY <2>0
    <3>3. DOMAIN a.body = 1..Len(a.body) /\ Len(a.body) \in Nat
      BY <2>0
    <3> QED BY <3>1, <3>2, <3>3
  <2>5. vary \in SUBSET {"accept-encoding", "origin"} /\ "accept-encoding" \in vary /\ a.vary \subseteq vary
    BY <2>0 DEF AppendVary, IsAnswer
  <2> HIDE DEF e, body, tag, vary
  <2>6. /\ IsAnswer(out) /\ out.coding = e /\ out.vary = vary /\ out.etag = tag /\ out.ranges = FALSE /\ out.body = body
        /\ out.status = a.status /\ out.meta = a.meta /\ out.req = a.req /\ out.allow = a.allow
        /\ out.date = a.date /\ out.total = a.total
    <3>1. out = [a EXCEPT !.coding = e, !.vary = vary, !.etag = tag, !.ranges = FALSE, !.body = body]
      BY <2>3 DEF tag, vary
    <3>2. tag \in Etags
      BY <2>2 DEF tag
    <3> QED BY <2>0, <2>1, <2>4, <2>5, <3>1, <3>2 DEF IsAnswer, AnswerFields
  <2>7. \A i \in DOMAIN out.body : SentAs(out.body[i], out.meta.sec, out.meta.len) /\ out.body[i].fly = FlyOf(out)
    BY <2>4, <2>6 DEF AnswerInv, SentAs, FlyOf
  <2>8. out.status # 206
    BY <1>2, <2>6 DEF ShouldCompress
  <2>9. out.etag.sec = out.meta.sec /\ out.etag.len = out.meta.len
    BY <2>2, <2>6 DEF tag
  <2> QED BY <2>1, <2>5, <2>6, <2>7, <2>8, <2>9 DEF AnswerInv
<1> QED BY <1>1, <1>2

LEMMA CorsKeeps ==
  ASSUME NEW a, AnswerInv(a), a.allow = "none", NEW out, out = CorsApply(a, a.req.origin)
  PROVE  AnswerInv(out) /\ out.status = a.status /\ out.meta = a.meta /\ out.req = a.req
<1> DEFINE vary == AppendVary(a.vary, "origin")
           allow == AllowOrigin(a.req.origin)
<1>1. CASE a.req.origin = "none"
  BY <1>1 DEF CorsApply
<1>2. CASE a.req.origin # "none"
  <2>0. IsAnswer(a) /\ a.vary \in SUBSET {"accept-encoding", "origin"} /\ a.req.origin \in Origins
    BY DEF AnswerInv, IsAnswer, Requests
  <2>1. vary \in SUBSET {"accept-encoding", "origin"} /\ "origin" \in vary /\ a.vary \subseteq vary
    BY <2>0 DEF AppendVary
  <2>2. allow \in Origins /\ allow \in {"none", a.req.origin}
    BY DEF AllowOrigin, Origins
  <2>3. out = [a EXCEPT !.vary = vary, !.allow = allow]
    BY <1>2 DEF CorsApply
  <2> HIDE DEF vary, allow
  <2>4. /\ IsAnswer(out) /\ out.vary = vary /\ out.allow = allow /\ out.coding = a.coding /\ out.etag = a.etag
        /\ out.ranges = a.ranges /\ out.body = a.body /\ out.status = a.status /\ out.meta = a.meta /\ out.req = a.req
        /\ out.date = a.date /\ out.total = a.total
    BY <2>0, <2>1, <2>2, <2>3 DEF IsAnswer, AnswerFields
  <2>5. FlyOf(out) = FlyOf(a)
    BY <2>4 DEF FlyOf
  <2> QED BY <2>1, <2>2, <2>4, <2>5 DEF AnswerInv
<1> QED BY <1>1, <1>2

\* serve_file() answers about the copy that the request was about.
LEMMA FreshIsAboutCopy ==
  ASSUME NEW k, CopyInv(k), NEW req, AskInv(req, k), NEW v \in Builds, IsFresh(req, v)
  PROVE  k # NoCopy /\ v.sec <= k.date
<1>1. CASE req.inm # {}
  <2>1. k # NoCopy /\ req.inm = {k.etag} /\ k.etag.sec = k.date /\ k.date \in Nat
    BY <1>1 DEF AskInv, CopyInv, IsCopy
  <2>2. k.etag.sec = v.sec
    BY <1>1, <2>1 DEF IsFresh
  <2> QED BY <2>1, <2>2
<1>2. CASE req.inm = {}
  BY <1>2 DEF IsFresh, AskInv
<1> QED BY <1>1, <1>2

LEMMA RestIsOfCopy ==
  ASSUME NEW k, CopyInv(k), NEW req, AskInv(req, k), NEW v \in Builds, req.from # 0, IfRangeMatches(req.ifRange, v)
  PROVE  k # NoCopy /\ k.ranges /\ v.sec = k.date /\ (req.ifRange.by # "date" => v.len = k.etag.len)
<1>1. k # NoCopy /\ k.ranges /\ k.etag.sec = k.date
  BY DEF AskInv, CopyInv
<1>2. CASE req.ifRange.by = "etag" /\ req.ifRange.tag = k.etag
  <2>1. k.etag = EtagFor(v)
    BY <1>2 DEF IfRangeMatches
  <2> QED BY <1>1, <2>1, EtagFacts
<1>3. CASE req.ifRange.by = "date" /\ req.ifRange.sec = k.date
  BY <1>1, <1>3 DEF IfRangeMatches
<1> QED BY <1>2, <1>3 DEF AskInv

-----------------------------------------------------------------------------
(* The steps.                                                              *)

\* What client c does changes nothing for the others.
LEMMA OthersKeepTheirs ==
  ASSUME ContentInv, NEW c \in Browsers, UNCHANGED <<fs, second, deploys>>, ShelfInv',
         DOMAIN conn' = Browsers, DOMAIN copy' = Browsers, DOMAIN told' = Browsers, DOMAIN verdict' = Browsers,
         \A d \in Browsers \ {c} : /\ conn'[d] = conn[d] /\ copy'[d] = copy[d] /\ told'[d] = told[d]
                                   /\ verdict'[d] = verdict[d],
         ConnInv(c)', CopyInv(copy'[c]), VerdictInv(c)', ToldInv(told'[c])
  PROVE  ContentInv'
<1>1. DeployedInv'
  BY DEF ContentInv, DeployedInv
<1>2. \A d \in Browsers : ConnInv(d)'
  <2> SUFFICES ASSUME NEW d \in Browsers, d # c PROVE ConnInv(d)'
    OBVIOUS
  <2>1. ConnInv(d) /\ conn'[d] = conn[d] /\ copy'[d] = copy[d]
    BY DEF ContentInv
  <2> QED BY <2>1 DEF ConnInv, LocatedInv
<1>3. \A d \in Browsers : CopyInv(copy'[d]) /\ ToldInv(told'[d])
  BY DEF ContentInv
<1>4. \A d \in Browsers : VerdictInv(d)'
  BY DEF ContentInv, VerdictInv
<1> QED BY <1>1, <1>2, <1>3, <1>4 DEF ContentInv

LEMMA StageFacts ==
  ASSUME NEW c \in Browsers, ConnInv(c)
  PROVE  /\ conn[c].stage = "located" =>
              /\ conn[c] = [stage |-> "located", req |-> conn[c].req, rep |-> conn[c].rep, meta |-> conn[c].meta]
              /\ AskInv(conn[c].req, copy[c]) /\ LocatedInv(conn[c])
         /\ conn[c].stage = "answer" => \/ conn[c] = [stage |-> "answer", status |-> 404] /\ conn[c].status = 404
                                        \/ AnswerInv(conn[c]) /\ AnsweredInv(conn[c], copy[c])
<1>1. NoConn.stage = "none"
  BY DEF NoConn
<1>2. AnswerInv(conn[c]) => conn[c].stage = "answer"
  BY DEF AnswerInv, IsAnswer
<1>3. [stage |-> "answer", status |-> 404].stage = "answer" /\ [stage |-> "answer", status |-> 404].status = 404
  OBVIOUS
<1>4. conn[c] = [stage |-> "located", req |-> conn[c].req, rep |-> conn[c].rep, meta |-> conn[c].meta] => conn[c].stage = "located"
  OBVIOUS
<1> QED BY <1>1, <1>2, <1>3, <1>4 DEF ConnInv

LEMMA LocateKeeps ==
  ASSUME ContentInv, NEW c \in Browsers, Locate(c)
  PROVE  ContentInv'
<1>0. /\ DeployedInv /\ CopyInv(copy[c]) /\ ToldInv(told[c]) /\ VerdictInv(c) /\ DOMAIN conn = Browsers
      /\ DOMAIN copy = Browsers /\ DOMAIN told = Browsers /\ DOMAIN verdict = Browsers
  BY DEF ContentInv
<1>1. UNCHANGED <<fs, second, deploys, copy, told, verdict>> /\ shelf' = NoEntry
  BY DEF Locate
<1>2. PICK accept \in SUBSET ToSet(Offered), origin \in CorsOrigins \cup {"none", "stranger"},
           how \in {"plain", "tag", "date", "rest_tag", "rest_date"} :
        LET req == Request(c, accept, origin, how)
            rep == LocatedRep(accept)
        IN  /\ req.from >= 0 /\ (how = "plain" \/ origin = "none")
            /\ IF fs[rep] = Gone
               THEN SetConn(c, [stage |-> "answer", status |-> 404])
               ELSE SetConn(c, [stage |-> "located", req |-> req, rep |-> rep, meta |-> fs[rep]])
  BY DEF Locate
<1> DEFINE req == Request(c, accept, origin, how)
           rep == LocatedRep(accept)
<1>3. AskInv(req, copy[c]) /\ req.accept = accept
  <2>1. req.from >= 0 /\ origin \in Origins
    BY <1>2 DEF Origins
  <2> QED BY <1>0, <2>1, AskIsOfCopy
<1>4. rep \in Reps /\ rep \in accept \cup {Identity}
  BY CodingFacts DEF LocatedRep, Reps
<1>5. \E r : conn' = [conn EXCEPT ![c] = r]
  <2>1. CASE fs[rep] = Gone
    BY <1>2, <2>1 DEF SetConn
  <2>2. CASE fs[rep] # Gone
    BY <1>2, <2>2 DEF SetConn
  <2> QED BY <2>1, <2>2
<1>6. DOMAIN conn' = Browsers /\ \A d \in Browsers \ {c} : conn'[d] = conn[d]
  BY <1>0, <1>5
<1>7. ConnInv(c)'
  <2>1. CASE fs[rep] = Gone
    <3>1. conn'[c] = [stage |-> "answer", status |-> 404]
      BY <1>0, <1>2, <2>1 DEF SetConn
    <3> QED BY <3>1 DEF ConnInv
  <2>2. CASE fs[rep] # Gone
    <3> DEFINE meta == fs[rep]
    <3>1. conn'[c] = [stage |-> "located", req |-> req, rep |-> rep, meta |-> meta]
      BY <1>0, <1>2, <2>2 DEF SetConn
    <3>2. LocatedInv(conn[c])'
      <4>1. meta \in Builds /\ meta.ver \in 1..deploys /\ meta.sec <= second /\ meta.sec \in Nat
        BY <1>0, <1>4, <2>2 DEF DeployedInv, Builds
      <4>2. \A r \in Reps : fs[r].ver = meta.ver => fs[r] = meta
        BY <1>0, <1>4 DEF DeployedInv
      <4>3. conn'[c].rep = rep /\ conn'[c].meta = meta /\ conn'[c].req = req /\ fs' = fs /\ second' = second /\ deploys' = deploys
        BY <1>1, <3>1
      <4> HIDE DEF req, rep
      <4>4. fs[rep].sec >= meta.sec
        BY <4>1
      <4> HIDE DEF meta
      <4> QED BY <1>3, <1>4, <4>1, <4>2, <4>3, <4>4 DEF LocatedInv
    <3> HIDE DEF req, rep, meta
    <3>3. conn'[c] = [stage |-> "located", req |-> conn'[c].req, rep |-> conn'[c].rep, meta |-> conn'[c].meta] /\ conn'[c].req = req
      BY <3>1
    <3> QED BY <1>1, <1>3, <3>2, <3>3 DEF ConnInv
  <2> QED BY <2>1, <2>2
<1>8. ShelfInv'
  BY <1>1 DEF ShelfInv
<1>9. VerdictInv(c)'
  BY <1>0, <1>1 DEF VerdictInv
<1> QED BY <1>0, <1>1, <1>6, <1>7, <1>8, <1>9, OthersKeepTheirs

LEMMA ServeKeeps ==
  ASSUME ContentInv, NEW c \in Browsers, ServeFile(c)
  PROVE  ContentInv'
<1> DEFINE k == conn[c]
           a == Headers(k.req, k.rep, k.meta)
           body == IF a.status \in {200, 206} THEN ReadSpan(k.rep, a.start, a.declared, k.meta) ELSE <<>>
           b == [a EXCEPT !.body = body]
           z == CompressApply(b, k.req)
           out == CorsApply(z, k.req.origin)
<1>0. /\ DeployedInv /\ CopyInv(copy[c]) /\ ToldInv(told[c]) /\ VerdictInv(c) /\ DOMAIN conn = Browsers /\ ShelfInv
      /\ DOMAIN copy = Browsers /\ DOMAIN told = Browsers /\ DOMAIN verdict = Browsers /\ ConnInv(c)
  BY DEF ContentInv
<1>1. UNCHANGED <<fs, second, deploys, copy, told, shelf, verdict>>
  BY DEF ServeFile
<1>2. AskInv(k.req, copy[c]) /\ LocatedInv(k)
  BY <1>0, StageFacts DEF ServeFile
<1>3. IF a.status \in {200, 206} /\ fs[k.rep] = Gone
      THEN conn' = [conn EXCEPT ![c] = [stage |-> "answer", status |-> 404]]
      ELSE conn' = [conn EXCEPT ![c] = out]
  BY DEF ServeFile, SetConn
<1>4. DOMAIN conn' = Browsers /\ \A d \in Browsers \ {c} : conn'[d] = conn[d]
  BY <1>0, <1>3
<1>5. ConnInv(c)'
  <2>1. CASE a.status \in {200, 206} /\ fs[k.rep] = Gone
    <3>1. conn'[c] = [stage |-> "answer", status |-> 404]
      BY <1>0, <1>3, <2>1
    <3> QED BY <3>1 DEF ConnInv
  <2>2. CASE ~(a.status \in {200, 206} /\ fs[k.rep] = Gone)
    <3>1. k.req \in Requests /\ k.rep \in Codings /\ k.meta \in Builds
      BY <1>2, CodingFacts DEF AskInv, LocatedInv
    <3> HIDE DEF k
    <3>2. /\ IsAnswer(a) /\ a.meta = k.meta /\ a.req = k.req /\ a.coding = k.rep /\ a.ranges = TRUE /\ a.etag = EtagFor(k.meta)
          /\ a.date = k.meta.sec /\ a.total = k.meta.len /\ a.vary = {"accept-encoding"} /\ a.allow = "none"
          /\ a.status = 304 => IsFresh(k.req, k.meta)
          /\ a.status = 206 => k.req.from # 0 /\ IfRangeMatches(k.req.ifRange, k.meta)
      <4>1. Describes(a, k.req, k.rep, k.meta)
        BY <3>1, HeadersFacts
      <4> HIDE DEF a
      <4> QED BY <4>1 DEF Describes
    <3> HIDE DEF a
    <3>3. body \in Seq(BodyBytes) /\ \A i \in DOMAIN body : SentAs(body[i], k.meta.sec, k.meta.len) /\ body[i].fly = Identity
      <4>1. CASE a.status \in {200, 206}
        <5>1. a.start \in Nat /\ a.declared \in Nat /\ fs[k.rep] # Gone
          BY <2>2, <3>2, <4>1 DEF IsAnswer
        <5> DEFINE start == a.start
                   count == a.declared
        <5>2. body = ReadSpan(k.rep, start, count, k.meta) /\ start \in Nat /\ count \in Nat
          BY <4>1, <5>1
        <5> HIDE DEF body, start, count
        <5> QED BY <1>0, <1>2, <5>1, <5>2, SpanFacts
      <4>2. CASE ~(a.status \in {200, 206})
        BY <4>2
      <4> QED BY <4>1, <4>2
    <3> HIDE DEF body
    <3>4. /\ b.body = body /\ b.meta = k.meta /\ b.req = k.req /\ b.coding = k.rep /\ b.ranges = TRUE /\ b.etag = EtagFor(k.meta)
          /\ b.date = k.meta.sec /\ b.total = k.meta.len /\ b.vary = {"accept-encoding"} /\ b.allow = "none"
          /\ b.status = a.status
      BY <3>2 DEF IsAnswer, AnswerFields
    <3>5. IsAnswer(b)
      BY <3>2, <3>3 DEF IsAnswer, AnswerFields
    <3> HIDE DEF b
    <3>6. AnswerInv(b)
      <4>1. FlyOf(b) = Identity
        BY <3>4 DEF FlyOf
      <4>2. b.coding \in b.req.accept \cup {Identity}
        BY <1>2, <3>4 DEF LocatedInv
      <4>3. b.etag.len = b.meta.len /\ b.etag.sec = b.meta.sec
        BY <3>1, <3>4, EtagFacts
      <4> QED BY <3>3, <3>4, <3>5, <4>1, <4>2, <4>3 DEF AnswerInv
    <3>7. AnswerInv(z) /\ z.status = a.status /\ z.meta = k.meta /\ z.req = k.req /\ z.allow = "none"
      BY <3>4, <3>6, CompressKeeps
    <3> HIDE DEF z
    <3>8. AnswerInv(out) /\ out.status = a.status /\ out.meta = k.meta /\ out.req = k.req
      BY <3>7, CorsKeeps
    <3> HIDE DEF out
    <3>9. AnsweredInv(out, copy[c])
      BY <1>0, <1>2, <3>1, <3>2, <3>8, FreshIsAboutCopy, RestIsOfCopy DEF AnsweredInv
    <3>10. conn'[c] = out /\ copy' = copy
      BY <1>0, <1>1, <1>3, <2>2 DEF k
    <3> QED BY <3>8, <3>9, <3>10 DEF ConnInv
  <2> QED BY <2>1, <2>2
<1>6. ShelfInv'
  BY <1>0, <1>1 DEF ShelfInv
<1>7. VerdictInv(c)'
  BY <1>0, <1>1 DEF VerdictInv
<1> QED BY <1>0, <1>1, <1>4, <1>5, <1>6, <1>7, OthersKeepTheirs

\* The first bytes of a body are bytes of the body.
LEMMA PrefixFacts ==
  ASSUME NEW s \in Seq(BodyBytes), NEW n \in 0..Len(s)
  PROVE  /\ SubSeq(s, 1, n) \in Seq(BodyBytes)
         /\ \A i \in DOMAIN SubSeq(s, 1, n) : \E j \in DOMAIN s : SubSeq(s, 1, n)[i] = s[j]
<1>1. \A i \in 1..n : s[i] \in BodyBytes /\ i \in DOMAIN s
  OBVIOUS
<1>2. /\ SubSeq(s, 1, n) \in Seq(BodyBytes) /\ Len(SubSeq(s, 1, n)) = n
      /\ \A i \in 1..n : SubSeq(s, 1, n)[i] = s[i]
  BY <1>1, SubSeqProperties
<1> QED BY <1>1, <1>2

\* What came of a 200 is a copy.
LEMMA CopyOfKeeps ==
  ASSUME NEW a, AnswerInv(a), NEW n \in 0..Len(a.body)
  PROVE  CopyInv(CopyOf(a, n))
<1> DEFINE bytes == SubSeq(a.body, 1, n)
           k == CopyOf(a, n)
<1>1. IsAnswer(a) /\ a.body \in Seq(BodyBytes) /\ a.req.accept \in SUBSET ToSet(Offered) /\ a.req.origin \in Origins
  BY DEF AnswerInv, IsAnswer, Requests
<1>2. bytes \in Seq(BodyBytes) /\ \A i \in DOMAIN bytes : \E j \in DOMAIN a.body : bytes[i] = a.body[j]
  BY <1>1, PrefixFacts
<1> HIDE DEF bytes
<1>3. k = [bytes |-> bytes, total |-> a.total, etag |-> a.etag, date |-> a.date, coding |-> a.coding, allow |-> a.allow,
           ranges |-> a.ranges, accept |-> a.req.accept, origin |-> a.req.origin, by |-> "etag"]
  BY DEF CopyOf, bytes
<1>4. IsCopy(k)
  BY <1>1, <1>2, <1>3 DEF IsCopy, CopyFields, IsAnswer
<1>5. /\ k.bytes = bytes /\ k.etag = a.etag /\ k.date = a.date /\ k.coding = a.coding /\ k.allow = a.allow
      /\ k.ranges = a.ranges /\ k.accept = a.req.accept /\ k.origin = a.req.origin /\ k.by = "etag"
  BY <1>3
<1> HIDE DEF k
<1>6. \A i \in DOMAIN k.bytes :
        /\ k.bytes[i].sec >= k.date /\ k.bytes[i].fly = FlyOf(k)
        /\ ~k.bytes[i].late => k.bytes[i].sec = k.date /\ (k.by = "etag" => k.bytes[i].len = k.etag.len)
  BY <1>2, <1>5 DEF AnswerInv, SentAs, FlyOf
<1>7. k.etag.sec = k.date /\ k.coding \in k.accept \cup {Identity} /\ k.allow \in {"none", k.origin}
  BY <1>5 DEF AnswerInv
<1>8. CopyInv(k)
  BY <1>4, <1>6, <1>7 DEF CopyInv
<1> QED BY <1>8 DEF k

\* m is copy k with n bytes of answer a behind it.
Joined(m, k, a, n) ==
  m = [k EXCEPT !.bytes = k.bytes \o SubSeq(a.body, 1, n), !.by = IF a.req.ifRange.by = "date" THEN "date" ELSE k.by]

\* The tail of a 206 belongs to the copy it was asked for.
LEMMA JoinKeeps ==
  ASSUME NEW k, CopyInv(k), NEW a, AnswerInv(a), AnsweredInv(a, k), a.status = 206, NEW n \in 0..Len(a.body),
         NEW m, Joined(m, k, a, n)
  PROVE  CopyInv(m)
<1> DEFINE tail == SubSeq(a.body, 1, n)
           bytes == k.bytes \o tail
           by == IF a.req.ifRange.by = "date" THEN "date" ELSE k.by
<1>0. m = [k EXCEPT !.bytes = bytes, !.by = by]
  BY DEF Joined
<1>1. IsAnswer(a) /\ a.body \in Seq(BodyBytes) /\ IsCopy(k) /\ k.bytes \in Seq(BodyBytes) /\ k # NoCopy /\ k.by \in {"etag", "date"}
  BY DEF AnswerInv, IsAnswer, AnsweredInv, CopyInv, IsCopy
<1>2. tail \in Seq(BodyBytes) /\ \A i \in DOMAIN tail : \E j \in DOMAIN a.body : tail[i] = a.body[j]
  BY <1>1, PrefixFacts
<1> DEFINE Suits(b) ==
             /\ b.sec >= k.date /\ b.fly = FlyOf(k)
             /\ ~b.late => b.sec = k.date /\ (by = "etag" => b.len = k.etag.len)
<1>3. \A i \in DOMAIN k.bytes : Suits(k.bytes[i])
  BY <1>1 DEF CopyInv
<1>4. \A j \in DOMAIN a.body : Suits(a.body[j])
  <2>1. FlyOf(a) = Identity /\ FlyOf(k) = Identity /\ a.meta.sec = k.date /\ (by = "etag" => a.meta.len = k.etag.len)
    BY DEF AnswerInv, AnsweredInv, FlyOf
  <2> QED BY <2>1 DEF AnswerInv, SentAs
<1> HIDE DEF Suits, tail, by
<1>5. \A i \in DOMAIN tail : Suits(tail[i])
  BY <1>2, <1>4
<1>6. bytes \in Seq(BodyBytes) /\ \A i \in DOMAIN bytes : Suits(bytes[i])
  BY <1>1, <1>2, <1>3, <1>5, ConcatProperties
<1> HIDE DEF bytes
<1>7. by \in {"etag", "date"}
  BY <1>1 DEF by
<1>8. IsCopy(m)
  BY <1>0, <1>1, <1>6, <1>7 DEF IsCopy, CopyFields
<1>9. /\ m.bytes = bytes /\ m.by = by /\ m.etag = k.etag /\ m.date = k.date /\ m.coding = k.coding /\ m.allow = k.allow
      /\ m.ranges = k.ranges /\ m.accept = k.accept /\ m.origin = k.origin
  BY <1>0, <1>1 DEF IsCopy, CopyFields
<1>10. FlyOf(m) = FlyOf(k)
  BY <1>9 DEF FlyOf
<1> QED BY <1>1, <1>6, <1>8, <1>9, <1>10 DEF CopyInv, Suits

LEMMA ReceiveKeeps ==
  ASSUME ContentInv, NEW c \in Browsers, Receive(c)
  PROVE  ContentInv'
<1> DEFINE a == conn[c]
           k == copy[c]
<1>0. /\ CopyInv(k) /\ ToldInv(told[c]) /\ VerdictInv(c) /\ DOMAIN conn = Browsers /\ ShelfInv
      /\ DOMAIN copy = Browsers /\ DOMAIN told = Browsers /\ DOMAIN verdict = Browsers /\ ConnInv(c)
  BY DEF ContentInv
<1>1. UNCHANGED <<fs, second, deploys, verdict>> /\ conn' = [conn EXCEPT ![c] = NoConn] /\ a.stage = "answer"
  BY DEF Receive, SetConn
<1>2. DOMAIN conn' = Browsers /\ conn'[c] = NoConn /\ \A d \in Browsers \ {c} : conn'[d] = conn[d]
  BY <1>0, <1>1
<1>3. ConnInv(c)' /\ VerdictInv(c)'
  BY <1>0, <1>1, <1>2 DEF ConnInv, VerdictInv
<1>4. a.status # 404 => AnswerInv(a) /\ AnsweredInv(a, k)
  BY <1>0, <1>1, StageFacts
<1>5. CASE a.status \in {404, 416} /\ UNCHANGED <<copy, told, shelf>>
  <2>1. ShelfInv'
    BY <1>0, <1>5 DEF ShelfInv
  <2> QED BY <1>0, <1>1, <1>2, <1>3, <1>5, <2>1, OthersKeepTheirs
<1>6. CASE /\ a.status = 304
           /\ told' = [told EXCEPT ![c] = [bytes |-> k.bytes, total |-> k.total, req |-> a.req, meta |-> a.meta]]
           /\ UNCHANGED <<copy, shelf>>
  <2> DEFINE t == [bytes |-> k.bytes, total |-> k.total, req |-> a.req, meta |-> a.meta]
  <2>1. ShelfInv'
    BY <1>0, <1>6 DEF ShelfInv
  <2>2. k # NoCopy /\ a.meta.sec <= k.date /\ a.meta.sec \in Nat /\ k.date \in Nat /\ k.bytes \in Seq(BodyBytes)
    BY <1>0, <1>4, <1>6 DEF AnsweredInv, CopyInv, IsCopy, AnswerInv, IsAnswer, Builds
  <2>3. \A i \in DOMAIN k.bytes : k.bytes[i].sec >= k.date /\ k.bytes[i].sec \in Nat
    <3>1. \A i \in DOMAIN k.bytes : k.bytes[i] \in BodyBytes
      BY <2>2
    <3>2. \A i \in DOMAIN k.bytes : k.bytes[i].sec >= k.date
      BY <1>0, <2>2 DEF CopyInv
    <3> QED BY <3>1, <3>2 DEF BodyBytes
  <2>4. ToldInv(t)
    BY <2>2, <2>3 DEF ToldInv
  <2>5. told'[c] = t /\ DOMAIN told' = Browsers /\ \A d \in Browsers \ {c} : told'[d] = told[d]
    BY <1>0, <1>6
  <2> HIDE DEF t
  <2>6. ToldInv(told'[c])
    BY <2>4, <2>5
  <2> QED BY <1>0, <1>1, <1>2, <1>3, <1>6, <2>1, <2>5, <2>6, OthersKeepTheirs
<1>7. CASE a.status = 200 /\ UNCHANGED told
  <2>1. PICK n \in 0..Len(a.body) : /\ copy' = [copy EXCEPT ![c] = CopyOf(a, n)]
                                    /\ IF n = Len(a.body) THEN Shelve(a) ELSE UNCHANGED shelf
    BY <1>7 DEF Receive
  <2>2. ShelfInv'
    <3>1. CASE UNCHANGED shelf
      BY <1>0, <3>1 DEF ShelfInv
    <3>2. CASE shelf' = [kind |-> "get", req |-> a.req, answer |-> a]
      BY <1>4, <1>7, <3>2 DEF ShelfInv
    <3> QED BY <2>1, <3>1, <3>2 DEF Shelve
  <2>3. CopyInv(CopyOf(a, n))
    BY <1>4, <1>7, CopyOfKeeps
  <2>4. copy'[c] = CopyOf(a, n) /\ DOMAIN copy' = Browsers /\ \A d \in Browsers \ {c} : copy'[d] = copy[d]
    BY <1>0, <2>1
  <2> QED BY <1>0, <1>1, <1>2, <1>3, <1>7, <2>2, <2>3, <2>4, OthersKeepTheirs
<1>8. CASE /\ a.status = 206
           /\ \E n \in 0..Len(a.body) :
                copy' = [copy EXCEPT ![c].bytes = @ \o SubSeq(a.body, 1, n),
                                     ![c].by = IF a.req.ifRange.by = "date" THEN "date" ELSE @]
           /\ UNCHANGED <<told, shelf>>
  <2>1. PICK n \in 0..Len(a.body) :
          copy' = [copy EXCEPT ![c].bytes = @ \o SubSeq(a.body, 1, n),
                               ![c].by = IF a.req.ifRange.by = "date" THEN "date" ELSE @]
    BY <1>8
  <2> DEFINE m == [k EXCEPT !.bytes = @ \o SubSeq(a.body, 1, n), !.by = IF a.req.ifRange.by = "date" THEN "date" ELSE @]
  <2>2. ShelfInv'
    BY <1>0, <1>8 DEF ShelfInv
  <2>3. CopyInv(m)
    <3>2. Joined(m, k, a, n)
      BY DEF Joined
    <3> HIDE DEF a, k, m
    <3>1. CopyInv(k) /\ AnswerInv(a) /\ AnsweredInv(a, k) /\ a.status = 206
      BY <1>0, <1>4, <1>8
    <3> QED BY <3>1, <3>2, JoinKeeps
  <2>4. copy'[c] = m /\ DOMAIN copy' = Browsers /\ \A d \in Browsers \ {c} : copy'[d] = copy[d]
    BY <1>0, <2>1
  <2> HIDE DEF m
  <2>5. CopyInv(copy'[c])
    BY <2>3, <2>4
  <2> QED BY <1>0, <1>1, <1>2, <1>3, <1>8, <2>2, <2>4, <2>5, OthersKeepTheirs
<1> QED BY <1>5, <1>6, <1>7, <1>8 DEF Receive

LEMMA SharedHitKeeps ==
  ASSUME ContentInv, NEW c \in Browsers, SharedHit(c)
  PROVE  ContentInv'
<1> DEFINE s == shelf.answer
<1>0. /\ CopyInv(copy[c]) /\ ToldInv(told[c]) /\ VerdictInv(c) /\ DOMAIN conn = Browsers /\ ShelfInv
      /\ DOMAIN copy = Browsers /\ DOMAIN told = Browsers /\ DOMAIN verdict = Browsers
  BY DEF ContentInv
<1>1. UNCHANGED <<fs, second, deploys, conn, told, shelf, verdict>> /\ shelf.kind = "get" /\ conn[c] = NoConn
  BY DEF SharedHit
<1>2. PICK accept \in SUBSET ToSet(Offered), origin \in CorsOrigins \cup {"none", "stranger"} :
        LET req == Request(c, accept, origin, "plain")
            a == [shelf.answer EXCEPT !.req = req]
        IN  Matches(req) /\ copy' = [copy EXCEPT ![c] = CopyOf(a, Len(a.body))]
  BY DEF SharedHit
<1> DEFINE req == Request(c, accept, origin, "plain")
           a == [s EXCEPT !.req = req]
<1>3. AnswerInv(s) /\ shelf.req = s.req
  <2>1. NoEntry.kind = "none" /\ \A r, o : [kind |-> "preflight", req |-> r, answer |-> o].kind = "preflight"
    BY DEF NoEntry
  <2>2. \A r, o : [kind |-> "get", req |-> r, answer |-> o].req = r
    OBVIOUS
  <2> QED BY <1>0, <1>1, <2>1, <2>2 DEF ShelfInv
<1>4. req \in Requests /\ req.accept = accept /\ req.origin = origin
  BY GoneIsABuild DEF Request, Requests, Origins
<1>5. Matches(req) /\ copy' = [copy EXCEPT ![c] = CopyOf(a, Len(a.body))]
  BY <1>2
<1> HIDE DEF req
<1>6. req.accept = s.req.accept /\ ("origin" \in s.vary => req.origin = s.req.origin)
  <2>1. "accept-encoding" \in s.vary
    BY <1>3 DEF AnswerInv
  <2>2. \A q : FieldOf(q, "accept-encoding") = q.accept /\ FieldOf(q, "origin") = q.origin
    BY DEF FieldOf
  <2>3. \A name \in s.vary : FieldOf(req, name) = FieldOf(s.req, name)
    BY <1>3, <1>5 DEF Matches
  <2> QED BY <2>1, <2>2, <2>3
<1> HIDE DEF s
<1>7. /\ IsAnswer(a) /\ a.req = req /\ a.vary = s.vary /\ a.allow = s.allow /\ a.coding = s.coding /\ a.etag = s.etag
      /\ a.ranges = s.ranges /\ a.body = s.body /\ a.status = s.status /\ a.meta = s.meta /\ a.date = s.date
      /\ a.total = s.total
  BY <1>3, <1>4 DEF AnswerInv, IsAnswer, AnswerFields
<1> HIDE DEF a
<1>8. AnswerInv(a)
  <2>1. FlyOf(a) = FlyOf(s)
    BY <1>7 DEF FlyOf
  <2> QED BY <1>3, <1>6, <1>7, <2>1 DEF AnswerInv
<1>9. CopyInv(CopyOf(a, Len(a.body)))
  <2>1. Len(a.body) \in 0..Len(a.body)
    BY <1>7 DEF IsAnswer
  <2> QED BY <1>8, <2>1, CopyOfKeeps
<1>10. copy'[c] = CopyOf(a, Len(a.body)) /\ DOMAIN copy' = Browsers /\ \A d \in Browsers \ {c} : copy'[d] = copy[d]
  BY <1>0, <1>5
<1>11. ConnInv(c)' /\ ShelfInv' /\ VerdictInv(c)'
  BY <1>0, <1>1 DEF ConnInv, ShelfInv, VerdictInv
<1> QED BY <1>0, <1>1, <1>9, <1>10, <1>11, OthersKeepTheirs

\* A verdict that was kept is the policy's for every request it is given to.
LEMMA PreflightKeeps ==
  ASSUME ContentInv, NEW c \in Browsers, AskPreflight(c)
  PROVE  ContentInv'
<1>0. /\ CopyInv(copy[c]) /\ ToldInv(told[c]) /\ DOMAIN conn = Browsers /\ ShelfInv
      /\ DOMAIN copy = Browsers /\ DOMAIN told = Browsers /\ DOMAIN verdict = Browsers
  BY DEF ContentInv
<1>1. UNCHANGED <<fs, second, deploys, conn, copy, told>> /\ conn[c] = NoConn
  BY DEF AskPreflight
<1>2. PICK origin \in CorsOrigins \cup {"stranger"}, method \in {"PUT", "DELETE"}, headers \in {{}, {"x-other"}} :
        LET req == [origin |-> origin, method |-> method, headers |-> headers, accept |-> {}]
        IN  \/ /\ verdict' = [verdict EXCEPT ![c] = [kind |-> "seen", req |-> req, approved |-> Preflight(req).approved]]
               /\ shelf' = [kind |-> "preflight", req |-> req, answer |-> Preflight(req)]
            \/ /\ shelf.kind = "preflight" /\ Matches(req)
               /\ verdict' = [verdict EXCEPT ![c] = [kind |-> "seen", req |-> req, approved |-> shelf.answer.approved]]
               /\ UNCHANGED shelf
  BY DEF AskPreflight
<1> DEFINE req == [origin |-> origin, method |-> method, headers |-> headers, accept |-> {}]
<1>3. req \in Preflights
  BY DEF Preflights
<1>4. \A q : Preflight(q).approved = Approved(q) /\ Preflight(q).vary = PreflightVary
  BY DEF Preflight
<1>5. ConnInv(c)'
  BY <1>1 DEF ConnInv
<1>6. CASE /\ verdict' = [verdict EXCEPT ![c] = [kind |-> "seen", req |-> req, approved |-> Preflight(req).approved]]
           /\ shelf' = [kind |-> "preflight", req |-> req, answer |-> Preflight(req)]
  <2> HIDE DEF req
  <2>1. ShelfInv'
    <3>1. shelf'.req = req
      BY <1>6
    <3> QED BY <1>3, <1>6, <3>1 DEF ShelfInv
  <2>2. verdict'[c] = [kind |-> "seen", req |-> req, approved |-> Approved(req)]
    BY <1>0, <1>4, <1>6
  <2>3. VerdictInv(c)'
    BY <2>2 DEF VerdictInv
  <2>4. DOMAIN verdict' = Browsers /\ \A d \in Browsers \ {c} : verdict'[d] = verdict[d]
    BY <1>0, <1>6
  <2> QED BY <1>0, <1>1, <1>5, <2>1, <2>3, <2>4, OthersKeepTheirs
<1>7. CASE /\ shelf.kind = "preflight" /\ Matches(req)
           /\ verdict' = [verdict EXCEPT ![c] = [kind |-> "seen", req |-> req, approved |-> shelf.answer.approved]]
           /\ UNCHANGED shelf
  <2> DEFINE q == shelf.req
  <2>1. shelf = [kind |-> "preflight", req |-> q, answer |-> Preflight(q)] /\ q \in Preflights
    <3>1. NoEntry.kind = "none" /\ \A r, o : [kind |-> "get", req |-> r, answer |-> o].kind = "get"
      BY DEF NoEntry
    <3> QED BY <1>0, <1>7, <3>1 DEF ShelfInv
  <2> HIDE DEF q, req
  <2>2. shelf.answer = Preflight(q) /\ shelf.req = q
    BY <2>1
  <2>3. req.origin = q.origin /\ req.method = q.method /\ req.headers = q.headers
    <3>1. \A name \in PreflightVary : FieldOf(req, name) = FieldOf(q, name)
      BY <1>4, <1>7, <2>2 DEF Matches
    <3>2. \A p : /\ FieldOf(p, "origin") = p.origin /\ FieldOf(p, "access-control-request-method") = p.method
                 /\ FieldOf(p, "access-control-request-headers") = p.headers
      BY DEF FieldOf
    <3> QED BY <3>1, <3>2 DEF PreflightVary
  <2>4. Approved(req) = Approved(q)
    BY <2>3 DEF Approved
  <2>5. ShelfInv'
    BY <1>0, <1>7 DEF ShelfInv
  <2>6. verdict'[c] = [kind |-> "seen", req |-> req, approved |-> Approved(req)]
    BY <1>0, <1>4, <1>7, <2>2, <2>4
  <2>7. VerdictInv(c)'
    BY <2>6 DEF VerdictInv
  <2>8. DOMAIN verdict' = Browsers /\ \A d \in Browsers \ {c} : verdict'[d] = verdict[d]
    BY <1>0, <1>7
  <2> QED BY <1>0, <1>1, <1>5, <2>5, <2>7, <2>8, OthersKeepTheirs
<1> QED BY <1>2, <1>6, <1>7

\* A deployment or the clock leaves what was located as it is, or older.
LEMMA WorldKeeps ==
  ASSUME ContentInv, DeployedInv', UNCHANGED <<conn, copy, told, shelf, verdict>>,
         \A c \in Browsers : conn[c].stage = "located" /\ LocatedInv(conn[c]) => LocatedInv(conn[c])'
  PROVE  ContentInv'
<1>1. ASSUME NEW c \in Browsers PROVE ConnInv(c)'
  <2>1. ConnInv(c)
    BY DEF ContentInv
  <2>2. CASE conn[c] = NoConn \/ conn[c] = [stage |-> "answer", status |-> 404]
    BY <2>2 DEF ConnInv
  <2>3. CASE AnswerInv(conn[c]) /\ AnsweredInv(conn[c], copy[c])
    BY <2>3 DEF ConnInv
  <2>4. CASE /\ conn[c] = [stage |-> "located", req |-> conn[c].req, rep |-> conn[c].rep, meta |-> conn[c].meta]
             /\ AskInv(conn[c].req, copy[c]) /\ LocatedInv(conn[c])
    <3>1. conn[c].stage = "located"
      BY <2>4
    <3>2. LocatedInv(conn[c])'
      BY <2>4, <3>1
    <3> QED BY <2>4, <3>2 DEF ConnInv
  <2> QED BY <2>1, <2>2, <2>3, <2>4 DEF ConnInv
<1>2. ShelfInv'
  BY DEF ContentInv, ShelfInv
<1>3. \A c \in Browsers : CopyInv(copy'[c]) /\ ToldInv(told'[c]) /\ VerdictInv(c)'
  BY DEF ContentInv, VerdictInv
<1> QED BY <1>1, <1>2, <1>3 DEF ContentInv

LEMMA DeployKeeps ==
  ASSUME ContentInv, Deploy
  PROVE  ContentInv'
<1>0. DeployedInv
  BY DEF ContentInv
<1>1. deploys' = deploys + 1 /\ UNCHANGED <<second, conn, copy, told, shelf, verdict>>
  BY DEF Deploy
<1>2. PICK r \in Reps, n \in Lens : fs' = [fs EXCEPT ![r] = [ver |-> deploys + 1, len |-> n, sec |-> second]]
  BY DEF Deploy
<1> DEFINE v == [ver |-> deploys + 1, len |-> n, sec |-> second]
<1>3. v \in Builds /\ v.ver = deploys + 1 /\ v.sec = second /\ deploys \in Nat /\ second \in Nat
  BY <1>0, ContentConstants DEF Builds, DeployedInv
<1> HIDE DEF v
<1>4. fs' \in [Reps -> Builds] /\ fs'[r] = v /\ \A s \in Reps \ {r} : fs'[s] = fs[s]
  BY <1>0, <1>2, <1>3 DEF DeployedInv, v
<1>5. \A s \in Reps : fs[s].ver \in Nat /\ fs[s].ver <= deploys
  <2>1. \A s \in Reps : fs[s] # Gone => fs[s].ver \in Nat /\ fs[s].ver <= deploys
    BY <1>0 DEF DeployedInv
  <2> QED BY <1>3, <2>1, GoneIsABuild
<1>6. DeployedInv'
  <2>1. \A s \in Reps : fs'[s] # Gone => fs'[s].ver \in 1..deploys' /\ fs'[s].sec <= second'
    BY <1>0, <1>1, <1>3, <1>4 DEF DeployedInv
  <2>2. \A s, t \in Reps : fs'[s].ver = fs'[t].ver => fs'[s] = fs'[t]
    BY <1>0, <1>3, <1>4, <1>5 DEF DeployedInv
  <2> QED BY <1>1, <1>3, <1>4, <2>1, <2>2 DEF DeployedInv
<1>7. ASSUME NEW c \in Browsers, LocatedInv(conn[c]) PROVE LocatedInv(conn[c])'
  <2> DEFINE k == conn[c]
  <2>1. k.meta \in Builds /\ k.meta.ver \in 1..deploys /\ k.meta.sec <= second /\ k.rep \in Reps
    BY <1>7 DEF LocatedInv
  <2>2. fs'[k.rep] # Gone => fs'[k.rep].sec >= k.meta.sec
    BY <1>3, <1>4, <1>7, <2>1 DEF LocatedInv, Builds
  <2>3. \A s \in Reps : fs'[s].ver = k.meta.ver => fs'[s] = k.meta
    BY <1>3, <1>4, <1>7, <2>1 DEF LocatedInv
  <2>4. k.meta.ver \in 1..deploys'
    BY <1>1, <1>3, <2>1
  <2>5. conn'[c] = k /\ second' = second
    BY <1>1
  <2>6. k.rep \in k.req.accept \cup {Identity}
    BY <1>7 DEF LocatedInv
  <2> HIDE DEF k
  <2> QED BY <2>1, <2>2, <2>3, <2>4, <2>5, <2>6 DEF LocatedInv
<1> QED BY <1>1, <1>6, <1>7, WorldKeeps

LEMMA UndeployKeeps ==
  ASSUME ContentInv, Undeploy
  PROVE  ContentInv'
<1>0. DeployedInv
  BY DEF ContentInv
<1>1. UNCHANGED <<second, deploys, conn, copy, told, shelf, verdict>>
  BY DEF Undeploy
<1>2. PICK r \in Reps : fs' = [fs EXCEPT ![r] = Gone]
  BY DEF Undeploy
<1>4. fs' \in [Reps -> Builds] /\ fs'[r] = Gone /\ \A s \in Reps \ {r} : fs'[s] = fs[s]
  BY <1>0, <1>2, GoneIsABuild DEF DeployedInv
<1>5. \A s \in Reps : fs[s].ver = 0 => fs[s] = Gone
  BY <1>0 DEF DeployedInv
<1>6. DeployedInv'
  <2>1. \A s \in Reps : fs'[s] # Gone => fs'[s].ver \in 1..deploys /\ fs'[s].sec <= second
    BY <1>0, <1>4 DEF DeployedInv
  <2>2. \A s, t \in Reps : fs'[s].ver = fs'[t].ver => fs'[s] = fs'[t]
    BY <1>0, <1>4, <1>5, GoneIsABuild DEF DeployedInv
  <2> QED BY <1>0, <1>1, <1>4, <2>1, <2>2 DEF DeployedInv
<1>7. ASSUME NEW c \in Browsers, LocatedInv(conn[c]) PROVE LocatedInv(conn[c])'
  BY <1>0, <1>1, <1>4, <1>7, GoneIsABuild DEF LocatedInv, DeployedInv
<1> QED BY <1>1, <1>6, <1>7, WorldKeeps

LEMMA SecondKeeps ==
  ASSUME ContentInv, NextSecond
  PROVE  ContentInv'
<1>0. DeployedInv
  BY DEF ContentInv
<1>1. UNCHANGED <<fs, deploys, conn, copy, told, shelf, verdict>> /\ second' = second + 1 /\ second \in Nat
  BY <1>0 DEF NextSecond, DeployedInv
<1>2. \A s \in Reps : fs[s].sec \in Nat
  BY <1>0 DEF DeployedInv, Builds
<1>3. DeployedInv'
  BY <1>0, <1>1, <1>2 DEF DeployedInv
<1>4. ASSUME NEW c \in Browsers, LocatedInv(conn[c]) PROVE LocatedInv(conn[c])'
  BY <1>1, <1>4 DEF LocatedInv, Builds
<1> QED BY <1>1, <1>3, <1>4, WorldKeeps

LEMMA ContentStarts == ContentInit => ContentInv
<1> SUFFICES ASSUME ContentInit PROVE ContentInv
  OBVIOUS
<1>1. FirstBuild \in Builds /\ FirstBuild.ver = 1 /\ FirstBuild.sec = 0
  <2>1. (CHOOSE n \in Lens : \A k \in Lens : k <= n) \in Nat
    BY ContentConstants
  <2> QED BY <2>1 DEF FirstBuild, Builds
<1>2. PICK built \in SUBSET Sidecars : fs = [r \in Reps |-> IF r \in built \cup {Identity} THEN FirstBuild ELSE Gone]
  BY DEF ContentInit
<1>3. DeployedInv
  <2>1. \A r \in Reps : fs[r] = FirstBuild \/ fs[r] = Gone
    BY <1>2
  <2>2. second = 0 /\ deploys = 1
    BY DEF ContentInit
  <2>3. fs \in [Reps -> Builds]
    BY <1>1, <1>2, GoneIsABuild
  <2> QED BY <1>1, <2>1, <2>2, <2>3, GoneIsABuild DEF DeployedInv
<1>4. ShelfInv
  BY DEF ContentInit, ShelfInv
<1>5. ASSUME NEW c \in Browsers PROVE ConnInv(c) /\ CopyInv(copy[c]) /\ VerdictInv(c) /\ ToldInv(told[c])
  <2>1. conn[c] = NoConn /\ copy[c] = NoCopy /\ told[c] = NoCopy /\ verdict[c] = NoEntry
    BY DEF ContentInit
  <2> QED BY <2>1, CopyIsThere DEF ConnInv, CopyInv, VerdictInv, ToldInv
<1> QED BY <1>3, <1>4, <1>5 DEF ContentInit, ContentInv

LEMMA ContentStep == ContentInv /\ [ContentNext]_contentVars => ContentInv'
<1> SUFFICES ASSUME ContentInv, [ContentNext]_contentVars PROVE ContentInv'
  OBVIOUS
<1>1. ASSUME NEW c \in Browsers, Locate(c) PROVE ContentInv'
  BY <1>1, LocateKeeps
<1>2. ASSUME NEW c \in Browsers, ServeFile(c) PROVE ContentInv'
  BY <1>2, ServeKeeps
<1>3. ASSUME NEW c \in Browsers, Receive(c) PROVE ContentInv'
  BY <1>3, ReceiveKeeps
<1>4. ASSUME NEW c \in Browsers, SharedHit(c) PROVE ContentInv'
  BY <1>4, SharedHitKeeps
<1>5. ASSUME NEW c \in Browsers, AskPreflight(c) PROVE ContentInv'
  BY <1>5, PreflightKeeps
<1>6. CASE Deploy \/ Undeploy \/ NextSecond
  BY <1>6, DeployKeeps, UndeployKeeps, SecondKeeps
<1>7. CASE UNCHANGED contentVars
  <2>1. DeployedInv'
    BY <1>7 DEF ContentInv, DeployedInv, contentVars
  <2>2. \A c \in Browsers : LocatedInv(conn[c]) => LocatedInv(conn[c])'
    BY <1>7 DEF LocatedInv, contentVars
  <2> QED BY <1>7, <2>1, <2>2, WorldKeeps DEF contentVars
<1> QED BY <1>1, <1>2, <1>3, <1>4, <1>5, <1>6, <1>7 DEF ContentNext

\* A byte that was read before its file was replaced has the date of its copy
\* and, under tags, its length: two of them belong together.
LEMMA CopiesFollow == ContentInv => CopiesAreOneFile
<1> SUFFICES ASSUME ContentInv, NEW c \in Browsers, WholeCopy(c),
                    NEW i \in DOMAIN copy[c].bytes, NEW j \in DOMAIN copy[c].bytes
             PROVE  copy[c].bytes[i].late \/ copy[c].bytes[j].late \/ Together(copy[c].bytes[i], copy[c].bytes[j], copy[c].by)
  BY DEF CopiesAreOneFile
<1> DEFINE k == copy[c]
<1>1. CopyInv(k) /\ k # NoCopy
  BY CopyIsThere DEF ContentInv, WholeCopy
<1> QED BY <1>1 DEF CopyInv, Together, Indistinct

LEMMA CachesFollow == ContentInv => CachesTellTheTruth
<1> SUFFICES ASSUME ContentInv PROVE CachesTellTheTruth
  OBVIOUS
<1>1. NotModifiedIsTrue
  BY DEF ContentInv, NotModifiedIsTrue, ToldInv
<1>2. ASSUME NEW c \in Browsers, copy[c].total > 0
      PROVE  copy[c].coding \in copy[c].accept \cup {Identity} /\ copy[c].allow \in {"none", copy[c].origin}
  <2>1. CopyInv(copy[c]) /\ copy[c] # NoCopy
    BY <1>2, CopyIsThere DEF ContentInv
  <2> QED BY <2>1 DEF CopyInv
<1>3. ASSUME NEW c \in Browsers, verdict[c] # NoEntry PROVE verdict[c].approved = Approved(verdict[c].req)
  <2>1. verdict[c] = [kind |-> "seen", req |-> verdict[c].req, approved |-> Approved(verdict[c].req)]
    BY <1>3 DEF ContentInv, VerdictInv
  <2>2. \A r, p : [kind |-> "seen", req |-> r, approved |-> p].approved = p
    OBVIOUS
  <2> QED BY <2>1, <2>2
<1> QED BY <1>1, <1>2, <1>3 DEF CachesTellTheTruth, CachesMayShare

LEMMA ContentInvHolds == ContentSpec => []ContentInv
<1> QED BY ContentStarts, ContentStep, PTL DEF ContentSpec

\* For every set of files, codings and clients and any number of deployments, a
\* copy put together from a 200 and the tails of any number of 206s is one file, or
\* pieces of files that the validator they were joined under cannot tell apart, unless
\* a deployment fell between the two looks of one request.  (range.rs resolve and if_range_matches, compress.rs
\* should_compress and weaken_etag)
THEOREM CopiesStayOneFile == ContentSpec => []CopiesAreOneFile
<1> QED BY ContentInvHolds, CopiesFollow, PTL

\* For every origin list and every set of codings, a 304 confirms no copy older
\* than the file located, and what a cache shares is what the server would have
\* sent.  (fresh.rs is_fresh, compress.rs append_vary, cors.rs vary_preflight)
THEOREM CachesStayTruthful == ContentSpec => []CachesTellTheTruth
<1> QED BY ContentInvHolds, CachesFollow, PTL

-----------------------------------------------------------------------------
(* The application's routes.                                               *)
(*                                                                         *)
(* A group's middleware is what its ancestors and itself were given: who   *)
(* took it, a nested group or a route, sealed it first, so nothing is      *)
(* given to a group that something was derived from.                       *)

Listed(s) == \E S : s \in Seq(S)

LEMMA ListFacts ==
  ASSUME NEW s, Listed(s)
  PROVE  Len(s) \in Nat /\ DOMAIN s = 1..Len(s) /\ s \o <<>> = s /\ <<>> \o s = s
BY DEF Listed

LEMMA AppendFacts ==
  ASSUME NEW s, Listed(s), NEW x
  PROVE  /\ Listed(Append(s, x)) /\ Len(Append(s, x)) = Len(s) + 1 /\ Append(s, x) = s \o <<x>>
         /\ \A i \in 1..Len(s) : Append(s, x)[i] = s[i]
         /\ Append(s, x)[Len(s) + 1] = x
<1>1. PICK S : s \in Seq(S)
  BY DEF Listed
<1>2. s \in Seq(S \cup {x}) /\ x \in S \cup {x}
  BY <1>1
<1>3. Append(s, x) \in Seq(S \cup {x})
  BY <1>2
<1> QED BY <1>2, <1>3 DEF Listed

LEMMA ListedSingles ==
  Listed(<<>>) /\ \A x : Listed(<<x>>)
<1>1. <<>> \in Seq({}) /\ \A x : <<x>> \in Seq({x})
  OBVIOUS
<1> QED BY <1>1 DEF Listed

LEMMA ConcatListed ==
  ASSUME NEW s, NEW t, Listed(s), Listed(t)
  PROVE  Listed(s \o t)
<1>1. PICK S : s \in Seq(S)
  BY DEF Listed
<1>2. PICK T : t \in Seq(T)
  BY DEF Listed
<1>3. s \in Seq(S \cup T) /\ t \in Seq(S \cup T)
  BY <1>1, <1>2
<1>4. s \o t \in Seq(S \cup T)
  BY <1>3
<1> QED BY <1>4 DEF Listed

LEMMA ConcatGroups ==
  ASSUME NEW s, NEW t, NEW u, Listed(s), Listed(t), Listed(u)
  PROVE  (s \o t) \o u = s \o (t \o u)
<1>1. PICK S : s \in Seq(S)
  BY DEF Listed
<1>2. PICK T : t \in Seq(T)
  BY DEF Listed
<1>3. PICK U : u \in Seq(U)
  BY DEF Listed
<1> DEFINE V == S \cup T \cup U
<1>4. s \in Seq(V) /\ t \in Seq(V) /\ u \in Seq(V)
  BY <1>1, <1>2, <1>3
<1> HIDE DEF V
<1> QED BY <1>4, ConcatAssociative

LEMMA FrontAndLast ==
  ASSUME NEW s, NEW x, Listed(s)
  PROVE  Front(s \o <<x>>) = s /\ Last(s \o <<x>>) = x
<1>1. PICK S : s \in Seq(S)
  BY DEF Listed
<1> DEFINE V == S \cup {x}
<1>2. s \in Seq(V) /\ x \in V
  BY <1>1
<1> HIDE DEF V
<1>3. s \o <<x>> = Append(s, x)
  BY <1>2
<1>4. Front(Append(s, x)) = s
  BY <1>2 DEF Front
<1>5. Last(Append(s, x)) = x
  BY <1>2 DEF Last
<1> QED BY <1>3, <1>4, <1>5

-----------------------------------------------------------------------------
(* What groups were given *)

Tree(groups) == Len(groups) \in Nat /\ \A n \in 1..Len(groups) : groups[n].parent \in 0..(n - 1)

\* What the first k groups were given, each from its parent's.
Inherits(groups, k, to) ==
  [n \in 0..k |-> IF n = NoGroup THEN <<>> ELSE to[groups[n].parent] \o groups[n].given]

LEMMA InheritedExists ==
  ASSUME NEW groups, Tree(groups), NEW k \in Nat, k <= Len(groups)
  PROVE  \E to : to = Inherits(groups, k, to)
<1> DEFINE Bad == {m \in Nat : m <= Len(groups) /\ ~\E to : to = Inherits(groups, m, to)}
<1> SUFFICES ASSUME Bad # {} PROVE FALSE
  OBVIOUS
<1>1. PICK m \in Bad : \A j \in Bad : m <= j
  BY LeastNatural
<1>2. CASE m = 0
  <2>1. [n \in 0..0 |-> <<>>] = Inherits(groups, 0, [n \in 0..0 |-> <<>>])
    BY DEF Inherits, NoGroup
  <2> QED BY <1>1, <1>2, <2>1
<1>3. CASE m # 0
  <2>1. m \in Nat /\ m - 1 \in Nat /\ m - 1 \notin Bad /\ m <= Len(groups) /\ Len(groups) \in Nat /\ m - 1 <= Len(groups)
    BY <1>1, <1>3 DEF Tree
  <2>2. PICK f : f = Inherits(groups, m - 1, f)
    BY <2>1
  <2> DEFINE P(n) == groups[n].parent
             G(n) == groups[n].given
  <2>3. \A n \in 1..m : P(n) \in 0..(n - 1)
    BY <2>1 DEF Tree
  <2> DEFINE g == [n \in 0..m |-> IF n < m THEN f[n] ELSE f[P(m)] \o G(m)]
  <2>4. \A n \in 0..(m - 1) : f[n] = IF n = 0 THEN <<>> ELSE f[P(n)] \o G(n)
    <3>1. \A n \in 0..(m - 1) : Inherits(groups, m - 1, f)[n] = IF n = 0 THEN <<>> ELSE f[P(n)] \o G(n)
      BY DEF Inherits, NoGroup
    <3> QED BY <2>2, <3>1
  <2> HIDE DEF P, G
  <2>5. ASSUME NEW n \in 0..m PROVE g[n] = IF n = 0 THEN <<>> ELSE g[P(n)] \o G(n)
    <3>1. CASE n = m
      <4>1. P(m) \in 0..(m - 1) /\ P(m) < m /\ P(m) \in 0..m
        BY <1>3, <2>1, <2>3
      <4>2. g[m] = f[P(m)] \o G(m) /\ g[P(m)] = f[P(m)]
        BY <2>1, <4>1
      <4> QED BY <1>3, <3>1, <4>2
    <3>2. CASE n # m /\ n # 0
      <4>1. n \in 1..m /\ n \in 0..(m - 1) /\ n < m
        BY <2>1, <3>2
      <4>2. P(n) \in 0..(n - 1) /\ P(n) < m /\ P(n) \in 0..m
        BY <2>1, <2>3, <4>1
      <4>3. g[n] = f[n] /\ g[P(n)] = f[P(n)]
        BY <4>1, <4>2
      <4> QED BY <2>4, <3>2, <4>1, <4>3
    <3>3. CASE n # m /\ n = 0
      <4>1. 0 \in 0..(m - 1) /\ 0 < m /\ 0 \in 0..m
        BY <1>3, <2>1
      <4>2. g[0] = f[0]
        BY <4>1
      <4> QED BY <2>4, <3>3, <4>1, <4>2
    <3> QED BY <3>1, <3>2, <3>3
  <2>6. g = [n \in 0..m |-> g[n]]
    OBVIOUS
  <2> HIDE DEF g
  <2>7. g = [n \in 0..m |-> IF n = 0 THEN <<>> ELSE g[P(n)] \o G(n)]
    BY <2>5, <2>6
  <2>8. g = Inherits(groups, m, g)
    BY <2>7 DEF Inherits, P, G, NoGroup
  <2> QED BY <1>1, <2>8
<1> QED BY <1>2, <1>3

LEMMA GivenFacts ==
  ASSUME NEW groups, Tree(groups)
  PROVE  /\ GivenTo(groups, 0) = <<>>
         /\ \A n \in 1..Len(groups) : GivenTo(groups, n) = GivenTo(groups, groups[n].parent) \o groups[n].given
<1> DEFINE to == CHOOSE f : f = Inherits(groups, Len(groups), f)
<1>1. \A g : GivenTo(groups, g) = to[g]
  BY DEF GivenTo, Inherits
<1>2. to = Inherits(groups, Len(groups), to)
  BY InheritedExists DEF Tree
<1> HIDE DEF to
<1>3. \A n \in 0..Len(groups) : to[n] = IF n = 0 THEN <<>> ELSE to[groups[n].parent] \o groups[n].given
  <2>1. \A n \in 0..Len(groups) :
          Inherits(groups, Len(groups), to)[n] = IF n = 0 THEN <<>> ELSE to[groups[n].parent] \o groups[n].given
    BY DEF Inherits, NoGroup
  <2> QED BY <1>2, <2>1
<1>4. Len(groups) \in Nat
  BY DEF Tree
<1>5. to[0] = <<>>
  BY <1>3, <1>4, 0 \in 0..Len(groups)
<1>6. ASSUME NEW n \in 1..Len(groups) PROVE to[n] = to[groups[n].parent] \o groups[n].given
  <2>1. n \in 0..Len(groups) /\ n # 0
    BY <1>4
  <2> QED BY <1>3, <2>1
<1> QED BY <1>1, <1>5, <1>6

\* What a group was given depends on it and its ancestors alone.
AgreeOn(K, G, H) ==
  /\ Tree(G) /\ Tree(H) /\ K \subseteq 0..Len(G) /\ K \subseteq 0..Len(H)
  /\ \A n \in K : n # 0 => G[n].parent \in K /\ H[n].parent = G[n].parent /\ H[n].given = G[n].given

LEMMA GivenSame ==
  ASSUME NEW G, NEW H, NEW K, AgreeOn(K, G, H)
  PROVE  \A n \in K : GivenTo(H, n) = GivenTo(G, n)
<1> DEFINE Bad == {n \in K : GivenTo(H, n) # GivenTo(G, n)}
<1> SUFFICES ASSUME Bad # {} PROVE FALSE
  OBVIOUS
<1>0. /\ Len(G) \in Nat /\ Len(H) \in Nat /\ Tree(G) /\ Tree(H)
      /\ K \subseteq 0..Len(G) /\ K \subseteq 0..Len(H)
      /\ \A n \in K : n # 0 => G[n].parent \in K /\ H[n].parent = G[n].parent /\ H[n].given = G[n].given
  BY DEF Tree, AgreeOn
<1>1. Bad \subseteq Nat
  <2>1. 0..Len(G) \subseteq Nat
    BY <1>0
  <2> QED BY <1>0, <2>1
<1>2. PICK n \in Bad : \A m \in Bad : n <= m
  BY <1>1, LeastNatural
<1>3. n \in K /\ GivenTo(H, n) # GivenTo(G, n)
  BY <1>2
<1>4. n # 0
  BY <1>0, <1>3, GivenFacts
<1>5. n \in 1..Len(G) /\ n \in 1..Len(H)
  BY <1>0, <1>3, <1>4
<1>6. G[n].parent \in K /\ H[n].parent = G[n].parent /\ H[n].given = G[n].given /\ G[n].parent \in 0..(n - 1)
  BY <1>0, <1>3, <1>4, <1>5 DEF Tree
<1>7. G[n].parent \notin Bad
  <2> HIDE DEF Bad
  <2>1. ~(n <= G[n].parent)
    BY <1>5, <1>6
  <2> QED BY <1>2, <2>1
<1>8. GivenTo(H, G[n].parent) = GivenTo(G, G[n].parent)
  BY <1>6, <1>7
<1>9. GivenTo(G, n) = GivenTo(G, G[n].parent) \o G[n].given
  BY <1>0, <1>5, GivenFacts
<1>10. GivenTo(H, n) = GivenTo(H, H[n].parent) \o H[n].given
  BY <1>0, <1>5, GivenFacts
<1> QED BY <1>3, <1>6, <1>8, <1>9, <1>10

-----------------------------------------------------------------------------
(* What a script has registered *)

AppFields == {"middleware", "groups", "routes", "statics", "error", "invalid", "doc"}
GroupFields == {"prefix", "middleware", "sealed", "parent", "given"}
IsSealed(group) == group.sealed = TRUE
OwnLink(route) == IF route.own THEN << <<"own", route.call>> >> ELSE <<>>
HandlerLink(route) == << <<"handler", route.call>> >>

\* A group has taken its parent's middleware, which gets no more.
GroupInv(groups) ==
  /\ Listed(groups) /\ Tree(groups)
  /\ \A n \in 1..Len(groups) :
       /\ DOMAIN groups[n] = GroupFields /\ Listed(groups[n].given) /\ Listed(groups[n].middleware)
       /\ groups[n].middleware = GivenTo(groups, n)
       /\ groups[n].parent # 0 => IsSealed(groups[groups[n].parent])

\* So has a route its group's.
RouteInv(groups, defs) ==
  /\ Listed(defs)
  /\ \A i \in 1..Len(defs) :
       /\ defs[i].group \in 0..Len(groups) /\ (defs[i].group # 0 => IsSealed(groups[defs[i].group]))
       /\ Listed(GivenTo(groups, defs[i].group))
       /\ defs[i].fns = (GivenTo(groups, defs[i].group) \o OwnLink(defs[i])) \o HandlerLink(defs[i])

RegisterInv ==
  /\ DOMAIN appDef = AppFields /\ Listed(appDef.middleware)
  /\ GroupInv(appDef.groups) /\ RouteInv(appDef.groups, appDef.routes)
  /\ scriptCalls \in 0..MaxCalls /\ Len(appDef.routes) <= scriptCalls

IsReplaced(s, i, x, t) == t = [s EXCEPT ![i] = x]

LEMMA ListedExcept ==
  ASSUME NEW s, Listed(s), NEW i \in 1..Len(s), NEW x, NEW t, IsReplaced(s, i, x, t)
  PROVE  Listed(t) /\ Len(t) = Len(s) /\ t[i] = x /\ \A j \in 1..Len(s) : j # i => t[j] = s[j]
<1>1. PICK S : s \in Seq(S)
  BY DEF Listed
<1>2. s \in Seq(S \cup {x}) /\ x \in S \cup {x}
  BY <1>1
<1>3. [s EXCEPT ![i] = x] \in Seq(S \cup {x}) /\ Len([s EXCEPT ![i] = x]) = Len(s)
  BY <1>2, ExceptSeq
<1>4. [s EXCEPT ![i] = x][i] = x /\ \A j \in 1..Len(s) : j # i => [s EXCEPT ![i] = x][j] = s[j]
  BY <1>2
<1>5. Listed([s EXCEPT ![i] = x])
  BY <1>3 DEF Listed
<1> QED BY <1>3, <1>4, <1>5 DEF IsReplaced

LEMMA SealKeeps ==
  ASSUME NEW G, GroupInv(G), NEW g \in 0..Len(G), NEW by, NEW H, H = Sealed(G, g, by)
  PROVE  /\ GroupInv(H) /\ Len(H) = Len(G) /\ (g # 0 => IsSealed(H[g]))
         /\ \A n \in 0..Len(G) : GivenTo(H, n) = GivenTo(G, n)
         /\ \A n \in 1..Len(G) : IsSealed(G[n]) => IsSealed(H[n])
<1>1. CASE g = 0
  BY <1>1 DEF Sealed, NoGroup
<1>2. CASE g # 0
  <2>1. g \in 1..Len(G) /\ Listed(G) /\ Tree(G) /\ Len(G) \in Nat
    BY <1>2 DEF GroupInv, Tree
  <2> DEFINE x == [G[g] EXCEPT !.sealed = TRUE]
  <2>2. DOMAIN G = 1..Len(G) /\ H = [G EXCEPT ![g] = x]
    BY <1>2, <2>1, ListFacts DEF Sealed, NoGroup
  <2>3. /\ DOMAIN x = GroupFields /\ IsSealed(x) /\ x.parent = G[g].parent /\ x.given = G[g].given
        /\ x.middleware = G[g].middleware
    BY <2>1 DEF GroupInv, GroupFields, IsSealed
  <2> HIDE DEF x
  <2>4. Listed(H) /\ Len(H) = Len(G) /\ H[g] = x /\ \A n \in 1..Len(G) : n # g => H[n] = G[n]
    <3>1. IsReplaced(G, g, x, H)
      BY <2>2 DEF IsReplaced
    <3> QED BY <2>1, <3>1, ListedExcept
  <2>5. \A n \in 1..Len(G) : /\ DOMAIN H[n] = GroupFields /\ H[n].parent = G[n].parent /\ H[n].given = G[n].given
                             /\ H[n].middleware = G[n].middleware /\ (IsSealed(G[n]) => IsSealed(H[n]))
    BY <2>3, <2>4 DEF GroupInv
  <2>6. Tree(H)
    BY <2>1, <2>4, <2>5 DEF Tree
  <2>7. \A n \in 0..Len(G) : GivenTo(H, n) = GivenTo(G, n)
    <3> DEFINE K == 0..Len(G)
    <3>1. \A n \in K : n # 0 => n \in 1..Len(G)
      BY <2>1
    <3>2. \A n \in K : n # 0 => G[n].parent \in K
      BY <2>1, <3>1 DEF Tree
    <3>3. K \subseteq 0..Len(G) /\ K \subseteq 0..Len(H)
      BY <2>4
    <3>4. \A n \in K : n # 0 => G[n].parent \in K /\ H[n].parent = G[n].parent /\ H[n].given = G[n].given
      BY <2>5, <3>1, <3>2
    <3> HIDE DEF K
    <3>5. AgreeOn(K, G, H)
      BY <2>1, <2>6, <3>3, <3>4 DEF AgreeOn
    <3>6. \A n \in K : GivenTo(H, n) = GivenTo(G, n)
      BY <3>5, GivenSame
    <3> QED BY <3>6 DEF K
  <2>8. ASSUME NEW n \in 1..Len(H)
        PROVE  /\ DOMAIN H[n] = GroupFields /\ Listed(H[n].given) /\ Listed(H[n].middleware)
               /\ H[n].middleware = GivenTo(H, n)
               /\ H[n].parent # 0 => IsSealed(H[H[n].parent])
    <3>1. n \in 1..Len(G) /\ n \in 0..Len(G) /\ G[n].parent \in 0..(n - 1)
      BY <2>1, <2>4 DEF Tree
    <3>2. H[n].parent = G[n].parent /\ (G[n].parent # 0 => G[n].parent \in 1..Len(G))
      BY <2>1, <2>5, <3>1
    <3>3. G[n].parent # 0 => IsSealed(G[G[n].parent])
      BY <3>1 DEF GroupInv
    <3>4. H[n].parent # 0 => IsSealed(H[H[n].parent])
      BY <2>5, <3>2, <3>3
    <3>5. Listed(G[n].given) /\ Listed(G[n].middleware) /\ G[n].middleware = GivenTo(G, n)
      BY <3>1 DEF GroupInv
    <3> QED BY <2>5, <2>7, <3>1, <3>4, <3>5
  <2>9. GroupInv(H)
    BY <2>4, <2>6, <2>8 DEF GroupInv
  <2> QED BY <1>2, <2>3, <2>4, <2>5, <2>7, <2>9
<1> QED BY <1>1, <1>2

LEMMA RoutesKept ==
  ASSUME NEW G, NEW H, NEW defs, RouteInv(G, defs), Len(G) \in Nat, Len(H) \in Nat, Len(G) <= Len(H),
         \A n \in 1..Len(G) : IsSealed(G[n]) => IsSealed(H[n]) /\ GivenTo(H, n) = GivenTo(G, n),
         GivenTo(H, 0) = GivenTo(G, 0)
  PROVE  RouteInv(H, defs)
<1> SUFFICES ASSUME NEW i \in 1..Len(defs)
             PROVE  /\ defs[i].group \in 0..Len(H) /\ (defs[i].group # 0 => IsSealed(H[defs[i].group]))
                    /\ GivenTo(H, defs[i].group) = GivenTo(G, defs[i].group)
  BY DEF RouteInv
<1>1. defs[i].group \in 0..Len(G) /\ (defs[i].group # 0 => IsSealed(G[defs[i].group]))
  BY DEF RouteInv
<1>2. CASE defs[i].group = 0
  BY <1>2
<1>3. CASE defs[i].group # 0
  <2>1. defs[i].group \in 1..Len(G)
    BY <1>1, <1>3
  <2> QED BY <1>1, <1>3, <2>1
<1> QED BY <1>2, <1>3

LEMMA GroupAdded ==
  ASSUME NEW G, GroupInv(G), NEW g \in 0..Len(G), g # 0 => IsSealed(G[g]),
         NEW x, DOMAIN x = GroupFields, x.parent = g, x.given = <<>>, x.middleware = GivenTo(G, g),
         Listed(GivenTo(G, g))
  PROVE  /\ GroupInv(Append(G, x)) /\ Len(Append(G, x)) = Len(G) + 1
         /\ \A n \in 0..Len(G) : GivenTo(Append(G, x), n) = GivenTo(G, n)
         /\ \A n \in 1..Len(G) : Append(G, x)[n] = G[n]
<1> DEFINE H == Append(G, x)
           N == Len(G) + 1
<1>1. Listed(G) /\ Tree(G) /\ Len(G) \in Nat
  BY DEF GroupInv, Tree
<1>2. Listed(H) /\ Len(H) = N /\ (\A n \in 1..Len(G) : H[n] = G[n]) /\ H[N] = x
  BY <1>1, AppendFacts
<1> HIDE DEF H
<1>3. \A n \in 1..N : n \in 1..Len(G) \/ n = N
  BY <1>1
<1>4. Tree(H)
  <2>1. \A n \in 1..Len(G) : H[n].parent \in 0..(n - 1)
    BY <1>1, <1>2 DEF Tree
  <2>2. H[N].parent \in 0..(N - 1)
    BY <1>1, <1>2
  <2> QED BY <1>1, <1>2, <1>3, <2>1, <2>2 DEF Tree
<1>5. \A n \in 0..Len(G) : GivenTo(H, n) = GivenTo(G, n)
  <2> DEFINE K == 0..Len(G)
  <2>1. \A n \in K : n # 0 => n \in 1..Len(G)
    BY <1>1
  <2>2. \A n \in K : n # 0 => G[n].parent \in K
    BY <1>1, <2>1 DEF Tree
  <2>3. K \subseteq 0..Len(G) /\ K \subseteq 0..Len(H)
    BY <1>1, <1>2
  <2>4. \A n \in K : n # 0 => G[n].parent \in K /\ H[n].parent = G[n].parent /\ H[n].given = G[n].given
    BY <1>2, <2>1, <2>2
  <2> HIDE DEF K
  <2>5. AgreeOn(K, G, H)
    BY <1>1, <1>4, <2>3, <2>4 DEF AgreeOn
  <2>6. \A n \in K : GivenTo(H, n) = GivenTo(G, n)
    BY <2>5, GivenSame
  <2> QED BY <2>6 DEF K
<1>6. GivenTo(H, N) = GivenTo(G, g)
  <2>1. N \in 1..Len(H)
    BY <1>1, <1>2
  <2>2. GivenTo(H, N) = GivenTo(H, g) \o <<>>
    BY <1>2, <1>4, <2>1, GivenFacts
  <2> QED BY <1>5, <2>2, ListFacts
<1>7. ASSUME NEW n \in 1..Len(H)
      PROVE  /\ DOMAIN H[n] = GroupFields /\ Listed(H[n].given) /\ Listed(H[n].middleware)
             /\ H[n].middleware = GivenTo(H, n)
             /\ H[n].parent # 0 => IsSealed(H[H[n].parent])
  <2>1. CASE n \in 1..Len(G)
    <3>1. /\ DOMAIN G[n] = GroupFields /\ Listed(G[n].given) /\ Listed(G[n].middleware) /\ G[n].middleware = GivenTo(G, n)
          /\ (G[n].parent # 0 => IsSealed(G[G[n].parent])) /\ G[n].parent \in 0..(n - 1)
      BY <2>1 DEF GroupInv, Tree
    <3>2. G[n].parent # 0 => G[n].parent \in 1..Len(G)
      BY <1>1, <2>1, <3>1
    <3>3. n \in 0..Len(G)
      BY <1>1, <2>1
    <3> QED BY <1>2, <1>5, <2>1, <3>1, <3>2, <3>3
  <2>2. CASE n = N
    <3>1. g # 0 => g \in 1..Len(G)
      BY <1>1
    <3> QED BY <1>2, <1>6, <2>2, <3>1, ListedSingles
  <2> QED BY <1>2, <1>3, <2>1, <2>2
<1>8. GroupInv(H)
  BY <1>2, <1>4, <1>7 DEF GroupInv
<1> QED BY <1>2, <1>5, <1>8 DEF H

\* What a group is given is its own: nobody has taken its middleware.
IsMore(group, x, y) == y = [group EXCEPT !.middleware = Append(@, x), !.given = Append(@, x)]

LEMMA GivenMore ==
  ASSUME NEW G, GroupInv(G), NEW g \in 1..Len(G), ~IsSealed(G[g]), NEW x, NEW y, NEW H,
         IsMore(G[g], x, y), IsReplaced(G, g, y, H)
  PROVE  /\ GroupInv(H) /\ Len(H) = Len(G) /\ GivenTo(H, 0) = GivenTo(G, 0)
         /\ \A n \in 1..Len(G) : IsSealed(G[n]) => IsSealed(H[n]) /\ GivenTo(H, n) = GivenTo(G, n)
<1>1. Listed(G) /\ Tree(G) /\ Len(G) \in Nat
  BY DEF GroupInv, Tree
<1>2. DOMAIN G[g] = GroupFields /\ Listed(G[g].given) /\ Listed(G[g].middleware) /\ G[g].middleware = GivenTo(G, g)
  BY DEF GroupInv
<1>3. /\ DOMAIN y = GroupFields /\ y.middleware = Append(G[g].middleware, x) /\ y.given = Append(G[g].given, x)
      /\ y.parent = G[g].parent
  BY <1>2 DEF GroupFields, IsMore
<1>4. Listed(H) /\ Len(H) = Len(G) /\ H[g] = y /\ \A n \in 1..Len(G) : n # g => H[n] = G[n]
  BY <1>1, ListedExcept
<1>5. \A n \in 1..Len(G) : H[n].parent = G[n].parent /\ G[n].parent \in 0..(n - 1) /\ G[n].parent # g
  <2> SUFFICES ASSUME NEW n \in 1..Len(G) PROVE H[n].parent = G[n].parent /\ G[n].parent \in 0..(n - 1) /\ G[n].parent # g
    OBVIOUS
  <2>1. G[n].parent \in 0..(n - 1) /\ (G[n].parent # 0 => IsSealed(G[G[n].parent]))
    BY DEF GroupInv, Tree
  <2>2. G[n].parent # g
    BY <1>1, <2>1
  <2> QED BY <1>3, <1>4, <2>1, <2>2
<1>6. Tree(H)
  BY <1>1, <1>4, <1>5 DEF Tree
<1>7. \A n \in 0..Len(G) : n # g => GivenTo(H, n) = GivenTo(G, n)
  <2> DEFINE K == (0..Len(G)) \ {g}
  <2>1. \A n \in K : n # 0 => n \in 1..Len(G) /\ n # g
    BY <1>1
  <2>2. \A n \in K : n # 0 => G[n].parent \in K
    BY <1>1, <1>5, <2>1
  <2>3. K \subseteq 0..Len(G) /\ K \subseteq 0..Len(H)
    BY <1>1, <1>4
  <2>4. \A n \in K : n # 0 => G[n].parent \in K /\ H[n].parent = G[n].parent /\ H[n].given = G[n].given
    BY <1>4, <1>5, <2>1, <2>2
  <2> HIDE DEF K
  <2>5. AgreeOn(K, G, H)
    BY <1>1, <1>6, <2>3, <2>4 DEF AgreeOn
  <2>6. \A n \in K : GivenTo(H, n) = GivenTo(G, n)
    BY <2>5, GivenSame
  <2> QED BY <2>6 DEF K
<1>8. GivenTo(H, g) = Append(GivenTo(G, g), x) /\ Listed(Append(GivenTo(G, g), x))
  <2> DEFINE p == G[g].parent
  <2>1. p \in 0..Len(G) /\ p # g
    BY <1>1, <1>5
  <2>2. GivenTo(H, g) = GivenTo(H, p) \o Append(G[g].given, x)
    <3>1. g \in 1..Len(H) /\ H[g].parent = p /\ H[g].given = Append(G[g].given, x)
      BY <1>3, <1>4
    <3>2. GivenTo(H, g) = GivenTo(H, H[g].parent) \o H[g].given
      BY <1>6, <3>1, GivenFacts
    <3> QED BY <3>1, <3>2
  <2>3. GivenTo(G, g) = GivenTo(G, p) \o G[g].given
    BY <1>1, GivenFacts
  <2>4. GivenTo(H, p) = GivenTo(G, p)
    BY <1>7, <2>1
  <2>5. Listed(GivenTo(G, p))
    <3>1. CASE p = 0
      BY <1>1, <3>1, GivenFacts, ListedSingles
    <3>2. CASE p # 0
      <4>1. p \in 1..Len(G)
        BY <1>1, <2>1, <3>2
      <4> QED BY <4>1 DEF GroupInv
    <3> QED BY <3>1, <3>2
  <2> HIDE DEF p
  <2>6. Append(G[g].given, x) = G[g].given \o <<x>> /\ Append(GivenTo(G, g), x) = GivenTo(G, g) \o <<x>>
    BY <1>2, AppendFacts
  <2>7. (GivenTo(G, p) \o G[g].given) \o <<x>> = GivenTo(G, p) \o (G[g].given \o <<x>>)
    <3>1. Listed(<<x>>)
      BY ListedSingles
    <3> DEFINE a == GivenTo(G, p)
               b == G[g].given
    <3>2. Listed(a) /\ Listed(b)
      BY <1>2, <2>5
    <3> HIDE DEF a, b
    <3>3. (a \o b) \o <<x>> = a \o (b \o <<x>>)
      BY <3>1, <3>2, ConcatGroups
    <3> QED BY <3>3 DEF a, b
  <2>8. Listed(Append(GivenTo(G, g), x))
    BY <1>2, AppendFacts
  <2> QED BY <2>2, <2>3, <2>4, <2>6, <2>7, <2>8
<1>9. ASSUME NEW n \in 1..Len(H)
      PROVE  /\ DOMAIN H[n] = GroupFields /\ Listed(H[n].given) /\ Listed(H[n].middleware)
             /\ H[n].middleware = GivenTo(H, n)
             /\ H[n].parent # 0 => IsSealed(H[H[n].parent])
  <2>1. n \in 1..Len(G) /\ n \in 0..Len(G)
    BY <1>1, <1>4
  <2>2. G[n].parent # 0 => IsSealed(H[G[n].parent])
    <3>1. G[n].parent # 0 => G[n].parent \in 1..Len(G) /\ IsSealed(G[G[n].parent]) /\ G[n].parent # g
      <4>1. G[n].parent # 0 => IsSealed(G[G[n].parent])
        BY <2>1 DEF GroupInv
      <4>2. G[n].parent \in 0..(n - 1) /\ Len(G) \in Nat
        BY <1>1, <2>1 DEF Tree
      <4>3. G[n].parent # 0 => G[n].parent \in 1..Len(G)
        BY <2>1, <4>2
      <4> QED BY <4>1, <4>3
    <3> QED BY <1>4, <3>1
  <2>3. CASE n = g
    <3>1. Listed(Append(G[g].given, x)) /\ Listed(Append(G[g].middleware, x))
      BY <1>2, AppendFacts
    <3> QED BY <1>2, <1>3, <1>4, <1>8, <2>2, <2>3, <3>1
  <2>4. CASE n # g
    <3>1. DOMAIN G[n] = GroupFields /\ Listed(G[n].given) /\ Listed(G[n].middleware) /\ G[n].middleware = GivenTo(G, n)
      BY <2>1 DEF GroupInv
    <3> QED BY <1>4, <1>7, <2>1, <2>2, <2>4, <3>1
  <2> QED BY <2>3, <2>4
<1>10. GroupInv(H)
  BY <1>4, <1>6, <1>9 DEF GroupInv
<1>11. ASSUME NEW n \in 1..Len(G), IsSealed(G[n]) PROVE IsSealed(H[n]) /\ GivenTo(H, n) = GivenTo(G, n)
  <2>1. n # g /\ n \in 0..Len(G)
    BY <1>1, <1>11
  <2> QED BY <1>4, <1>7, <1>11, <2>1
<1>12. GivenTo(H, 0) = GivenTo(G, 0)
  BY <1>1, <1>6, GivenFacts
<1> QED BY <1>4, <1>10, <1>11, <1>12

-----------------------------------------------------------------------------
(* Registration keeps it so *)

LEMMA GroupFacts ==
  ASSUME RegisterInv, NEW g \in 0..Len(appDef.groups)
  PROVE  /\ GroupOf(g).middleware = GivenTo(appDef.groups, g) /\ Listed(GivenTo(appDef.groups, g))
         /\ Len(appDef.groups) \in Nat
<1>1. GroupInv(appDef.groups) /\ Tree(appDef.groups) /\ Len(appDef.groups) \in Nat
  BY DEF RegisterInv, GroupInv, Tree
<1>2. CASE g = 0
  BY <1>1, <1>2, GivenFacts, ListedSingles DEF GroupOf, NoGroup
<1>3. CASE g # 0
  <2>1. g \in 1..Len(appDef.groups)
    BY <1>1, <1>3
  <2>2. appDef.groups[g].middleware = GivenTo(appDef.groups, g) /\ Listed(appDef.groups[g].middleware)
    BY <1>1, <2>1 DEF GroupInv
  <2> QED BY <1>1, <1>3, <2>2 DEF GroupOf, NoGroup
<1> QED BY <1>2, <1>3

LEMMA CallFacts ==
  ASSUME RegisterInv, NEW def, CallApp(def)
  PROVE  /\ scriptCalls \in Nat /\ scriptCalls' \in 0..MaxCalls /\ scriptCalls' = scriptCalls + 1 /\ appDef' = def
         /\ Len(appDef.routes) \in Nat /\ Len(appDef.routes) < scriptCalls'
<1>1. Listed(appDef.routes)
  BY DEF RegisterInv, RouteInv
<1>2. Len(appDef.routes) \in Nat
  BY <1>1, ListFacts
<1> QED BY <1>2, RoutesConstants DEF RegisterInv, CallApp

\* The calls that leave groups and routes alone.
LEMMA OtherCalls ==
  ASSUME RegisterInv, NEW def, CallApp(def), DOMAIN def = AppFields, Listed(def.middleware),
         def.groups = appDef.groups, def.routes = appDef.routes
  PROVE  RegisterInv'
<1>1. /\ scriptCalls' \in 0..MaxCalls /\ appDef' = def /\ Len(appDef.routes) \in Nat /\ Len(appDef.routes) < scriptCalls'
  BY CallFacts
<1>2. GroupInv(appDef'.groups) /\ RouteInv(appDef'.groups, appDef'.routes)
  BY <1>1 DEF RegisterInv
<1>3. Len(appDef'.routes) <= scriptCalls'
  BY <1>1
<1> QED BY <1>1, <1>2, <1>3 DEF RegisterInv

\* A route has what its group had when it was registered, and the group is sealed then.
LEMMA RouteRegistered ==
  ASSUME RegisterInv, NEW g \in 0..Len(appDef.groups), NEW e, RegisterRoute(g, e)
  PROVE  RegisterInv'
<1> DEFINE G == appDef.groups
           H == Sealed(G, g, "route")
           own == IF e.own THEN << <<"own", scriptCalls>> >> ELSE <<>>
           route == [method |-> e.method, path |-> GroupOf(g).prefix \o e.path,
                     fns |-> GroupOf(g).middleware \o own \o << <<"handler", scriptCalls>> >>,
                     input |-> e.input, doc |-> e.doc, limited |-> e.limited, error |-> e.error, invalid |-> e.invalid, group |-> g,
                     call |-> scriptCalls, own |-> e.own]
           defs == IF e.valid THEN Append(appDef.routes, route) ELSE appDef.routes
           def == [appDef EXCEPT !.groups = H, !.routes = IF e.valid THEN Append(@, route) ELSE @]
<1>1. DOMAIN appDef = AppFields /\ GroupInv(G) /\ RouteInv(G, appDef.routes) /\ Listed(appDef.middleware)
  BY DEF RegisterInv
<1>2. CallApp(def)
  BY DEF RegisterRoute
<1>3. DOMAIN def = AppFields /\ def.groups = H /\ def.routes = defs /\ def.middleware = appDef.middleware
  <2> HIDE DEF H, route
  <2> QED BY <1>1 DEF AppFields
<1>4. /\ route.fns = (GroupOf(g).middleware \o own) \o << <<"handler", scriptCalls>> >>
      /\ route.group = g /\ route.call = scriptCalls /\ route.own = e.own
  OBVIOUS
<1> HIDE DEF H, route, def
<1>5. GroupOf(g).middleware = GivenTo(G, g) /\ Listed(GivenTo(G, g)) /\ Len(G) \in Nat
  BY GroupFacts
<1>6. /\ GroupInv(H) /\ Len(H) = Len(G) /\ (g # 0 => IsSealed(H[g]))
      /\ \A n \in 0..Len(G) : GivenTo(H, n) = GivenTo(G, n)
      /\ \A n \in 1..Len(G) : IsSealed(G[n]) => IsSealed(H[n])
  <2>1. H = Sealed(G, g, "route")
    BY DEF H
  <2> QED BY <1>1, <2>1, SealKeeps
<1>7. RouteInv(H, appDef.routes)
  <2>1. GivenTo(H, 0) = GivenTo(G, 0) /\ \A n \in 1..Len(G) : IsSealed(G[n]) => IsSealed(H[n]) /\ GivenTo(H, n) = GivenTo(G, n)
    BY <1>5, <1>6
  <2> QED BY <1>1, <1>5, <1>6, <2>1, RoutesKept
<1>8. RouteInv(H, defs) /\ Len(defs) <= Len(appDef.routes) + 1 /\ Len(appDef.routes) \in Nat /\ Len(defs) \in Nat
  <2> DEFINE old == appDef.routes
             new == Append(old, route)
  <2>1. Listed(old) /\ Len(old) \in Nat
    BY <1>7, ListFacts DEF RouteInv
  <2>2. Listed(new) /\ Len(new) = Len(old) + 1 /\ (\A i \in 1..Len(old) : new[i] = old[i]) /\ new[Len(old) + 1] = route
    BY <2>1, AppendFacts
  <2>3. /\ route.group \in 0..Len(H) /\ (route.group # 0 => IsSealed(H[route.group]))
        /\ Listed(GivenTo(H, route.group))
        /\ route.fns = (GivenTo(H, route.group) \o OwnLink(route)) \o HandlerLink(route)
    BY <1>4, <1>5, <1>6 DEF OwnLink, HandlerLink
  <2> HIDE DEF new
  <2>4. RouteInv(H, new)
    <3>1. \A i \in 1..Len(new) : i \in 1..Len(old) \/ i = Len(old) + 1
      BY <2>1, <2>2
    <3>2. ASSUME NEW i \in 1..Len(new)
          PROVE  /\ new[i].group \in 0..Len(H) /\ (new[i].group # 0 => IsSealed(H[new[i].group]))
                 /\ Listed(GivenTo(H, new[i].group))
                 /\ new[i].fns = (GivenTo(H, new[i].group) \o OwnLink(new[i])) \o HandlerLink(new[i])
      <4>1. CASE i \in 1..Len(old)
        <5>1. /\ old[i].group \in 0..Len(H) /\ (old[i].group # 0 => IsSealed(H[old[i].group]))
              /\ Listed(GivenTo(H, old[i].group))
              /\ old[i].fns = (GivenTo(H, old[i].group) \o OwnLink(old[i])) \o HandlerLink(old[i])
          BY <1>7, <4>1 DEF RouteInv
        <5> QED BY <2>2, <4>1, <5>1
      <4>2. CASE i = Len(old) + 1
        BY <2>2, <2>3, <4>2
      <4> QED BY <3>1, <4>1, <4>2
    <3> QED BY <2>2, <3>2 DEF RouteInv
  <2> QED BY <1>7, <2>1, <2>2, <2>4 DEF new
<1>9. /\ scriptCalls' \in 0..MaxCalls /\ appDef' = def /\ Len(appDef.routes) \in Nat /\ Len(appDef.routes) < scriptCalls'
  BY <1>2, CallFacts
<1>10. Len(appDef'.routes) <= scriptCalls' /\ RouteInv(appDef'.groups, appDef'.routes)
  <2> HIDE DEF defs
  <2>1. appDef'.routes = defs /\ appDef'.groups = H
    BY <1>3, <1>9
  <2>2. Len(defs) <= scriptCalls'
    BY <1>8, <1>9
  <2> QED BY <1>8, <2>1, <2>2
<1> QED BY <1>1, <1>3, <1>6, <1>9, <1>10 DEF RegisterInv

LEMMA GroupUsed ==
  ASSUME RegisterInv, NEW g \in 1..Len(appDef.groups), UseInGroup(g)
  PROVE  RegisterInv'
<1> DEFINE G == appDef.groups
           x == <<"group", scriptCalls>>
           y == [G[g] EXCEPT !.middleware = Append(@, x), !.given = Append(@, x)]
           H == [G EXCEPT ![g] = y]
           def == [appDef EXCEPT !.groups[g].middleware = Append(@, x), !.groups[g].given = Append(@, x)]
<1>1. DOMAIN appDef = AppFields /\ GroupInv(G) /\ RouteInv(G, appDef.routes) /\ Listed(appDef.middleware)
  BY DEF RegisterInv
<1>2. Listed(G) /\ DOMAIN G = 1..Len(G) /\ Len(G) \in Nat /\ DOMAIN G[g] = GroupFields
  BY <1>1, ListFacts DEF GroupInv
<1>3. CallApp(def) /\ ~IsSealed(G[g])
  BY DEF UseInGroup, IsSealed
<1>4. DOMAIN def = AppFields /\ def.groups = H /\ def.routes = appDef.routes /\ def.middleware = appDef.middleware
  <2> HIDE DEF x
  <2> QED BY <1>1, <1>2 DEF AppFields, GroupFields
<1>5. IsMore(G[g], x, y) /\ IsReplaced(G, g, y, H)
  BY DEF IsMore, IsReplaced
<1> HIDE DEF H, y, x, def
<1>6. /\ GroupInv(H) /\ Len(H) = Len(G) /\ GivenTo(H, 0) = GivenTo(G, 0)
      /\ \A n \in 1..Len(G) : IsSealed(G[n]) => IsSealed(H[n]) /\ GivenTo(H, n) = GivenTo(G, n)
  BY <1>1, <1>3, <1>5, GivenMore
<1>7. RouteInv(H, appDef.routes)
  BY <1>1, <1>2, <1>6, RoutesKept
<1>8. /\ scriptCalls' \in 0..MaxCalls /\ appDef' = def /\ Len(appDef.routes) \in Nat /\ Len(appDef.routes) < scriptCalls'
  BY <1>3, CallFacts
<1>9. Len(appDef'.routes) <= scriptCalls'
  BY <1>4, <1>8
<1> QED BY <1>1, <1>4, <1>6, <1>7, <1>8, <1>9 DEF RegisterInv

LEMMA GroupMade ==
  ASSUME RegisterInv, NEW g \in 0..Len(appDef.groups), NEW prefix, MakeGroup(g, prefix)
  PROVE  RegisterInv'
<1> DEFINE G == appDef.groups
           H == Sealed(G, g, "group")
           x == [prefix |-> GroupOf(g).prefix \o TrimEnd(prefix), middleware |-> GroupOf(g).middleware,
                 sealed |-> FALSE, parent |-> g, given |-> <<>>]
           def == [appDef EXCEPT !.groups = Append(Sealed(@, g, "group"), x)]
<1>1. DOMAIN appDef = AppFields /\ GroupInv(G) /\ RouteInv(G, appDef.routes) /\ Listed(appDef.middleware)
  BY DEF RegisterInv
<1>2. CallApp(def)
  BY DEF MakeGroup
<1>3. DOMAIN def = AppFields /\ def.groups = Append(H, x) /\ def.routes = appDef.routes /\ def.middleware = appDef.middleware
  <2> HIDE DEF x
  <2> QED BY <1>1 DEF AppFields
<1>4. GroupOf(g).middleware = GivenTo(G, g) /\ Listed(GivenTo(G, g)) /\ Len(G) \in Nat
  BY GroupFacts
<1>5. /\ GroupInv(H) /\ Len(H) = Len(G) /\ (g # 0 => IsSealed(H[g]))
      /\ \A n \in 0..Len(G) : GivenTo(H, n) = GivenTo(G, n)
      /\ \A n \in 1..Len(G) : IsSealed(G[n]) => IsSealed(H[n])
  <2> HIDE DEF H
  <2>1. H = Sealed(G, g, "group")
    BY DEF H
  <2> QED BY <1>1, <2>1, SealKeeps
<1>6. DOMAIN x = GroupFields /\ x.parent = g /\ x.given = <<>> /\ x.middleware = GivenTo(H, g)
  BY <1>4, <1>5 DEF GroupFields
<1> HIDE DEF H, x, def
<1> DEFINE I == Append(H, x)
<1>7. /\ GroupInv(I) /\ Len(I) = Len(H) + 1
      /\ \A n \in 0..Len(H) : GivenTo(I, n) = GivenTo(H, n)
      /\ \A n \in 1..Len(H) : I[n] = H[n]
  <2>1. Listed(GivenTo(H, g)) /\ g \in 0..Len(H)
    BY <1>4, <1>5
  <2> QED BY <1>5, <1>6, <2>1, GroupAdded
<1> HIDE DEF I
<1>8. RouteInv(I, appDef.routes)
  <2>1. GivenTo(I, 0) = GivenTo(G, 0) /\ Len(I) \in Nat /\ Len(G) <= Len(I)
    BY <1>4, <1>5, <1>7
  <2>2. ASSUME NEW n \in 1..Len(G), IsSealed(G[n]) PROVE IsSealed(I[n]) /\ GivenTo(I, n) = GivenTo(G, n)
    <3>1. n \in 0..Len(G) /\ n \in 0..Len(H) /\ n \in 1..Len(H)
      BY <1>4, <1>5
    <3> QED BY <1>5, <1>7, <2>2, <3>1
  <2> QED BY <1>1, <1>4, <2>1, <2>2, RoutesKept
<1>9. /\ scriptCalls' \in 0..MaxCalls /\ appDef' = def /\ Len(appDef.routes) \in Nat /\ Len(appDef.routes) < scriptCalls'
  BY <1>2, CallFacts
<1>10. Len(appDef'.routes) <= scriptCalls'
  BY <1>3, <1>9
<1> QED BY <1>1, <1>3, <1>7, <1>8, <1>9, <1>10 DEF RegisterInv, I

LEMMA CallsMade ==
  ASSUME RegisterInv, Use \/ OnError \/ OnInvalid \/ DocApp \/ \E mount \in Mounts : MountStatic(mount)
  PROVE  RegisterInv'
<1>1. DOMAIN appDef = AppFields /\ Listed(appDef.middleware)
  BY DEF RegisterInv
<1>2. CASE Use
  <2> DEFINE m == Append(appDef.middleware, <<"app", scriptCalls>>)
             def == [appDef EXCEPT !.middleware = Append(@, <<"app", scriptCalls>>)]
  <2>1. Listed(m)
    BY <1>1, AppendFacts
  <2>2. CallApp(def) /\ def = [appDef EXCEPT !.middleware = m]
    BY <1>2 DEF Use
  <2> HIDE DEF m, def
  <2>3. DOMAIN def = AppFields /\ def.middleware = m /\ def.groups = appDef.groups /\ def.routes = appDef.routes
    BY <1>1, <2>2 DEF AppFields
  <2> QED BY <2>1, <2>2, <2>3, OtherCalls
<1>3. CASE OnError
  <2> DEFINE def == [appDef EXCEPT !.error = "app"]
  <2>1. CallApp(def)
    BY <1>3 DEF OnError
  <2>2. DOMAIN def = AppFields /\ def.middleware = appDef.middleware /\ def.groups = appDef.groups /\ def.routes = appDef.routes
    BY <1>1 DEF AppFields
  <2> HIDE DEF def
  <2> QED BY <1>1, <2>1, <2>2, OtherCalls
<1>4. CASE OnInvalid
  <2> DEFINE def == [appDef EXCEPT !.invalid = "app"]
  <2>1. CallApp(def)
    BY <1>4 DEF OnInvalid
  <2>2. DOMAIN def = AppFields /\ def.middleware = appDef.middleware /\ def.groups = appDef.groups /\ def.routes = appDef.routes
    BY <1>1 DEF AppFields
  <2> HIDE DEF def
  <2> QED BY <1>1, <2>1, <2>2, OtherCalls
<1>5. CASE DocApp
  <2> DEFINE def == [appDef EXCEPT !.doc = TRUE]
  <2>1. CallApp(def)
    BY <1>5 DEF DocApp
  <2>2. DOMAIN def = AppFields /\ def.middleware = appDef.middleware /\ def.groups = appDef.groups /\ def.routes = appDef.routes
    BY <1>1 DEF AppFields
  <2> HIDE DEF def
  <2> QED BY <1>1, <2>1, <2>2, OtherCalls
<1>6. ASSUME NEW mount \in Mounts, MountStatic(mount) PROVE RegisterInv'
  <2> DEFINE def == [appDef EXCEPT !.statics = Append(@, mount)]
  <2>1. CallApp(def)
    BY <1>6 DEF MountStatic
  <2>2. DOMAIN def = AppFields /\ def.middleware = appDef.middleware /\ def.groups = appDef.groups /\ def.routes = appDef.routes
    BY <1>1 DEF AppFields
  <2> HIDE DEF def
  <2> QED BY <1>1, <2>1, <2>2, OtherCalls
<1> QED BY <1>2, <1>3, <1>4, <1>5, <1>6

LEMMA EmptyAppFacts ==
  ASSUME NEW calls \in 0..MaxCalls, appDef' = EmptyApp, scriptCalls' = calls
  PROVE  RegisterInv'
<1>1. /\ DOMAIN EmptyApp = AppFields /\ EmptyApp.middleware = <<>> /\ EmptyApp.groups = <<>> /\ EmptyApp.routes = <<>>
  BY DEF EmptyApp, AppFields
<1>2. Len(<<>>) = 0 /\ Listed(<<>>) /\ 1..0 = {}
  BY ListedSingles
<1>3. GroupInv(<<>>) /\ RouteInv(<<>>, <<>>)
  BY <1>2 DEF GroupInv, RouteInv, Tree
<1> QED BY <1>1, <1>2, <1>3, RoutesConstants DEF RegisterInv

-----------------------------------------------------------------------------
(* What load() compiles *)

ValidateLink(route) == IF route.input THEN << <<"validate", route.call>> >> ELSE <<>>
Tail3(route) == OwnLink(route) \o ValidateLink(route) \o HandlerLink(route)

Linked(s, t) == s \o t

LEMMA LinkedEither ==
  ASSUME NEW s, NEW t, NEW u, Listed(s), Listed(t), Listed(u)
  PROVE  Linked(Linked(s, t), u) = Linked(s, Linked(t, u)) /\ Listed(Linked(s, t))
<1>1. (s \o t) \o u = s \o (t \o u) /\ Listed(s \o t)
  BY ConcatGroups, ConcatListed
<1> QED BY <1>1 DEF Linked

\* The middleware of the app, the groups and the route, joined either way.
LEMMA LinksJoined ==
  ASSUME NEW m, NEW g, NEW o, NEW v, NEW h, Listed(m), Listed(g), Listed(o), Listed(v), Listed(h)
  PROVE  Linked(Linked(Linked(m, Linked(g, o)), v), h) = Linked(Linked(m, g), Linked(Linked(o, v), h))
<1>1. Listed(Linked(m, g)) /\ Listed(Linked(o, v))
  BY LinkedEither
<1>2. Linked(m, Linked(g, o)) = Linked(Linked(m, g), o)
  BY LinkedEither
<1>3. Linked(Linked(Linked(m, g), o), v) = Linked(Linked(m, g), Linked(o, v))
  BY <1>1, LinkedEither
<1>4. Linked(Linked(Linked(m, g), Linked(o, v)), h) = Linked(Linked(m, g), Linked(Linked(o, v), h))
  BY <1>1, LinkedEither
<1> QED BY <1>2, <1>3, <1>4

LEMMA LinksListed ==
  ASSUME NEW route
  PROVE  Listed(OwnLink(route)) /\ Listed(ValidateLink(route)) /\ Listed(HandlerLink(route))
BY ListedSingles DEF OwnLink, ValidateLink, HandlerLink

LEMMA ComposedChain ==
  ASSUME RegisterInv, NEW i \in 1..Len(appDef.routes)
  PROVE  Compose(appDef.routes[i]) =
           appDef.middleware \o GivenTo(appDef.groups, appDef.routes[i].group) \o Tail3(appDef.routes[i])
<1> DEFINE r == appDef.routes[i]
           given == GivenTo(appDef.groups, r.group)
           h == <<"handler", r.call>>
<1>1. Listed(appDef.middleware) /\ Listed(given) /\ r.fns = (given \o OwnLink(r)) \o <<h>>
  BY DEF RegisterInv, RouteInv, HandlerLink
<1>2. Compose(r) = ((appDef.middleware \o Front(r.fns)) \o ValidateLink(r)) \o <<Last(r.fns)>>
  BY DEF Compose, ValidateLink
<1>3. Tail3(r) = (OwnLink(r) \o ValidateLink(r)) \o <<h>>
  BY DEF Tail3, HandlerLink
<1>4. Listed(OwnLink(r)) /\ Listed(ValidateLink(r)) /\ Listed(<<h>>)
  BY LinksListed DEF HandlerLink
<1> HIDE DEF r, given, h
<1>5. Listed(given \o OwnLink(r))
  BY <1>1, <1>4, ConcatListed
<1>6. Front(r.fns) = given \o OwnLink(r) /\ Last(r.fns) = h
  BY <1>1, <1>5, FrontAndLast
<1>7. ((appDef.middleware \o (given \o OwnLink(r))) \o ValidateLink(r)) \o <<h>> =
        (appDef.middleware \o given) \o ((OwnLink(r) \o ValidateLink(r)) \o <<h>>)
  <2> DEFINE m == appDef.middleware
             o == OwnLink(r)
             v == ValidateLink(r)
             k == <<h>>
  <2>1. Listed(m) /\ Listed(given) /\ Listed(o) /\ Listed(v) /\ Listed(k)
    BY <1>1, <1>4
  <2> HIDE DEF m, o, v, k
  <2>2. Linked(Linked(Linked(m, Linked(given, o)), v), k) = Linked(Linked(m, given), Linked(Linked(o, v), k))
    BY <2>1, LinksJoined
  <2> QED BY <2>2 DEF m, o, v, k, Linked
<1>8. Compose(r) = (appDef.middleware \o given) \o Tail3(r)
  BY <1>2, <1>3, <1>6, <1>7
<1> QED BY <1>8 DEF r, given

LEMMA ChainsLoaded ==
  ASSUME RegisterInv, LoadApp
  PROVE  ChainsAreComplete'
<1>1. appState' = CompiledApp /\ Listed(appDef.routes)
  BY DEF LoadApp, RegisterInv, RouteInv
<1>2. DOMAIN appDef.routes = 1..Len(appDef.routes)
  BY <1>1, ListFacts
<1>3. /\ appState'.def = appDef
      /\ appState'.chains = [i \in DOMAIN appDef.routes |-> Chain(appDef.routes[i])]
  BY <1>1 DEF CompiledApp
<1>4. ASSUME NEW i \in DOMAIN appState'.chains
      PROVE  appState'.chains[i].fns =
               appState'.def.middleware \o GivenTo(appState'.def.groups, appState'.def.routes[i].group) \o Tail3(appState'.def.routes[i])
  <2>1. i \in 1..Len(appDef.routes) /\ i \in DOMAIN appDef.routes
    BY <1>2, <1>3
  <2>2. appState'.chains[i] = Chain(appDef.routes[i])
    BY <1>3, <2>1
  <2>3. appState'.chains[i].fns = Compose(appDef.routes[i])
    BY <2>2 DEF Chain
  <2> QED BY <1>3, <2>1, <2>3, ComposedChain
<1> QED BY <1>4 DEF ChainsAreComplete, Tail3, OwnLink, ValidateLink, HandlerLink

-----------------------------------------------------------------------------
(* The paths of groups and routes *)

\* What is left of a path is a sequence again.
LEMMA TrimmedListed ==
  ASSUME NEW path, Listed(path)
  PROVE  Listed(TrimEnd(path))
<1> DEFINE N == Len(path)
           Blank(n) == \A i \in n + 1..N : path[i] = Plain("")
           T == {n \in Nat : n <= N /\ Blank(n)}
<1>1. N \in Nat
  BY ListFacts
<1> HIDE DEF N
<1>2. N + 1..N = {}
  BY <1>1
<1>3. Blank(N)
  BY <1>2
<1>4. T \in SUBSET Nat /\ T # {}
  <2> HIDE DEF Blank
  <2> QED BY <1>1, <1>3
<1>5. \E n \in 0..N : (\A i \in n + 1..N : path[i] = Plain("")) /\ (n > 0 => path[n] # Plain(""))
  <2> HIDE DEF T, Blank
  <2>1. PICK n \in T : \A m \in T : n <= m
    BY <1>4, LeastNatural
  <2>2. n \in Nat /\ n <= N /\ Blank(n)
    BY <2>1 DEF T
  <2>3. ASSUME n > 0, path[n] = Plain("") PROVE FALSE
    <3>1. n - 1 \in Nat /\ n - 1 <= N /\ n \in 1..N
      <4>1. n > 0 /\ n \in Nat /\ n <= N
        BY <2>2, <2>3
      <4> QED BY <1>1, <4>1
    <3>2. \A i \in (n - 1) + 1..N : i = n \/ i \in n + 1..N
      BY <1>1, <3>1
    <3>3. Blank(n - 1)
      BY <2>2, <2>3, <3>2 DEF Blank
    <3>4. n - 1 \in T
      BY <3>1, <3>3 DEF T
    <3> QED BY <2>1, <3>1, <3>4
  <2>4. n \in 0..N
    BY <1>1, <2>2
  <2> QED BY <2>2, <2>3, <2>4 DEF Blank
<1>6. PICK m \in 0..N : TrimEnd(path) = SubSeq(path, 1, m)
  BY <1>5 DEF TrimEnd, N
<1>7. PICK S : path \in Seq(S)
  BY DEF Listed
<1>8. SubSeq(path, 1, m) \in Seq(S)
  <2>1. \A i \in 1..m : i \in 1..N
    BY <1>1, <1>6
  <2> QED BY <1>1, <1>6, <1>7, <2>1 DEF N
<1> QED BY <1>6, <1>8 DEF Listed

Words(path, k, w) ==
  [n \in 0..k |-> IF n = 0 THEN <<>> ELSE IF path[n].name = "" THEN w[n - 1] ELSE Append(w[n - 1], path[n].name)]

LEMMA WordsExist ==
  ASSUME NEW path, NEW k \in Nat
  PROVE  \E w : w = Words(path, k, w)
<1> DEFINE Bad == {m \in Nat : ~\E w : w = Words(path, m, w)}
<1> SUFFICES ASSUME Bad # {} PROVE FALSE
  OBVIOUS
<1>1. PICK m \in Bad : \A j \in Bad : m <= j
  BY LeastNatural
<1>2. CASE m = 0
  <2> DEFINE z == [n \in 0..0 |-> <<>>]
             Step(n, s) == IF path[n].name = "" THEN s ELSE Append(s, path[n].name)
  <2>3. \A n \in 0..0 : n = 0
    OBVIOUS
  <2> HIDE DEF Step
  <2>4. z = [n \in 0..0 |-> IF n = 0 THEN <<>> ELSE Step(n, z[n - 1])]
    BY <2>3
  <2>1. z = Words(path, 0, z)
    BY <2>4 DEF Words, Step
  <2> QED BY <1>1, <1>2, <2>1
<1>3. CASE m # 0
  <2>1. m \in Nat /\ m - 1 \in Nat /\ m - 1 \notin Bad
    BY <1>1, <1>3
  <2>2. PICK f : f = Words(path, m - 1, f)
    BY <2>1
  <2> DEFINE Step(n, s) == IF path[n].name = "" THEN s ELSE Append(s, path[n].name)
             g == [n \in 0..m |-> IF n < m THEN f[n] ELSE Step(m, f[m - 1])]
  <2>3. \A n \in 0..(m - 1) : f[n] = IF n = 0 THEN <<>> ELSE Step(n, f[n - 1])
    <3>1. \A n \in 0..(m - 1) : Words(path, m - 1, f)[n] = IF n = 0 THEN <<>> ELSE Step(n, f[n - 1])
      BY DEF Words
    <3> QED BY <2>2, <3>1
  <2> HIDE DEF Step
  <2>4. ASSUME NEW n \in 0..m PROVE g[n] = IF n = 0 THEN <<>> ELSE Step(n, g[n - 1])
    <3>1. CASE n = m
      <4>1. m \in 0..m /\ m - 1 \in 0..m /\ m - 1 < m /\ ~(m < m)
        BY <2>1
      <4>2. g[m] = Step(m, f[m - 1]) /\ g[m - 1] = f[m - 1]
        BY <4>1
      <4> QED BY <1>3, <3>1, <4>2
    <3>2. CASE n # m /\ n # 0
      <4>1. n \in 0..(m - 1) /\ n < m /\ n - 1 \in 0..m /\ n - 1 < m
        BY <2>1, <3>2
      <4>2. g[n] = f[n] /\ g[n - 1] = f[n - 1]
        BY <4>1
      <4> QED BY <2>3, <3>2, <4>1, <4>2
    <3>3. CASE n # m /\ n = 0
      <4>1. 0 \in 0..(m - 1) /\ 0 < m
        BY <1>3, <2>1
      <4>2. g[0] = f[0]
        BY <3>3, <4>1
      <4> QED BY <2>3, <3>3, <4>1, <4>2
    <3> QED BY <3>1, <3>2, <3>3
  <2>5. g = [n \in 0..m |-> g[n]]
    OBVIOUS
  <2> HIDE DEF g
  <2>6. g = [n \in 0..m |-> IF n = 0 THEN <<>> ELSE Step(n, g[n - 1])]
    BY <2>4, <2>5
  <2>7. g = Words(path, m, g)
    BY <2>6 DEF Words, Step
  <2> QED BY <1>1, <2>7
<1> QED BY <1>2, <1>3

LEMMA WordsListed ==
  ASSUME NEW path, Listed(path)
  PROVE  Listed(WordsOf(path))
<1> DEFINE N == Len(path)
           w == CHOOSE f : f = Words(path, N, f)
<1>1. N \in Nat
  BY ListFacts
<1>2. WordsOf(path) = w[N]
  BY DEF WordsOf, Words
<1>3. w = Words(path, N, w)
  BY <1>1, WordsExist
<1> HIDE DEF w
<1>4. \A n \in 0..N : w[n] = IF n = 0 THEN <<>> ELSE IF path[n].name = "" THEN w[n - 1] ELSE Append(w[n - 1], path[n].name)
  <2>1. \A n \in 0..N : Words(path, N, w)[n] =
          IF n = 0 THEN <<>> ELSE IF path[n].name = "" THEN w[n - 1] ELSE Append(w[n - 1], path[n].name)
    BY DEF Words
  <2> QED BY <1>3, <2>1
<1> DEFINE Bad == {n \in Nat : n <= N /\ ~Listed(w[n])}
<1>5. ASSUME Bad # {} PROVE FALSE
  <2>1. PICK m \in Bad : \A j \in Bad : m <= j
    BY <1>5, LeastNatural
  <2>2. CASE m = 0
    <3>1. 0 \in 0..N
      BY <1>1
    <3> QED BY <1>4, <2>1, <2>2, <3>1, ListedSingles
  <2>3. CASE m # 0
    <3>1. m - 1 \in 0..N /\ m - 1 \notin Bad /\ m \in 0..N
      BY <1>1, <2>1, <2>3
    <3>2. Listed(w[m - 1])
      BY <3>1
    <3>3. Listed(Append(w[m - 1], path[m].name))
      BY <3>2, AppendFacts
    <3>4. w[m] = w[m - 1] \/ w[m] = Append(w[m - 1], path[m].name)
      BY <1>4, <2>3, <3>1
    <3> QED BY <2>1, <3>2, <3>3, <3>4
  <2> QED BY <2>2, <2>3
<1>6. N \in 0..N
  BY <1>1
<1> QED BY <1>2, <1>5, <1>6

LEMMA DefaultIdListed ==
  ASSUME NEW route, Listed(route.path)
  PROVE  Listed(DefaultId(route))
<1> DEFINE w == IF WordsOf(route.path) = <<>> THEN <<"root">> ELSE WordsOf(route.path)
<1>1. Listed(w) /\ Listed(<<route.method>>)
  BY WordsListed, ListedSingles
<1>2. DefaultId(route) = <<route.method>> \o w
  BY DEF DefaultId
<1> HIDE DEF w
<1> QED BY <1>1, <1>2, ConcatListed

\* What the router is given are paths.
PathInv(groups, defs) ==
  /\ \A n \in 1..Len(groups) : Listed(groups[n].prefix)
  /\ \A i \in 1..Len(defs) : Listed(defs[i].path) /\ Listed(defs[i].doc.id)

LEMMA SealKeepsPrefixes ==
  ASSUME NEW G, GroupInv(G), NEW g \in 0..Len(G), NEW by, NEW H, H = Sealed(G, g, by)
  PROVE  /\ Listed(H) /\ Len(H) = Len(G) /\ Len(G) \in Nat
         /\ \A n \in 1..Len(G) : H[n].prefix = G[n].prefix
<1>1. Listed(G) /\ Len(G) \in Nat
  BY ListFacts DEF GroupInv
<1>2. CASE g = 0
  BY <1>1, <1>2 DEF Sealed, NoGroup
<1>3. CASE g # 0
  <2>1. g \in 1..Len(G) /\ DOMAIN G = 1..Len(G)
    BY <1>1, <1>3, ListFacts
  <2> DEFINE x == [G[g] EXCEPT !.sealed = TRUE]
  <2>2. H = [G EXCEPT ![g] = x]
    BY <1>3, <2>1 DEF Sealed, NoGroup
  <2>3. x.prefix = G[g].prefix
    BY <2>1 DEF GroupInv, GroupFields
  <2> HIDE DEF x
  <2>4. Listed(H) /\ Len(H) = Len(G) /\ H[g] = x /\ \A n \in 1..Len(G) : n # g => H[n] = G[n]
    <3>1. IsReplaced(G, g, x, H)
      BY <2>2 DEF IsReplaced
    <3> QED BY <1>1, <2>1, <3>1, ListedExcept
  <2> QED BY <1>1, <2>3, <2>4
<1> QED BY <1>2, <1>3

LEMMA PrefixListed ==
  ASSUME RegisterInv, PathInv(appDef.groups, appDef.routes), NEW g \in 0..Len(appDef.groups)
  PROVE  Listed(GroupOf(g).prefix)
<1>1. Len(appDef.groups) \in Nat
  BY DEF RegisterInv, GroupInv, Tree
<1>2. CASE g = 0
  BY <1>2, ListedSingles DEF GroupOf, NoGroup
<1>3. CASE g # 0
  <2>1. g \in 1..Len(appDef.groups)
    BY <1>1, <1>3
  <2> QED BY <1>3, <2>1 DEF GroupOf, NoGroup, PathInv
<1> QED BY <1>2, <1>3

LEMMA PathRegistered ==
  ASSUME RegisterInv, PathInv(appDef.groups, appDef.routes), NEW g \in 0..Len(appDef.groups), NEW e \in Endpoints, RegisterRoute(g, e)
  PROVE  PathInv(appDef'.groups, appDef'.routes)
<1> DEFINE G == appDef.groups
           H == Sealed(G, g, "route")
           own == IF e.own THEN << <<"own", scriptCalls>> >> ELSE <<>>
           route == [method |-> e.method, path |-> GroupOf(g).prefix \o e.path,
                     fns |-> GroupOf(g).middleware \o own \o << <<"handler", scriptCalls>> >>,
                     input |-> e.input, doc |-> e.doc, limited |-> e.limited, error |-> e.error, invalid |-> e.invalid, group |-> g,
                     call |-> scriptCalls, own |-> e.own]
           old == appDef.routes
           new == Append(old, route)
           defs == IF e.valid THEN new ELSE old
           def == [appDef EXCEPT !.groups = H, !.routes = IF e.valid THEN Append(@, route) ELSE @]
<1>1. DOMAIN appDef = AppFields /\ GroupInv(G) /\ Listed(old)
  BY DEF RegisterInv, RouteInv
<1>2. appDef' = def
  BY DEF RegisterRoute, CallApp
<1>3. def.groups = H /\ def.routes = defs
  <2> HIDE DEF H, route
  <2> QED BY <1>1 DEF AppFields
<1>4. route.path = GroupOf(g).prefix \o e.path /\ route.doc.id = e.doc.id
  OBVIOUS
<1> HIDE DEF H, route, def
<1>5. Listed(route.path) /\ Listed(route.doc.id)
  <2>1. Listed(e.path) /\ Listed(e.doc.id) /\ Listed(GroupOf(g).prefix)
    BY ScriptArguments, PrefixListed DEF Listed
  <2> QED BY <1>4, <2>1, ConcatListed
<1>6. Len(H) = Len(G) /\ Len(G) \in Nat /\ \A n \in 1..Len(G) : H[n].prefix = G[n].prefix
  <2>1. H = Sealed(G, g, "route")
    BY DEF H
  <2> QED BY <1>1, <2>1, SealKeepsPrefixes
<1>7. Listed(new) /\ Len(new) = Len(old) + 1 /\ (\A i \in 1..Len(old) : new[i] = old[i]) /\ new[Len(old) + 1] = route /\ Len(old) \in Nat
  <2> HIDE DEF old
  <2>1. Len(old) \in Nat
    BY <1>1, ListFacts
  <2> QED BY <1>1, <2>1, AppendFacts
<1> HIDE DEF new
<1>8. \A i \in 1..Len(new) : i \in 1..Len(old) \/ i = Len(old) + 1
  BY <1>7
<1>9. \A i \in 1..Len(new) : Listed(new[i].path) /\ Listed(new[i].doc.id)
  <2>1. \A i \in 1..Len(old) : Listed(old[i].path) /\ Listed(old[i].doc.id)
    BY DEF PathInv
  <2> QED BY <1>5, <1>7, <1>8, <2>1
<1>10. \A i \in 1..Len(defs) : Listed(defs[i].path) /\ Listed(defs[i].doc.id)
  <2>1. \A i \in 1..Len(old) : Listed(old[i].path) /\ Listed(old[i].doc.id)
    BY DEF PathInv
  <2>2. CASE e.valid
    BY <1>9, <2>2
  <2>3. CASE ~e.valid
    BY <2>1, <2>3
  <2> QED BY <2>2, <2>3
<1>11. \A n \in 1..Len(H) : Listed(H[n].prefix)
  BY <1>6 DEF PathInv
<1> HIDE DEF defs
<1> QED BY <1>2, <1>3, <1>10, <1>11 DEF PathInv

LEMMA PathUsed ==
  ASSUME RegisterInv, PathInv(appDef.groups, appDef.routes), NEW g \in 1..Len(appDef.groups), UseInGroup(g)
  PROVE  PathInv(appDef'.groups, appDef'.routes)
<1> DEFINE G == appDef.groups
           x == <<"group", scriptCalls>>
           y == [G[g] EXCEPT !.middleware = Append(@, x), !.given = Append(@, x)]
           H == [G EXCEPT ![g] = y]
           def == [appDef EXCEPT !.groups[g].middleware = Append(@, x), !.groups[g].given = Append(@, x)]
<1>1. DOMAIN appDef = AppFields /\ GroupInv(G)
  BY DEF RegisterInv
<1>2. Listed(G) /\ DOMAIN G = 1..Len(G) /\ Len(G) \in Nat /\ DOMAIN G[g] = GroupFields
  BY <1>1, ListFacts DEF GroupInv
<1>3. appDef' = def
  BY DEF UseInGroup, CallApp
<1>4. def.groups = H /\ def.routes = appDef.routes
  <2> HIDE DEF x
  <2> QED BY <1>1, <1>2 DEF AppFields, GroupFields
<1>5. IsReplaced(G, g, y, H) /\ y.prefix = G[g].prefix
  BY <1>2 DEF IsReplaced, GroupFields
<1> HIDE DEF H, y, x, def
<1>6. Len(H) = Len(G) /\ H[g] = y /\ \A n \in 1..Len(G) : n # g => H[n] = G[n]
  BY <1>2, <1>5, ListedExcept
<1>7. \A n \in 1..Len(H) : Listed(H[n].prefix)
  BY <1>5, <1>6 DEF PathInv
<1> QED BY <1>3, <1>4, <1>7 DEF PathInv

LEMMA PathMade ==
  ASSUME RegisterInv, PathInv(appDef.groups, appDef.routes), NEW g \in 0..Len(appDef.groups), NEW prefix \in GroupPrefixes, MakeGroup(g, prefix)
  PROVE  PathInv(appDef'.groups, appDef'.routes)
<1> DEFINE G == appDef.groups
           H == Sealed(G, g, "group")
           x == [prefix |-> GroupOf(g).prefix \o TrimEnd(prefix), middleware |-> GroupOf(g).middleware,
                 sealed |-> FALSE, parent |-> g, given |-> <<>>]
           def == [appDef EXCEPT !.groups = Append(Sealed(@, g, "group"), x)]
           I == Append(H, x)
<1>1. DOMAIN appDef = AppFields /\ GroupInv(G)
  BY DEF RegisterInv
<1>2. appDef' = def
  BY DEF MakeGroup, CallApp
<1>3. def.groups = I /\ def.routes = appDef.routes
  <2> HIDE DEF x
  <2> QED BY <1>1 DEF AppFields
<1>4. x.prefix = GroupOf(g).prefix \o TrimEnd(prefix)
  OBVIOUS
<1> HIDE DEF H, x, def
<1>5. Listed(x.prefix)
  <2>1. Listed(prefix) /\ Listed(GroupOf(g).prefix)
    BY ScriptArguments, PrefixListed DEF Listed
  <2>2. Listed(TrimEnd(prefix))
    BY <2>1, TrimmedListed
  <2> QED BY <1>4, <2>1, <2>2, ConcatListed
<1>6. Listed(H) /\ Len(H) = Len(G) /\ Len(G) \in Nat /\ \A n \in 1..Len(G) : H[n].prefix = G[n].prefix
  <2>1. H = Sealed(G, g, "group")
    BY DEF H
  <2> QED BY <1>1, <2>1, SealKeepsPrefixes
<1>7. Len(I) = Len(H) + 1 /\ (\A n \in 1..Len(H) : I[n] = H[n]) /\ I[Len(H) + 1] = x
  BY <1>6, AppendFacts
<1> HIDE DEF I
<1>8. \A n \in 1..Len(I) : n \in 1..Len(H) \/ n = Len(H) + 1
  BY <1>6, <1>7
<1>9. \A n \in 1..Len(I) : Listed(I[n].prefix)
  <2>1. \A n \in 1..Len(H) : Listed(H[n].prefix)
    BY <1>6 DEF PathInv
  <2> QED BY <1>5, <1>7, <1>8, <2>1
<1> QED BY <1>2, <1>3, <1>9 DEF PathInv

LEMMA PathKept ==
  ASSUME RegisterInv, PathInv(appDef.groups, appDef.routes),
         Use \/ OnError \/ OnInvalid \/ DocApp \/ \E mount \in Mounts : MountStatic(mount)
  PROVE  PathInv(appDef'.groups, appDef'.routes)
<1>1. DOMAIN appDef = AppFields
  BY DEF RegisterInv
<1>2. appDef'.groups = appDef.groups /\ appDef'.routes = appDef.routes
  BY <1>1 DEF Use, OnError, OnInvalid, DocApp, MountStatic, CallApp, AppFields
<1> QED BY <1>2

LEMMA EmptyPaths ==
  PathInv(EmptyApp.groups, EmptyApp.routes)
<1>1. EmptyApp.groups = <<>> /\ EmptyApp.routes = <<>> /\ Len(<<>>) = 0 /\ 1..0 = {}
  BY DEF EmptyApp
<1> QED BY <1>1 DEF PathInv

-----------------------------------------------------------------------------
(* The operation ids *)

\* One of the numbers is free: there are more of them than ids.
LEMMA FreeNumberFound ==
  ASSUME NEW base, Listed(base), NEW ids, IsFiniteSet(ids), Cardinality(ids) <= MaxCalls
  PROVE  \A id \in ids : id[1] # Append(base, Numerals[FreeNumber(base, ids)])
<1> DEFINE N == Cardinality(ids)
           Named(n) == Append(base, Numerals[n])
           Free(n) == \A id \in ids : id[1] # Named(n)
           T == {n \in Nat : 2 <= n /\ n <= N + 2 /\ Free(n)}
<1>1. N \in Nat /\ MaxCalls \in Nat /\ N <= MaxCalls
  BY FS_CardinalityType, RoutesConstants
<1>2. T \in SUBSET Nat
  OBVIOUS
<1> HIDE DEF N
<1>3. ASSUME NEW x \in 2..N + 2, NEW y \in 2..N + 2, x # y PROVE Named(x) # Named(y)
  <2>1. x \in 2..MaxCalls + 2 /\ y \in 2..MaxCalls + 2
    BY <1>1
  <2>2. Numerals[x] # Numerals[y]
    BY <1>3, <2>1, NumeralsDiffer
  <2>3. Named(x)[Len(base) + 1] = Numerals[x] /\ Named(y)[Len(base) + 1] = Numerals[y]
    BY AppendFacts
  <2> QED BY <2>2, <2>3
<1> HIDE DEF Named
<1>4. ASSUME T = {} PROVE FALSE
  <2> DEFINE D == 2..N + 2
             f == [n \in D |-> CHOOSE id \in ids : id[1] = Named(n)]
  <2>1. \A n \in D : n \in Nat /\ 2 <= n /\ n <= N + 2
    BY <1>1
  <2>2. \A n \in D : \E id \in ids : id[1] = Named(n)
    BY <1>4, <2>1
  <2>3. IsFiniteSet(D) /\ Cardinality(D) = N + 1
    <3>1. 2 \in Int /\ N + 2 \in Int /\ ~(2 > N + 2) /\ (N + 2) - 2 + 1 = N + 1
      BY <1>1
    <3> QED BY <3>1, FS_Interval
  <2> HIDE DEF D
  <2>4. \A n \in D : f[n] \in ids /\ f[n][1] = Named(n)
    BY <2>2
  <2>5. f \in [D -> ids]
    BY <2>4
  <2> HIDE DEF f
  <2>6. Cardinality(ids) < Cardinality(D)
    BY <1>1, <2>3 DEF N
  <2>7. PICK x, y \in D : x # y /\ f[x] = f[y]
    BY <2>3, <2>5, <2>6, FS_PigeonHole
  <2>8. Named(x) = Named(y)
    BY <2>4, <2>7
  <2> QED BY <1>3, <2>7, <2>8 DEF D
<1>5. PICK n \in T : \A m \in T : n <= m
  BY <1>2, <1>4, LeastNatural
<1>6. n \in 2..N + 2 /\ Free(n) /\ n \in Nat
  BY <1>1, <1>5
<1>7. \A k \in 2..n - 1 : \E id \in ids : id[1] = Named(k)
  <2> SUFFICES ASSUME NEW k \in 2..n - 1, ~\E id \in ids : id[1] = Named(k) PROVE FALSE
    OBVIOUS
  <2>1. k \in Nat /\ 2 <= k /\ k <= N + 2 /\ ~(n <= k)
    BY <1>1, <1>6
  <2>2. k \in T
    BY <2>1
  <2> QED BY <1>5, <2>1, <2>2
<1> DEFINE Is(k) == /\ \A id \in ids : id[1] # Named(k)
                    /\ \A j \in 2..k - 1 : \E id \in ids : id[1] = Named(j)
<1>8. FreeNumber(base, ids) = CHOOSE k \in 2..N + 2 : Is(k)
  BY Zenon DEF FreeNumber, Named, N
<1>9. n \in 2..N + 2 /\ Is(n)
  BY <1>6, <1>7
<1> HIDE DEF Is
<1>10. Is(FreeNumber(base, ids))
  BY <1>8, <1>9
<1> QED BY <1>10 DEF Is, Named

NoClaims == [ids |-> {}, given |-> <<>>, ok |-> TRUE]
Visible(route) == route.doc.hidden = FALSE
Taken(ids, x) == \E id \in ids : id[1] = x

\* After n routes: what a visible one was given is taken, once.
ClaimInv(defs, n, acc) ==
  /\ DOMAIN acc = {"ids", "given", "ok"} /\ IsFiniteSet(acc.ids) /\ Cardinality(acc.ids) <= n
  /\ Listed(acc.given) /\ Len(acc.given) = n
  /\ \A i \in 1..n : Visible(defs[i]) => Taken(acc.ids, acc.given[i])
  /\ \A i, j \in 1..n : i # j /\ Visible(defs[i]) /\ Visible(defs[j]) => acc.given[i] # acc.given[j]

IsAppended(s, x, t) == t = Append(s, x)

LEMMA AppendedFacts ==
  ASSUME NEW s, Listed(s), NEW x, NEW t, IsAppended(s, x, t)
  PROVE  Listed(t) /\ Len(t) = Len(s) + 1 /\ (\A i \in 1..Len(s) : t[i] = s[i]) /\ t[Len(s) + 1] = x
<1>1. /\ Listed(Append(s, x)) /\ Len(Append(s, x)) = Len(s) + 1
      /\ (\A i \in 1..Len(s) : Append(s, x)[i] = s[i]) /\ Append(s, x)[Len(s) + 1] = x
  BY AppendFacts
<1> QED BY <1>1 DEF IsAppended

\* One more route, whose id is new or which has none in the document.
LEMMA OneMoreClaim ==
  ASSUME NEW defs, NEW n \in Nat, NEW acc, ClaimInv(defs, n, acc), NEW x, NEW new,
         DOMAIN new = {"ids", "given", "ok"}, IsAppended(acc.given, x, new.given),
         IsFiniteSet(new.ids), Cardinality(new.ids) <= n + 1, acc.ids \subseteq new.ids,
         Visible(defs[n + 1]) => ~Taken(acc.ids, x) /\ Taken(new.ids, x)
  PROVE  ClaimInv(defs, n + 1, new)
<1>1. Listed(acc.given) /\ Len(acc.given) = n
  BY DEF ClaimInv
<1>2. Listed(new.given) /\ Len(new.given) = n + 1 /\ (\A i \in 1..n : new.given[i] = acc.given[i]) /\ new.given[n + 1] = x
  BY <1>1, AppendedFacts
<1>3. \A i \in 1..n + 1 : i \in 1..n \/ i = n + 1
  OBVIOUS
<1>4. \A y : Taken(acc.ids, y) => Taken(new.ids, y)
  BY DEF Taken
<1>5. \A i \in 1..n : Visible(defs[i]) => Taken(acc.ids, new.given[i])
  BY <1>2 DEF ClaimInv
<1>6. \A i \in 1..n + 1 : Visible(defs[i]) => Taken(new.ids, new.given[i])
  BY <1>2, <1>3, <1>4, <1>5
<1>7. ASSUME NEW i \in 1..n + 1, NEW j \in 1..n + 1, i # j, Visible(defs[i]), Visible(defs[j])
      PROVE  new.given[i] # new.given[j]
  <2>1. CASE i \in 1..n /\ j \in 1..n
    <3>1. acc.given[i] # acc.given[j]
      BY <1>7, <2>1 DEF ClaimInv
    <3> QED BY <1>2, <2>1, <3>1
  <2>2. CASE i = n + 1 /\ j \in 1..n
    BY <1>2, <1>5, <1>7, <2>2
  <2>3. CASE i \in 1..n /\ j = n + 1
    BY <1>2, <1>5, <1>7, <2>3
  <2> QED BY <1>3, <1>7, <2>1, <2>2, <2>3
<1> QED BY <1>2, <1>6, <1>7 DEF ClaimInv

LEMMA ClaimStep ==
  ASSUME NEW defs, NEW n \in Nat, n < MaxCalls, NEW acc, ClaimInv(defs, n, acc),
         Listed(defs[n + 1].path), Listed(defs[n + 1].doc.id)
  PROVE  ClaimInv(defs, n + 1, Claim(acc, defs[n + 1]))
<1> DEFINE r == defs[n + 1]
           explicit == r.doc.id # <<>>
           wanted == IF explicit THEN r.doc.id ELSE DefaultId(r)
           taken == {id \in acc.ids : id[1] = wanted}
           given == IF taken = {} THEN wanted ELSE Append(wanted, Numerals[FreeNumber(wanted, acc.ids)])
           ok == acc.ok /\ (taken = {} \/ (~explicit /\ \A id \in taken : ~id[2]))
           ids == acc.ids \cup {<<given, explicit>>}
           new == Claim(acc, r)
<1>1. Listed(wanted)
  BY DefaultIdListed
<1>2. new = IF r.doc.hidden THEN [acc EXCEPT !.given = Append(@, wanted)]
            ELSE [ids |-> ids, given |-> Append(acc.given, given), ok |-> ok]
  BY DEF Claim
<1>3. /\ DOMAIN acc = {"ids", "given", "ok"} /\ IsFiniteSet(acc.ids) /\ Cardinality(acc.ids) <= n
      /\ Cardinality(acc.ids) \in Nat /\ Cardinality(acc.ids) <= MaxCalls
  BY FS_CardinalityType, RoutesConstants DEF ClaimInv
<1>4. ~Taken(acc.ids, given)
  <2> HIDE DEF wanted
  <2>1. CASE taken = {}
    BY <2>1 DEF Taken
  <2>2. CASE taken # {}
    <3>1. \A id \in acc.ids : id[1] # Append(wanted, Numerals[FreeNumber(wanted, acc.ids)])
      BY <1>1, <1>3, FreeNumberFound
    <3> QED BY <2>2, <3>1 DEF Taken
  <2> QED BY <2>1, <2>2
<1> HIDE DEF new, wanted, explicit, given, ok
<1>5. CASE r.doc.hidden
  <2>1. new = [acc EXCEPT !.given = Append(@, wanted)]
    BY <1>2, <1>5
  <2>2. DOMAIN new = {"ids", "given", "ok"} /\ new.given = Append(acc.given, wanted) /\ new.ids = acc.ids
    <3> DEFINE longer == Append(acc.given, wanted)
    <3>1. new = [acc EXCEPT !.given = longer]
      BY <2>1
    <3> HIDE DEF longer
    <3>2. DOMAIN new = {"ids", "given", "ok"} /\ new.given = longer /\ new.ids = acc.ids
      BY <1>3, <3>1
    <3> QED BY <3>2 DEF longer
  <2>3. ~Visible(defs[n + 1])
    BY <1>5 DEF Visible
  <2>4. Cardinality(new.ids) <= n + 1 /\ IsFiniteSet(new.ids) /\ acc.ids \subseteq new.ids
    BY <1>3, <2>2
  <2>6. IsAppended(acc.given, wanted, new.given)
    BY <2>2 DEF IsAppended
  <2>5. ClaimInv(defs, n + 1, new)
    BY <2>2, <2>3, <2>4, <2>6, OneMoreClaim
  <2> QED BY <2>5 DEF new
<1>6. CASE ~r.doc.hidden
  <2>1. new = [ids |-> ids, given |-> Append(acc.given, given), ok |-> ok]
    BY <1>2, <1>6
  <2>2. IsFiniteSet(ids) /\ Cardinality(ids) <= n + 1 /\ acc.ids \subseteq ids
    <3> DEFINE e == <<given, explicit>>
    <3>1. ids = acc.ids \cup {e}
      OBVIOUS
    <3> HIDE DEF e, ids
    <3>2. IsFiniteSet(acc.ids \cup {e}) /\ Cardinality(acc.ids \cup {e}) = IF e \in acc.ids THEN Cardinality(acc.ids) ELSE Cardinality(acc.ids) + 1
      BY <1>3, FS_AddElement
    <3>3. Cardinality(acc.ids \cup {e}) <= n + 1
      BY <1>3, <3>2
    <3> QED BY <3>1, <3>2, <3>3
  <2>3. Taken(ids, given)
    <3>1. <<given, explicit>> \in ids /\ <<given, explicit>>[1] = given
      OBVIOUS
    <3> QED BY <3>1 DEF Taken
  <2> HIDE DEF ids
  <2>4. DOMAIN new = {"ids", "given", "ok"} /\ new.given = Append(acc.given, given) /\ new.ids = ids
    BY <2>1
  <2>6. IsAppended(acc.given, given, new.given)
    BY <2>4 DEF IsAppended
  <2>5. ClaimInv(defs, n + 1, new)
    BY <1>4, <2>2, <2>3, <2>4, <2>6, OneMoreClaim
  <2> QED BY <2>5 DEF new
<1> QED BY <1>5, <1>6

ClaimsOf(defs, k, c) == [n \in 0..k |-> IF n = 0 THEN NoClaims ELSE Claim(c[n - 1], defs[n])]

LEMMA ClaimsExist ==
  ASSUME NEW defs, NEW k \in Nat
  PROVE  \E c : c = ClaimsOf(defs, k, c)
<1> DEFINE Bad == {m \in Nat : ~\E c : c = ClaimsOf(defs, m, c)}
<1> SUFFICES ASSUME Bad # {} PROVE FALSE
  OBVIOUS
<1>1. PICK m \in Bad : \A j \in Bad : m <= j
  BY LeastNatural
<1>2. CASE m = 0
  <2> DEFINE z == [n \in 0..0 |-> NoClaims]
  <2>1. \A n \in 0..0 : n = 0
    OBVIOUS
  <2>2. z = [n \in 0..0 |-> IF n = 0 THEN NoClaims ELSE Claim(z[n - 1], defs[n])]
    BY <2>1
  <2>3. z = ClaimsOf(defs, 0, z)
    BY <2>2 DEF ClaimsOf
  <2> QED BY <1>1, <1>2, <2>3
<1>3. CASE m # 0
  <2>1. m \in Nat /\ m - 1 \in Nat /\ m - 1 \notin Bad
    BY <1>1, <1>3
  <2>2. PICK f : f = ClaimsOf(defs, m - 1, f)
    BY <2>1
  <2> DEFINE g == [n \in 0..m |-> IF n < m THEN f[n] ELSE Claim(f[m - 1], defs[m])]
  <2>3. \A n \in 0..(m - 1) : f[n] = IF n = 0 THEN NoClaims ELSE Claim(f[n - 1], defs[n])
    <3>1. \A n \in 0..(m - 1) : ClaimsOf(defs, m - 1, f)[n] = IF n = 0 THEN NoClaims ELSE Claim(f[n - 1], defs[n])
      BY DEF ClaimsOf
    <3> QED BY <2>2, <3>1
  <2>4. ASSUME NEW n \in 0..m PROVE g[n] = IF n = 0 THEN NoClaims ELSE Claim(g[n - 1], defs[n])
    <3>1. CASE n = m
      <4>1. m \in 0..m /\ m - 1 \in 0..m /\ m - 1 < m /\ ~(m < m)
        BY <2>1
      <4>2. g[m] = Claim(f[m - 1], defs[m]) /\ g[m - 1] = f[m - 1]
        BY <4>1
      <4> QED BY <1>3, <3>1, <4>2
    <3>2. CASE n # m /\ n # 0
      <4>1. n \in 0..(m - 1) /\ n < m /\ n - 1 \in 0..m /\ n - 1 < m
        BY <2>1, <3>2
      <4>2. g[n] = f[n] /\ g[n - 1] = f[n - 1]
        BY <4>1
      <4> QED BY <2>3, <3>2, <4>1, <4>2
    <3>3. CASE n # m /\ n = 0
      <4>1. 0 \in 0..(m - 1) /\ 0 < m
        BY <1>3, <2>1
      <4>2. g[0] = f[0]
        BY <3>3, <4>1
      <4> QED BY <2>3, <3>3, <4>1, <4>2
    <3> QED BY <3>1, <3>2, <3>3
  <2>5. g = [n \in 0..m |-> g[n]]
    OBVIOUS
  <2> HIDE DEF g
  <2>6. g = [n \in 0..m |-> IF n = 0 THEN NoClaims ELSE Claim(g[n - 1], defs[n])]
    BY <2>4, <2>5
  <2>7. g = ClaimsOf(defs, m, g)
    BY <2>6 DEF ClaimsOf
  <2> QED BY <1>1, <2>7
<1> QED BY <1>2, <1>3

LEMMA AllClaimed ==
  ASSUME NEW defs, Listed(defs), Len(defs) <= MaxCalls,
         \A i \in 1..Len(defs) : Listed(defs[i].path) /\ Listed(defs[i].doc.id)
  PROVE  ClaimInv(defs, Len(defs), ClaimedBy(defs))
<1> DEFINE N == Len(defs)
           c == CHOOSE f : f = ClaimsOf(defs, N, f)
<1>1. N \in Nat /\ N <= MaxCalls
  BY ListFacts
<1>2. ClaimedBy(defs) = c[N]
  BY DEF ClaimedBy, ClaimsOf, NoClaims
<1>3. c = ClaimsOf(defs, N, c)
  BY <1>1, ClaimsExist
<1> HIDE DEF c
<1>4. \A n \in 0..N : c[n] = IF n = 0 THEN NoClaims ELSE Claim(c[n - 1], defs[n])
  <2>1. \A n \in 0..N : ClaimsOf(defs, N, c)[n] = IF n = 0 THEN NoClaims ELSE Claim(c[n - 1], defs[n])
    BY DEF ClaimsOf
  <2> QED BY <1>3, <2>1
<1>5. \A i \in 1..N : Listed(defs[i].path) /\ Listed(defs[i].doc.id)
  OBVIOUS
<1> DEFINE Bad == {n \in Nat : n <= N /\ ~ClaimInv(defs, n, c[n])}
<1>6. ASSUME Bad # {} PROVE FALSE
  <2> HIDE DEF N
  <2>1. PICK m \in Bad : \A j \in Bad : m <= j
    BY <1>6, LeastNatural
  <2>2. CASE m = 0
    <3>1. c[0] = NoClaims
      BY <1>1, <1>4, 0 \in 0..N
    <3>2. DOMAIN NoClaims = {"ids", "given", "ok"} /\ NoClaims.ids = {} /\ NoClaims.given = <<>>
      BY DEF NoClaims
    <3>3. IsFiniteSet({}) /\ Cardinality({}) = 0 /\ Listed(<<>>) /\ Len(<<>>) = 0 /\ 1..0 = {}
      BY FS_EmptySet, ListedSingles
    <3>4. ClaimInv(defs, 0, NoClaims)
      BY <3>2, <3>3 DEF ClaimInv
    <3> QED BY <2>1, <2>2, <3>1, <3>4
  <2>3. CASE m # 0
    <3> DEFINE n == m - 1
    <3>1. n \in Nat /\ n + 1 = m /\ n < MaxCalls /\ n \notin Bad /\ n <= N /\ m \in 1..N /\ m \in 0..N
      BY <1>1, <2>1, <2>3, RoutesConstants
    <3>2. ClaimInv(defs, n, c[n])
      BY <3>1
    <3>3. Listed(defs[n + 1].path) /\ Listed(defs[n + 1].doc.id)
      BY <1>5, <3>1
    <3>4. c[m] = Claim(c[n], defs[n + 1])
      BY <1>4, <2>3, <3>1
    <3> HIDE DEF n
    <3>5. ClaimInv(defs, n + 1, Claim(c[n], defs[n + 1]))
      BY <3>1, <3>2, <3>3, ClaimStep
    <3> QED BY <2>1, <3>1, <3>4, <3>5
  <2> QED BY <2>2, <2>3
<1>7. ClaimInv(defs, N, c[N])
  <2> HIDE DEF N
  <2> QED BY <1>1, <1>6
<1> QED BY <1>2, <1>7

LEMMA IdsLoaded ==
  ASSUME RegisterInv, PathInv(appDef.groups, appDef.routes), LoadApp
  PROVE  OperationIdsDiffer'
<1> DEFINE defs == appDef.routes
           acc == ClaimedBy(defs)
<1>1. Listed(defs) /\ Len(defs) \in Nat /\ Len(defs) <= MaxCalls
  <2>1. Listed(defs) /\ Len(defs) <= scriptCalls /\ scriptCalls \in 0..MaxCalls
    BY DEF RegisterInv, RouteInv
  <2>2. Len(defs) \in Nat
    BY <2>1, ListFacts
  <2> QED BY <2>1, <2>2, RoutesConstants
<1>2. appState'.ids = acc.given /\ appState'.def.routes = defs
  BY DEF LoadApp, CompiledApp, Collected
<1>3. \A i \in 1..Len(defs) : Listed(defs[i].path) /\ Listed(defs[i].doc.id)
  BY DEF PathInv
<1> HIDE DEF defs, acc
<1>4. ClaimInv(defs, Len(defs), acc)
  BY <1>1, <1>3, AllClaimed DEF acc
<1>5. DOMAIN acc.given = 1..Len(defs)
  BY <1>4, ListFacts DEF ClaimInv
<1>6. \A i, j \in 1..Len(defs) : i # j /\ Visible(defs[i]) /\ Visible(defs[j]) => acc.given[i] # acc.given[j]
  BY <1>4 DEF ClaimInv
<1> QED BY <1>2, <1>5, <1>6 DEF OperationIdsDiffer, Visible

-----------------------------------------------------------------------------
(* Requests *)

\* What RequestsReachTheirRoute says of one answer.
OnlyCovered(table, req) ==
  \A i \in DOMAIN table : Fitting(table, i, req) /\ Serves(table[i][1], req.method) => Covered(table, i, req)
AllowServes(table, req, allow) ==
  \A method \in allow : \E i \in DOMAIN table : IsRouteFor(table, i, [req EXCEPT !.method = method])
Reached(a) ==
  /\ a.how.kind = "route" => /\ IsRouteFor(a.table, a.index, a.req)
                             /\ a.table[a.index] = <<a.chain.method, a.chain.path>>
  /\ a.how.kind # "route" => OnlyCovered(a.table, a.req)
  /\ AllowServes(a.table, a.req, a.how.allow)

LEMMA ReachedAll ==
  RequestsReachTheirRoute <=> \A a \in routed : Reached(a)
BY DEF RequestsReachTheirRoute, Reached, OnlyCovered, AllowServes

\* A request of a client, and one with another method.
IsRequest(req) == {"method", "path"} \subseteq DOMAIN req
LEMMA OtherMethod ==
  ASSUME NEW req, IsRequest(req), NEW method
  PROVE  [req EXCEPT !.method = method].method = method /\ [req EXCEPT !.method = method].path = req.path
BY DEF IsRequest

LEMMA TableFacts ==
  ASSUME NEW app
  PROVE  /\ DOMAIN Fingerprint(app) = DOMAIN app.chains
         /\ \A i \in DOMAIN app.chains : /\ Fingerprint(app)[i] = <<app.chains[i].method, app.chains[i].path>>
                                         /\ Fingerprint(app)[i][1] = app.chains[i].method
                                         /\ Fingerprint(app)[i][2] = app.chains[i].path
BY DEF Fingerprint

\* The routes at a path are those that fit and that nothing covers.
LEMMA AtPathFacts ==
  ASSUME NEW app, NEW req, NEW i \in DOMAIN app.chains
  PROVE  i \in AtPath(app, req.path) <=> Fitting(Fingerprint(app), i, req) /\ ~Covered(Fingerprint(app), i, req)
BY TableFacts DEF AtPath, Fitting, Covered

LEMMA LookupFacts ==
  ASSUME NEW app, NEW req, IsRequest(req), NEW f, f = Lookup(app, req), NEW table, table = Fingerprint(app)
  PROVE  /\ f.kind = "route" => f.index \in DOMAIN app.chains /\ IsRouteFor(table, f.index, req)
         /\ f.kind # "route" => OnlyCovered(table, req)
         /\ AllowServes(table, req, f.allow)
<1> DEFINE at == AtPath(app, req.path)
           of(method) == {i \in at : app.chains[i].method = method}
           found == IF of(req.method) # {} \/ req.method # "head" THEN of(req.method) ELSE of("get")
<1>1. DOMAIN table = DOMAIN app.chains /\ \A i \in DOMAIN app.chains : table[i][1] = app.chains[i].method
  BY TableFacts
<1>2. f = CASE found # {} -> [kind |-> "route", index |-> CHOOSE i \in found : TRUE, allow |-> {}]
            [] found = {} /\ at = {} -> [kind |-> "none", index |-> 0, allow |-> {}]
            [] OTHER -> [kind |-> IF req.method = "options" THEN "options" ELSE "method", index |-> 0,
                         allow |-> {app.chains[i].method : i \in at}]
  BY DEF Lookup
<1>3. at \subseteq DOMAIN app.chains
      /\ \A i \in DOMAIN app.chains : i \in at <=> Fitting(table, i, req) /\ ~Covered(table, i, req)
  BY AtPathFacts DEF AtPath
<1> HIDE DEF at
<1>4. \A i \in found : i \in at /\ Serves(table[i][1], req.method) /\ (table[i][1] # req.method => of(req.method) = {})
  BY <1>1, <1>3 DEF Serves
<1>5. \A i \in found : IsRouteFor(table, i, req)
  <2> SUFFICES ASSUME NEW i \in found PROVE IsRouteFor(table, i, req)
    OBVIOUS
  <2>1. i \in DOMAIN table /\ Fitting(table, i, req) /\ ~Covered(table, i, req) /\ Serves(table[i][1], req.method)
    BY <1>1, <1>3, <1>4
  <2>2. ASSUME NEW j \in DOMAIN table, Fitting(table, j, req), table[j][1] = req.method, table[i][1] # req.method
        PROVE  Covered(table, j, req)
    <3>1. of(req.method) = {}
      BY <1>4, <2>2
    <3> QED BY <1>1, <1>3, <2>2, <3>1
  <2> QED BY <2>1, <2>2 DEF IsRouteFor
<1>6. found = {} => OnlyCovered(table, req)
  <2> SUFFICES ASSUME found = {}, NEW i \in DOMAIN table, Fitting(table, i, req), Serves(table[i][1], req.method), i \in at
               PROVE  FALSE
    BY <1>1, <1>3 DEF OnlyCovered
  <2>1. i \in of(table[i][1])
    BY <1>1
  <2> QED BY <2>1 DEF Serves
<1>7. ASSUME NEW i \in at
      PROVE  \E j \in DOMAIN table : IsRouteFor(table, j, [req EXCEPT !.method = app.chains[i].method])
  <2> DEFINE other == [req EXCEPT !.method = app.chains[i].method]
  <2>1. other.method = app.chains[i].method /\ other.path = req.path
    BY OtherMethod
  <2> HIDE DEF other
  <2>2. i \in DOMAIN table /\ Fitting(table, i, other) /\ ~Covered(table, i, other) /\ table[i][1] = other.method
    BY <1>1, <1>3, <1>7, <2>1 DEF Fitting, Covered
  <2>3. IsRouteFor(table, i, other)
    BY <2>2 DEF IsRouteFor, Serves
  <2> QED BY <2>2, <2>3 DEF other
<1> HIDE DEF found
<1>8. CASE found # {}
  <2>1. f = [kind |-> "route", index |-> CHOOSE i \in found : TRUE, allow |-> {}]
    BY <1>2, <1>8
  <2>2. f.kind = "route" /\ f.index \in found /\ f.allow = {}
    BY <1>8, <2>1
  <2> QED BY <1>3, <1>4, <1>5, <2>2 DEF AllowServes
<1>9. CASE found = {} /\ at = {}
  <2>1. f = [kind |-> "none", index |-> 0, allow |-> {}]
    BY <1>2, <1>9
  <2>2. f.kind # "route" /\ f.allow = {}
    BY <2>1
  <2> QED BY <1>6, <1>9, <2>2 DEF AllowServes
<1>10. CASE found = {} /\ at # {}
  <2>1. f = [kind |-> IF req.method = "options" THEN "options" ELSE "method", index |-> 0,
             allow |-> {app.chains[i].method : i \in at}]
    BY <1>2, <1>10
  <2>2. f.kind # "route" /\ f.allow = {app.chains[i].method : i \in at}
    BY <2>1
  <2> QED BY <1>6, <1>7, <1>10, <2>2 DEF AllowServes
<1> QED BY <1>8, <1>9, <1>10

\* An answer without a chain says what the table has.
LEMMA OtherAnswers ==
  ASSUME NEW app, NEW req, IsRequest(req), NEW f, f = Lookup(app, req), f.kind # "route", NEW spa, NEW chain, NEW spent
  PROVE  Reached(Answered(app, req, StaticOr(app, req, f, spa), 0, chain, spent))
<1> DEFINE how == StaticOr(app, req, f, spa)
           a == Answered(app, req, how, 0, chain, spent)
<1>1. (how.kind = "file" /\ how.allow = {}) \/ (how.kind = f.kind /\ how.allow = f.allow)
  BY DEF StaticOr
<1>2. OnlyCovered(Fingerprint(app), req) /\ AllowServes(Fingerprint(app), req, f.allow)
  BY LookupFacts
<1> HIDE DEF how
<1>3. a.how = how /\ a.req = req /\ a.table = Fingerprint(app)
  BY DEF Answered
<1> HIDE DEF a
<1>4. a.how.kind # "route"
  BY <1>1, <1>3
<1>5. AllowServes(a.table, a.req, a.how.allow)
  BY <1>1, <1>2, <1>3 DEF AllowServes
<1>6. Reached(a)
  BY <1>2, <1>3, <1>4, <1>5 DEF Reached
<1> QED BY <1>6 DEF a, how

\* The request that was looked up, before its state is checked out.
RoutingInv ==
  routing # Nobody =>
    /\ pooled.loaded /\ IsRequest(routing.req)
    /\ IsRouteFor(Fingerprint(pooled), routing.index, routing.req)

LEMMA Asked ==
  ASSUME RequestsReachTheirRoute, RoutingInv, NEW req \in WebRequests, AskRoute(req)
  PROVE  RequestsReachTheirRoute' /\ RoutingInv'
<1> DEFINE found == Lookup(pooled, req)
<1>1. pooled.loaded /\ pooled' = pooled /\ IsRequest(req)
  BY ScriptArguments DEF AskRoute, IsRequest
<1>2. CASE found.kind = "route"
  <2>1. routing' = [req |-> req, index |-> found.index] /\ routed' = routed
    BY <1>2 DEF AskRoute
  <2> HIDE DEF found
  <2>2. IsRouteFor(Fingerprint(pooled), found.index, req)
    BY <1>1, <1>2, LookupFacts DEF found
  <2>3. Fingerprint(pooled)' = Fingerprint(pooled)
    BY <1>1 DEF Fingerprint
  <2>4. routing'.req = req /\ routing'.index = found.index
    BY <2>1
  <2>5. RoutingInv'
    BY <1>1, <2>2, <2>3, <2>4 DEF RoutingInv
  <2>6. RequestsReachTheirRoute'
    BY <2>1 DEF RequestsReachTheirRoute
  <2> QED BY <2>5, <2>6
<1>3. CASE found.kind # "route"
  <2> DEFINE a == Answered(pooled, req, StaticOr(pooled, req, found, found.kind = "none"), 0, NoChain, FALSE)
  <2>1. routed' = routed \cup {a} /\ routing' = routing
    BY <1>3 DEF AskRoute, AnsweredBy
  <2>2. Reached(a)
    BY <1>1, <1>3, OtherAnswers
  <2> HIDE DEF a
  <2>3. \A b \in routed' : Reached(b)
    BY <2>1, <2>2, ReachedAll
  <2>4. RequestsReachTheirRoute'
    BY <2>3 DEF RequestsReachTheirRoute, Reached, OnlyCovered, AllowServes
  <2>5. Fingerprint(pooled)' = Fingerprint(pooled)
    BY <1>1 DEF Fingerprint
  <2> QED BY <1>1, <2>1, <2>4, <2>5 DEF RoutingInv
<1> QED BY <1>2, <1>3

LEMMA Dispatched ==
  ASSUME RequestsReachTheirRoute, RoutingInv, Dispatch
  PROVE  RequestsReachTheirRoute' /\ RoutingInv'
<1> DEFINE req == routing.req
           own == Lookup(appState, req)
           index == IF SameRoutes THEN routing.index ELSE own.index
           spent == pooled.chains[routing.index].limited
           table == Fingerprint(appState)
<1>1. routing # Nobody /\ routing' = Nobody
  BY DEF Dispatch
<1>2. IsRequest(req) /\ IsRouteFor(Fingerprint(pooled), routing.index, req)
  BY <1>1 DEF RoutingInv
<1>3. \E a : routed' = routed \cup {a} /\ Reached(a)
  <2>1. CASE SameRoutes \/ own.kind = "route"
    <3> DEFINE a == Answered(appState, req, RouteAnswer, index, appState.chains[index], spent)
    <3>1. routed' = routed \cup {a}
      BY <2>1 DEF Dispatch, AnsweredBy
    <3>2. IsRouteFor(table, index, req)
      <4>1. CASE SameRoutes
        <5>1. index = routing.index /\ table = Fingerprint(pooled)
          BY <4>1 DEF SameRoutes
        <5> HIDE DEF index, req, table
        <5> QED BY <1>2, <5>1
      <4>2. CASE ~SameRoutes
        <5>1. index = own.index /\ own.kind = "route"
          BY <2>1, <4>2
        <5>2. own = Lookup(appState, req)
          OBVIOUS
        <5> HIDE DEF index, req, own
        <5>3. IsRouteFor(table, own.index, req)
          BY <1>2, <5>1, <5>2, LookupFacts
        <5> QED BY <5>1, <5>3
      <4> QED BY <4>1, <4>2
    <3>3. a.how.kind = "route" /\ a.how.allow = {} /\ a.chain = appState.chains[index] /\ a.req = req /\ a.index = index /\ a.table = table
      BY DEF Answered, RouteAnswer
    <3>4. table[index] = <<appState.chains[index].method, appState.chains[index].path>>
      <4> HIDE DEF index, req
      <4> QED BY <3>2, TableFacts DEF IsRouteFor
    <3> HIDE DEF a, index, req, table
    <3>5. Reached(a)
      BY <3>2, <3>3, <3>4 DEF Reached, AllowServes
    <3> QED BY <3>1, <3>5
  <2>2. CASE ~(SameRoutes \/ own.kind = "route")
    <3> DEFINE a == Answered(appState, req, StaticOr(appState, req, own, own.kind = "none"), 0, NoChain, spent)
    <3>1. routed' = routed \cup {a}
      BY <2>2 DEF Dispatch, AnsweredBy
    <3>2. own = Lookup(appState, req) /\ own.kind # "route"
      BY <2>2
    <3> HIDE DEF own, req, spent
    <3>3. Reached(a)
      BY <1>2, <3>2, OtherAnswers
    <3> HIDE DEF a
    <3> QED BY <3>1, <3>3
  <2> QED BY <2>1, <2>2
<1>4. PICK a : routed' = routed \cup {a} /\ Reached(a)
  BY <1>3
<1>5. \A b \in routed' : Reached(b)
  BY <1>4, ReachedAll
<1>6. RequestsReachTheirRoute'
  BY <1>5 DEF RequestsReachTheirRoute, Reached, OnlyCovered, AllowServes
<1> QED BY <1>1, <1>6 DEF RoutingInv

-----------------------------------------------------------------------------
(* The application is served as it was written *)

RoutesInv ==
  /\ RegisterInv /\ PathInv(appDef.groups, appDef.routes) /\ RoutingInv
  /\ ChainsAreComplete /\ OperationIdsDiffer /\ RequestsReachTheirRoute

\* What the states compiled and what was answered stays while a script makes its calls.
LEMMA PoolKept ==
  ASSUME RoutingInv, ChainsAreComplete, OperationIdsDiffer, RequestsReachTheirRoute, UNCHANGED <<pooled, appState, routing, routed>>
  PROVE  RoutingInv' /\ ChainsAreComplete' /\ OperationIdsDiffer' /\ RequestsReachTheirRoute'
BY DEF RoutingInv, ChainsAreComplete, OperationIdsDiffer, RequestsReachTheirRoute

LEMMA RoutesStart ==
  ASSUME RoutesInit
  PROVE  RoutesInv
<1>1. appDef = EmptyApp /\ scriptCalls = 0 /\ appState = NotLoaded /\ routing = Nobody /\ routed = {}
  BY DEF RoutesInit
<1>2. /\ DOMAIN EmptyApp = AppFields /\ EmptyApp.middleware = <<>> /\ EmptyApp.groups = <<>> /\ EmptyApp.routes = <<>>
  BY DEF EmptyApp, AppFields
<1>3. Len(<<>>) = 0 /\ Listed(<<>>) /\ 1..0 = {}
  BY ListedSingles
<1>4. GroupInv(<<>>) /\ RouteInv(<<>>, <<>>)
  BY <1>3 DEF GroupInv, RouteInv, Tree
<1>5. RegisterInv
  BY <1>1, <1>2, <1>3, <1>4, RoutesConstants DEF RegisterInv
<1>6. PathInv(appDef.groups, appDef.routes)
  BY <1>1, EmptyPaths
<1>7. ~appState.loaded
  BY <1>1 DEF NotLoaded
<1>8. RoutingInv /\ ChainsAreComplete /\ OperationIdsDiffer /\ RequestsReachTheirRoute
  BY <1>1, <1>7 DEF RoutingInv, ChainsAreComplete, OperationIdsDiffer, RequestsReachTheirRoute
<1> QED BY <1>5, <1>6, <1>8 DEF RoutesInv

LEMMA RoutesStep ==
  ASSUME RoutesInv, [RoutesNext]_routesVars
  PROVE  RoutesInv'
<1>1. /\ RegisterInv /\ PathInv(appDef.groups, appDef.routes) /\ RoutingInv
      /\ ChainsAreComplete /\ OperationIdsDiffer /\ RequestsReachTheirRoute
  BY DEF RoutesInv
<1>2. ASSUME RegisterInv', PathInv(appDef'.groups, appDef'.routes), UNCHANGED <<pooled, appState, routing, routed>>
      PROVE  RoutesInv'
  <2>1. RoutingInv' /\ ChainsAreComplete' /\ OperationIdsDiffer' /\ RequestsReachTheirRoute'
    BY <1>1, <1>2, PoolKept
  <2> QED BY <1>2, <2>1 DEF RoutesInv
<1>3. ASSUME NEW g \in 0..Len(appDef.groups), NEW e \in Endpoints, RegisterRoute(g, e) PROVE RoutesInv'
  <2>1. RegisterInv' /\ PathInv(appDef'.groups, appDef'.routes)
    BY <1>1, <1>3, RouteRegistered, PathRegistered
  <2> QED BY <1>2, <1>3, <2>1 DEF RegisterRoute, PoolUnchanged
<1>4. ASSUME NEW g \in DOMAIN appDef.groups, UseInGroup(g) PROVE RoutesInv'
  <2>1. g \in 1..Len(appDef.groups)
    BY <1>1, ListFacts DEF RegisterInv, GroupInv
  <2>2. RegisterInv' /\ PathInv(appDef'.groups, appDef'.routes)
    BY <1>1, <1>4, <2>1, GroupUsed, PathUsed
  <2> QED BY <1>2, <1>4, <2>2 DEF UseInGroup, PoolUnchanged
<1>5. ASSUME NEW g \in 0..Len(appDef.groups), NEW prefix \in GroupPrefixes, MakeGroup(g, prefix) PROVE RoutesInv'
  <2>1. RegisterInv' /\ PathInv(appDef'.groups, appDef'.routes)
    BY <1>1, <1>5, GroupMade, PathMade
  <2> QED BY <1>2, <1>5, <2>1 DEF MakeGroup, PoolUnchanged
<1>6. ASSUME Use \/ OnError \/ OnInvalid \/ DocApp \/ \E mount \in Mounts : MountStatic(mount) PROVE RoutesInv'
  <2>1. RegisterInv' /\ PathInv(appDef'.groups, appDef'.routes)
    BY <1>1, <1>6, CallsMade, PathKept
  <2> QED BY <1>2, <1>6, <2>1 DEF Use, OnError, OnInvalid, DocApp, MountStatic, PoolUnchanged
<1>7. ASSUME LoadApp PROVE RoutesInv'
  <2>1. appDef' = EmptyApp /\ scriptCalls' = MaxCalls /\ UNCHANGED <<routing, routed>>
    BY <1>7 DEF LoadApp
  <2>2. MaxCalls \in 0..MaxCalls
    BY RoutesConstants
  <2>3. RegisterInv' /\ PathInv(appDef'.groups, appDef'.routes)
    BY <2>1, <2>2, EmptyAppFacts, EmptyPaths
  <2>4. ChainsAreComplete' /\ OperationIdsDiffer'
    BY <1>1, <1>7, ChainsLoaded, IdsLoaded
  <2>5. RequestsReachTheirRoute'
    BY <1>1, <2>1 DEF RequestsReachTheirRoute
  <2>6. RoutingInv'
    <3>1. CASE routing = Nobody
      BY <2>1, <3>1 DEF RoutingInv
    <3>2. CASE routing # Nobody
      <4>1. pooled.loaded
        BY <1>1, <3>2 DEF RoutingInv
      <4>2. pooled' = pooled
        BY <1>7, <4>1 DEF LoadApp
      <4> QED BY <1>1, <2>1, <4>2 DEF RoutingInv
    <3> QED BY <3>1, <3>2
  <2> QED BY <2>3, <2>4, <2>5, <2>6 DEF RoutesInv
<1>8. ASSUME EditScript PROVE RoutesInv'
  <2>1. appDef' = EmptyApp /\ scriptCalls' = MaxCalls - MaxLater /\ UNCHANGED <<pooled, appState, routing, routed>>
    BY <1>8 DEF EditScript
  <2>2. MaxCalls - MaxLater \in 0..MaxCalls
    BY RoutesConstants
  <2>3. RegisterInv' /\ PathInv(appDef'.groups, appDef'.routes)
    BY <2>1, <2>2, EmptyAppFacts, EmptyPaths
  <2> QED BY <1>2, <2>1, <2>3
<1>9. ASSUME UNCHANGED <<appDef, scriptCalls, pooled, appState>>, RequestsReachTheirRoute', RoutingInv' PROVE RoutesInv'
  <2>1. RegisterInv' /\ PathInv(appDef'.groups, appDef'.routes)
    BY <1>1, <1>9 DEF RegisterInv
  <2>2. ChainsAreComplete' /\ OperationIdsDiffer'
    BY <1>1, <1>9 DEF ChainsAreComplete, OperationIdsDiffer
  <2> QED BY <1>9, <2>1, <2>2 DEF RoutesInv
<1>10. ASSUME NEW req \in WebRequests, AskRoute(req) PROVE RoutesInv'
  <2>1. RequestsReachTheirRoute' /\ RoutingInv' /\ UNCHANGED <<appDef, scriptCalls, pooled, appState>>
    <3>1. UNCHANGED <<appDef, scriptCalls, pooled, appState>>
      BY <1>10 DEF AskRoute
    <3> QED BY <1>1, <1>10, <3>1, Asked
  <2> QED BY <1>9, <2>1
<1>11. ASSUME Dispatch PROVE RoutesInv'
  <2>1. RequestsReachTheirRoute' /\ RoutingInv' /\ UNCHANGED <<appDef, scriptCalls, pooled, appState>>
    <3>1. UNCHANGED <<appDef, scriptCalls, pooled, appState>>
      BY <1>11 DEF Dispatch
    <3> QED BY <1>1, <1>11, <3>1, Dispatched
  <2> QED BY <1>9, <2>1
<1>12. ASSUME UNCHANGED routesVars PROVE RoutesInv'
  <2>1. UNCHANGED <<appDef, scriptCalls, pooled, appState, routing, routed>>
    BY <1>12 DEF routesVars
  <2>2. RegisterInv' /\ PathInv(appDef'.groups, appDef'.routes)
    BY <1>1, <2>1 DEF RegisterInv
  <2> QED BY <1>2, <2>1, <2>2
<1> QED BY <1>3, <1>4, <1>5, <1>6, <1>7, <1>8, <1>10, <1>11, <1>12 DEF RoutesNext

\* For every set of endpoints, prefixes, mounts and requests and every bound, as scripts
\* are edited while the pool serves: every chain a state compiled runs what the script
\* gave the app, the route's groups and the route, in that order, with validation
\* directly before the handler; the operation ids of the visible routes differ; and a
\* request is answered by the chain of the route that the table of its own state has for
\* it, or without a chain where that table has none but such as a pattern tried first
\* covers (app/mod.rs, app/meta.rs, routed_chain).
THEOREM AppsServed ==
  RoutesSpec => []AppsServeTheirRoutes
<1>1. RoutesInit => RoutesInv
  BY RoutesStart
<1>2. RoutesInv /\ [RoutesNext]_routesVars => RoutesInv'
  BY RoutesStep
<1>3. RoutesInv => AppsServeTheirRoutes
  BY DEF RoutesInv, AppsServeTheirRoutes
<1> QED BY <1>1, <1>2, <1>3, PTL DEF RoutesSpec
=============================================================================
