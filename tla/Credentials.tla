---------------------------- MODULE Credentials ----------------------------
(***************************************************************************)
(* What a login and an API call prove: crates/nitr-std/src/crypto.         *)
(*                                                                         *)
(* jwt.rs: a token is verified against the caller's policy while time      *)
(* passes.  password.rs with mod.rs: a password is verified against a      *)
(* stored row, or against the process's decoy when there is no such user;  *)
(* each hash runs on the blocking pool, and two logins may mint the decoy  *)
(* at once.  The primitives themselves are taken as sound.                 *)
(***************************************************************************)
EXTENDS Integers, FiniteSets

CONSTANTS
  Logins,        \* logins that run at once
  ClaimDates,    \* the dates a token may carry
  Leeways,       \* the leeway a caller may allow
  MaxAges,       \* the max_age a caller may ask for
  MaxClockC      \* bound: the clock

ASSUME CredentialConstants ==
  /\ MaxClockC \in Nat
  /\ ClaimDates \subseteq Int /\ Leeways \subseteq Nat /\ MaxAges \subseteq Nat

VARIABLES
  cclock,        \* clock::now_unix_f64()
  jwt,           \* the token presented, the policy it meets, the last answer
  login,         \* login[l]: a login and the argon2 runs it has cost
  decoy          \* DECOY_HASH: the login that minted it, or nobody

credentialVars == <<cclock, jwt, login, decoy>>

Never == -1
Algorithms == {"HS256", "HS512"}

\* A claim is absent, of the wrong type, or a date.
NoClaim == [kind |-> "absent", at |-> 0]
Claims == {NoClaim, [kind |-> "malformed", at |-> 0]} \cup [kind : {"date"}, at : ClaimDates]

NoJwt == [stage |-> "none"]
NoLogin == [stage |-> "idle"]

CredentialsInit ==
  /\ cclock = 0
  /\ jwt = NoJwt
  /\ login = [l \in Logins |-> NoLogin]
  /\ decoy = {}

-----------------------------------------------------------------------------
(* jwt.verify *)

\* A token and the policy it is verified under, ClaimPolicy with the allow-list
\* and the leeway.  forged: signed with another key.  aud: the issuer, audience
\* and subject asked for are the token's, or none was asked for.
PresentJwt ==
  /\ jwt = NoJwt /\ \A l \in Logins : login[l] = NoLogin
  /\ \E alg \in Algorithms \cup {"none"}, forged, aud, needExp \in BOOLEAN, exp, nbf, iat \in Claims,
        allowed \in {{"HS256"}, Algorithms}, leeway \in Leeways, maxAge \in {Never} \cup MaxAges :
       jwt' = [stage |-> "held", alg |-> alg, forged |-> forged, aud |-> aud, exp |-> exp, nbf |-> nbf,
               iat |-> iat, allowed |-> allowed, leeway |-> leeway, needExp |-> needExp, maxAge |-> maxAge,
               answer |-> "", seen |-> 0, was |-> {}]
  /\ UNCHANGED <<cclock, login, decoy>>

\* Mutant: the leeway shortens a token's life.
TooLate_strict(t, limit) == cclock > limit - t.leeway

\* now > exp + leeway
TooLate(t, limit) == cclock > limit + t.leeway

\* ClaimPolicy::check()
PolicyAnswer(t) ==
  IF ~t.aud THEN "audience mismatch"
  ELSE IF t.needExp /\ t.exp = NoClaim THEN "missing claim"
  ELSE IF t.maxAge = Never THEN "ok"
  ELSE IF t.iat = NoClaim THEN "missing claim"
  ELSE IF t.iat.kind = "malformed" THEN "malformed claims"
  ELSE IF TooLate(t, t.iat.at + t.maxAge) THEN "token too old"
  ELSE "ok"

\* The checks of jwt.verify, in their order.
JwtAnswer(t) ==
  IF t.alg \notin t.allowed THEN "algorithm not allowed"
  ELSE IF t.forged THEN "invalid signature"
  ELSE IF t.exp.kind = "malformed" \/ t.nbf.kind = "malformed" THEN "malformed claims"
  ELSE IF t.exp.kind = "date" /\ TooLate(t, t.exp.at) THEN "token expired"
  ELSE IF t.nbf.kind = "date" /\ cclock < t.nbf.at - t.leeway THEN "token not yet valid"
  ELSE PolicyAnswer(t)

VerifyJwt ==
  /\ jwt # NoJwt
  /\ jwt.answer = "" \/ jwt.seen # cclock
  /\ jwt' = [jwt EXCEPT !.answer = JwtAnswer(jwt), !.seen = cclock, !.was = @ \cup ({jwt.answer} \ {""})]
  /\ UNCHANGED <<cclock, login, decoy>>

TimePasses ==
  /\ jwt # NoJwt
  /\ cclock < MaxClockC
  /\ cclock' = cclock + 1
  /\ UNCHANGED <<jwt, login, decoy>>

-----------------------------------------------------------------------------
(* password_verify and password_verify_dummy *)

\* What a stored row may hold, with parse_stored_hash()'s verdict on it.
UserRows == {"argon2", "at_ceiling", "bcrypt", "no_output", "scrypt", "bad_params", "over_ceiling"}
RowFault(row) ==
  CASE row = "bcrypt" -> "unsupported hash format"
    [] row = "no_output" -> "incomplete hash"
    [] row = "scrypt" -> "unsupported hash algorithm"
    [] row = "bad_params" -> "unusable hash"
    [] row = "over_ceiling" -> "hash parameters out of range"
    [] OTHER -> ""

SetLogin(l, rec) == login' = [login EXCEPT ![l] = rec]

\* History: an earlier login of an unknown user has gone all its way.
DummyEnded ==
  \E k \in Logins : login[k].stage = "done" /\ ~login[k].known /\ login[k].password # "long"

\* A handler asks password_verify(password, row), or password_verify_dummy when
\* there is no such user.  Past the cap both answer before any hash.
BeginLogin(l) ==
  /\ login[l] = NoLogin
  /\ \E known \in BOOLEAN, row \in UserRows, password \in {"right", "wrong", "long"} :
       /\ known \/ row = "argon2"
       /\ SetLogin(l, [stage |-> IF password = "long" THEN "done" ELSE IF known THEN "verify" ELSE "dummy",
                       known |-> known, row |-> row, password |-> password, cost |-> 0, minted |-> FALSE,
                       late |-> DummyEnded, ok |-> FALSE, reason |-> ""])
  /\ UNCHANGED <<cclock, jwt, decoy>>

\* verify_stored() on the blocking pool: a row at fault is found before argon2 runs.
VerifyStored(l) ==
  /\ login[l].stage = "verify"
  /\ LET r == login[l]
         fault == RowFault(r.row)
     IN  SetLogin(l, [r EXCEPT !.stage = "done", !.reason = fault,
                               !.cost = IF fault = "" THEN @ + 1 ELSE @,
                               !.ok = fault = "" /\ r.password = "right"])
  /\ UNCHANGED <<cclock, jwt, decoy>>

\* dummy_verify(), its first look: mint a decoy when there is none.
LookForDecoy(l) ==
  /\ login[l].stage = "dummy"
  /\ SetLogin(l, IF decoy = {} THEN [login[l] EXCEPT !.stage = "minted", !.minted = TRUE, !.cost = @ + 1]
                 ELSE [login[l] EXCEPT !.stage = "compare"])
  /\ UNCHANGED <<cclock, jwt, decoy>>

\* Mutant: the fresh hash is compared with and not kept.
Decoys_forgotten(l) == decoy

\* DECOY_HASH.get_or_init(): of two that minted, the first one's stays.
Decoys(l) == IF decoy = {} THEN {l} ELSE decoy

KeepDecoy(l) ==
  /\ login[l].stage = "minted"
  /\ decoy' = Decoys(l)
  /\ SetLogin(l, [login[l] EXCEPT !.stage = "compare"])
  /\ UNCHANGED <<cclock, jwt>>

\* The comparison with the decoy, which no password matches.
CompareDecoy(l) ==
  /\ login[l].stage = "compare"
  /\ SetLogin(l, [login[l] EXCEPT !.stage = "done", !.cost = @ + 1])
  /\ UNCHANGED <<cclock, jwt, decoy>>

CredentialsNext ==
  \/ PresentJwt \/ VerifyJwt \/ TimePasses
  \/ \E l \in Logins : /\ jwt = NoJwt
                       /\ \/ BeginLogin(l) \/ VerifyStored(l) \/ LookForDecoy(l) \/ KeepDecoy(l)
                          \/ CompareDecoy(l)

CredentialsSpec == CredentialsInit /\ [][CredentialsNext]_credentialVars

-----------------------------------------------------------------------------
(* Properties *)

\* The token is what it says and has what the policy asks for.
Sound(t) ==
  /\ t.alg \in t.allowed /\ ~t.forged /\ t.aud
  /\ t.exp.kind # "malformed" /\ t.nbf.kind # "malformed"
  /\ t.needExp => t.exp # NoClaim
  /\ t.maxAge # Never => t.iat.kind = "date"

\* Its dates, each stretched by the leeway.
InWindow(t, now) ==
  /\ t.nbf.kind = "date" => t.nbf.at <= now + t.leeway
  /\ t.exp.kind = "date" => now <= t.exp.at + t.leeway
  /\ t.maxAge # Never => now <= t.iat.at + t.maxAge + t.leeway

\* A token verifies exactly when it is sound and the time is in its window, so
\* its answers age one way: what has expired never verifies again, and a token
\* once valid is never "not yet" so.  (jwt.verify and ClaimPolicy::check)
JwtOnlyAges ==
  (jwt # NoJwt /\ jwt.answer # "") =>
    LET over == {"token expired", "token too old"}
    IN  /\ jwt.answer = "ok" <=> Sound(jwt) /\ InWindow(jwt, jwt.seen)
        /\ jwt.was \cap over # {} => jwt.answer # "ok"
        /\ "ok" \in jwt.was => jwt.answer \in over \cup {"ok"}

\* The row is one that no password can be verified against.
AtFault(r) == r.known /\ r.password # "long" /\ RowFault(r.row) # ""

\* A login costs one hash and says only whether it passed, for a user that exists and
\* for one that does not.  There are three exceptions and no other: a password over
\* the cap costs no hash for either; a known user whose row is at fault costs none and
\* its handler is told the reason, which no unknown user's is; and an unknown user's
\* login costs a second hash when it mints the decoy, which none does that began
\* after another one had ended.  No login passes without its row's password.
\* (password_verify, verify_stored, dummy_verify)
LoginTellsNothing ==
  \A l \in Logins : login[l].stage = "done" =>
    LET r == login[l]
    IN  /\ r.ok => r.known /\ r.password = "right" /\ RowFault(r.row) = ""
        /\ r.reason = IF AtFault(r) THEN RowFault(r.row) ELSE ""
        /\ r.cost = IF r.password = "long" \/ AtFault(r) THEN 0 ELSE IF r.minted THEN 2 ELSE 1
        /\ r.minted => ~r.known /\ ~r.late

\* A credential stops holding as it ages, and a failed login tells no more than
\* LoginTellsNothing lets it.
CredentialsHold == JwtOnlyAges /\ LoginTellsNothing
=============================================================================
