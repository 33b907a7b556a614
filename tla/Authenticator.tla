---------------------------- MODULE Authenticator ----------------------------
(***************************************************************************)
(* Who gets past the API's authenticator (services/api-go): a request      *)
(* carries an API key, a signed token, or neither.  A token is judged by   *)
(* the key that the cache of KeyCache hands out and then by its claims: a  *)
(* fetch may come between the arrival and the verdict, and tokens expire   *)
(* and keys are replaced meanwhile.                                        *)
(***************************************************************************)
EXTENDS KeyCache

CONSTANTS
  ApiKeys,      \* HELIOS_API_KEYS
  JwtEnabled,   \* HELIOS_JWT_JWKS_URL is set
  Tokens,       \* the tokens in circulation
  Credentials,  \* what requests carry: X-API-Key and Authorization: Bearer
  Leeway,       \* HELIOS_JWT_CLOCK_SKEW
  Issuer,       \* HELIOS_JWT_ISSUER, or Unset
  Audiences,    \* HELIOS_JWT_AUDIENCE
  Unset         \* a header, claim or setting that is not there

ASSUME AuthenticatorAssumption ==
  /\ JwtEnabled \in BOOLEAN
  /\ Leeway \in Nat
  /\ Unset \notin ApiKeys \cup Tokens
  /\ \A t \in Tokens : t.parses => t.kid \in Keys \cup {Unnamed}
  /\ \A t \in Tokens : {t.exp, t.nbf, t.iat} \subseteq Int \cup {Unset}
  /\ \A c \in Credentials : c.bearer \notin Tokens \/ c.bearer \notin ApiKeys

VARIABLES
  credential, \* what each request carries
  verdict     \* "none" until there is one, then "admitted" or "refused"

authVars == <<vars, credential, verdict>>

NoCredential == [key |-> Unset, bearer |-> Unset]

AuthTypeOK ==
  /\ TypeOK
  /\ credential \in [Requests -> Credentials \cup {NoCredential}]
  /\ verdict \in [Requests -> {"none", "admitted", "refused"}]

AuthInit ==
  /\ Init
  /\ credential = [r \in Requests |-> NoCredential]
  /\ verdict = [r \in Requests |-> "none"]

-----------------------------------------------------------------------------
(* The claims *)

(* Mutant: the skew is taken off on both sides. *)
TimelyNarrow(t, n) ==
  /\ t.exp # Unset /\ n <= t.exp - Leeway
  /\ t.nbf # Unset => n >= t.nbf - Leeway
  /\ t.iat # Unset => n >= t.iat - Leeway

(* exp must be there; nbf and iat count if they are numbers. *)
Timely(t, n) ==
  /\ t.exp # Unset /\ n <= t.exp + Leeway
  /\ t.nbf # Unset => n >= t.nbf - Leeway
  /\ t.iat # Unset => n >= t.iat - Leeway

(* Issuer and audience, where they are configured. *)
Addressed(t) ==
  /\ Issuer # Unset => t.iss = Issuer
  /\ Audiences # {} => t.aud \cap Audiences # {}

(* Mutant: the time is read when the request arrives. *)
JudgedAt(r) == started[r]

(* time.Now after the key is there. *)
Judged(r) == now

(* validateJWTClaims *)
ValidClaims(r, t) == Timely(t, Judged(r)) /\ Addressed(t)

-----------------------------------------------------------------------------
(* authorized *)

(* newAuthenticator is nil: every request is let through. *)
Open == ApiKeys = {} /\ ~JwtEnabled

(* isAuthorizedAPIKey, of X-API-Key, and of the bearer if there is no verifier. *)
HasApiKey(c) == c.key \in ApiKeys \/ (~JwtEnabled /\ c.bearer \in ApiKeys)

(* A token is looked at: three parts, decoded, RS256. *)
NeedsKey(c) ==
  /\ ~Open /\ ~HasApiKey(c) /\ JwtEnabled
  /\ c.bearer \in Tokens /\ c.bearer.parses

(* The verdict that needs no signing key. *)
JudgeAtOnce(r) ==
  /\ verdict[r] = "none" /\ credential[r] = NoCredential
  /\ \E c \in {x \in Credentials : ~NeedsKey(x)} :
       /\ credential' = [credential EXCEPT ![r] = c]
       /\ verdict' = [verdict EXCEPT ![r] =
            IF Open \/ HasApiKey(c) THEN "admitted" ELSE "refused"]
  /\ UNCHANGED vars

(* The rest of Verify once signingKey has ended, with a key or an error: the
   signature is that key's, and the claims are valid. *)
Judge(r) ==
  LET t == credential'[r].bearer
  IN  verdict' = [verdict EXCEPT ![r] =
        IF pc'[r] = "found" /\ CurrentKey(t.kid) = {t.signer} /\ ValidClaims(r, t)
        THEN "admitted"
        ELSE IF pc'[r] \in Results THEN "refused" ELSE "none"]

(* A request arrives with a token. *)
Present(r) ==
  /\ verdict[r] = "none" /\ credential[r] = NoCredential
  /\ \E c \in {x \in Credentials : NeedsKey(x)} :
       /\ credential' = [credential EXCEPT ![r] = c]
       /\ Verify(r) /\ kid'[r] = c.bearer.kid
  /\ Judge(r)

(* The cache is refreshed for it. *)
Refresh(r) ==
  /\ Serve(r) \/ FetchFails(r) \/ Store(r) \/ Recheck(r)
  /\ UNCHANGED credential
  /\ Judge(r)

(* The request is passed on or answered 401. *)
Done(r) ==
  /\ verdict[r] # "none"
  /\ credential' = [credential EXCEPT ![r] = NoCredential]
  /\ verdict' = [verdict EXCEPT ![r] = "none"]
  /\ UNCHANGED vars

(* The issuer's documents and the clock. *)
Environment == (Publish \/ Tick) /\ UNCHANGED <<credential, verdict>>

AuthNext ==
  \/ \E r \in Requests : JudgeAtOnce(r) \/ Present(r) \/ Refresh(r) \/ Done(r)
  \/ Environment

AuthSpec == AuthInit /\ [][AuthNext]_authVars

-----------------------------------------------------------------------------
(* Properties *)

Judges(r, v) == verdict[r] = "none" /\ verdict'[r] = v

(* A request without an API key is admitted only by a token that is addressed to
   the API, that is in its time, give or take the leeway, when it is admitted and
   not just when it arrived, and whose key the issuer has withdrawn no longer
   than a refresh interval and a fetch ago. *)
AdmissionSound ==
  [][\A r \in Requests :
       LET c == credential'[r]
           t == c.bearer
       IN  Judges(r, "admitted") /\ ~Open /\ ~HasApiKey(c) =>
             /\ t \in Tokens /\ t.parses /\ Addressed(t)
             /\ t.exp # Unset /\ now <= t.exp + Leeway
             /\ t.nbf # Unset => t.nbf <= now + Leeway
             /\ \E d \in Docs : /\ CurrentSince(d, now - RefreshInterval - FetchTime)
                                /\ \E k \in DocKeys[d] : KeyOf[d][k] = t.signer]_authVars

(* The key document d leads to the key of token t. *)
Serves(d, t) ==
  LET k == IF t.kid = Unnamed THEN First[d] ELSE t.kid
  IN  k \in DocKeys[d] /\ KeyOf[d][k] = t.signer

(* The issuer had a document since time t that does not lead to the key of t. *)
NotServedSince(t, time) ==
  \E d \in Docs : CurrentSince(d, time) /\ ~Serves(d, t)

(* Where tokens are accepted, one that is addressed to the API and in its time by
   the clock of an issuer that is off by no more than the leeway is refused only
   if a fetch failed, or a recent document does not lead to its key: one that the
   cache may have held all along, or one fetched since the request came or shortly
   before.  A request with an API key is never refused, whatever else it carries. *)
RefusalExplained ==
  [][\A r \in Requests :
       LET c == credential'[r]
           t == c.bearer
       IN  Judges(r, "refused") =>
             /\ ~HasApiKey(c)
             /\ \/ ~JwtEnabled \/ t \notin Tokens \/ ~t.parses
                \/ ~Addressed(t) \/ t.exp = Unset
                \/ \A skew \in (-Leeway)..Leeway :
                     \/ now + skew > t.exp
                     \/ (t.nbf # Unset /\ now + skew < t.nbf)
                     \/ (t.iat # Unset /\ now + skew < t.iat)
                \/ pc'[r] = "failed"
                \/ pc'[r] = "notfound" /\ NotServedSince(t, started[r] - FetchTime)
                \/ pc'[r] = "found" /\ NotServedSince(t, now - RefreshInterval - FetchTime)]_authVars

=============================================================================
