------------------------- MODULE AuthenticatorProofs -------------------------
(***************************************************************************)
(* KeyCache's types, how old a key that is handed out can be, and what     *)
(* "signing key not found" means.  The argument follows a document from    *)
(* the issuer through a fetch into the cache and adds up the delays.       *)
(* The authenticator works its cache as KeyCache says, so what is proved   *)
(* of the cache holds of it; with the claims, what an admission and a      *)
(* refusal mean follows.                                                   *)
(***************************************************************************)
EXTENDS Authenticator, TLAPS

-----------------------------------------------------------------------------
(* The cache *)

USE CacheAssumption DEF Docs, Times, None, Never, Results

(* The issuer's document and those to come have not been replaced. *)
DocsRetired == \A d \in Docs : d >= doc => retired[d] = Never

(* What was served to a request was the issuer's document since its fetch began,
   and fetches end in time. *)
FetchesRecent ==
  \A r \in Requests :
    /\ started[r] <= now
    /\ pc[r] = "fetch" => now - started[r] <= FetchTime
    /\ got[r] # None => CurrentSince(got[r], started[r])

(* What is in the cache was the issuer's document a fetch before it was stored. *)
CacheRecent ==
  cached # None => fetched <= now /\ CurrentSince(cached, fetched - FetchTime)

(* Between its store and its second look a request finds a fresh cache. *)
RecheckFresh ==
  \A r \in Requests : pc[r] = "recheck" => cached # None /\ fetched = now

CacheInv ==
  TypeOK /\ DocsRetired /\ FetchesRecent /\ CacheRecent /\ RecheckFresh /\ NotFoundExplained

(* "At time t or later" is weaker for earlier t. *)
LEMMA EarlierIsWeaker ==
  ASSUME TypeOK, NEW d \in Docs, NEW t \in Int, NEW u \in Int, u <= t,
         CurrentSince(d, t)
  PROVE  CurrentSince(d, u)
BY DEF TypeOK, CurrentSince

(* What currentKey hands out of a cache that is in use. *)
LEMMA CurrentKeyIs ==
  ASSUME TypeOK, Usable, NEW k \in Keys \cup {Unnamed}
  PROVE  /\ cached \in Docs
         /\ k = Unnamed => /\ First[cached] \in DocKeys[cached]
                           /\ CurrentKey(k) = {KeyOf[cached][First[cached]]}
         /\ k # Unnamed /\ k \in DocKeys[cached] => CurrentKey(k) = {KeyOf[cached][k]}
         /\ k # Unnamed /\ k \notin DocKeys[cached] => CurrentKey(k) = {}
<1>1. cached \in Docs /\ DocKeys[cached] # {}
  BY DEF TypeOK, Usable
<1>2. First[cached] \in DocKeys[cached]
  BY <1>1
<1>3. k = Unnamed => CurrentKey(k) = {KeyOf[cached][x] : x \in {First[cached]}}
  BY DEF CurrentKey
<1>4. k # Unnamed => CurrentKey(k) = {KeyOf[cached][x] : x \in DocKeys[cached] \cap {k}}
  BY DEF CurrentKey
<1>5. k # Unnamed /\ k \in DocKeys[cached] => CurrentKey(k) = {KeyOf[cached][k]}
  BY <1>4
<1>6. k # Unnamed /\ k \notin DocKeys[cached] => CurrentKey(k) = {}
  BY <1>4
<1> QED BY <1>1, <1>2, <1>3, <1>5, <1>6

LEMMA InitInv == Init => CacheInv
BY DEF Init, CacheInv, TypeOK, DocsRetired, FetchesRecent, CacheRecent, RecheckFresh, NotFoundExplained

(* Requests change one at a time, and a result other than "notfound" explains
   itself. *)
LEMMA VerifyInv ==
  ASSUME CacheInv, NEW r \in Requests, Verify(r)
  PROVE  CacheInv'
<1> USE DEF CacheInv
<1>1. /\ UNCHANGED <<now, doc, retired, cached, fetched>>
      /\ started' = [started EXCEPT ![r] = now]
      /\ got' = [got EXCEPT ![r] = None]
      /\ \A q \in Requests : q # r => pc'[q] = pc[q] /\ kid'[q] = kid[q]
      /\ pc'[r] \in {"found", "fetch"}
      /\ pc' \in [Requests -> {"idle", "fetch", "recheck"} \cup Results]
      /\ kid' \in [Requests -> Keys \cup {Unnamed}]
  BY DEF Verify, issuerVars, cacheVars, TypeOK
<1>2. TypeOK' /\ DocsRetired'
  BY <1>1 DEF TypeOK, DocsRetired
<1>3. FetchesRecent'
  <2> SUFFICES ASSUME NEW q \in Requests
               PROVE  /\ started'[q] <= now
                      /\ pc'[q] = "fetch" => now - started'[q] <= FetchTime
                      /\ got'[q] # None => CurrentSince(got'[q], started'[q])
    BY <1>1 DEF FetchesRecent, CurrentSince
  <2>1. CASE q = r
    BY <1>1, <2>1 DEF TypeOK
  <2>2. CASE q # r
    BY <1>1, <2>2 DEF TypeOK, FetchesRecent
  <2> QED BY <2>1, <2>2
<1>4. CacheRecent' /\ RecheckFresh'
  BY <1>1 DEF CacheRecent, RecheckFresh, CurrentSince
<1>5. NotFoundExplained'
  <2> SUFFICES ASSUME NEW q \in Requests, pc'[q] = "notfound"
               PROVE  \E d \in Docs : kid'[q] \notin DocKeys[d]
                                      /\ CurrentSince(d, started'[q] - FetchTime)
    BY <1>1 DEF NotFoundExplained, CurrentSince
  <2>1. q # r
    BY <1>1
  <2>2. pc[q] = "notfound" /\ kid'[q] = kid[q] /\ started'[q] = started[q]
    BY <1>1, <2>1 DEF TypeOK
  <2> QED BY <2>2 DEF NotFoundExplained
<1> QED BY <1>2, <1>3, <1>4, <1>5

(* The issuer's answer is its current document. *)
LEMMA ServeInv ==
  ASSUME CacheInv, NEW r \in Requests, Serve(r)
  PROVE  CacheInv'
<1> USE DEF CacheInv
<1>1. /\ UNCHANGED <<now, doc, retired, cached, fetched, pc, kid, started>>
      /\ got' = [got EXCEPT ![r] = doc]
  BY DEF Serve, issuerVars, cacheVars
<1>2. TypeOK' /\ DocsRetired'
  BY <1>1 DEF TypeOK, DocsRetired
<1>3. FetchesRecent'
  <2>1. CurrentSince(doc, started[r])
    BY DEF TypeOK, CurrentSince, DocsRetired
  <2> SUFFICES ASSUME NEW q \in Requests
               PROVE  got'[q] # None => CurrentSince(got'[q], started[q])
    BY <1>1 DEF FetchesRecent, CurrentSince
  <2> QED BY <1>1, <2>1 DEF TypeOK, FetchesRecent
<1>4. CacheRecent' /\ RecheckFresh' /\ NotFoundExplained'
  BY <1>1 DEF CacheRecent, RecheckFresh, NotFoundExplained, CurrentSince
<1> QED BY <1>2, <1>3, <1>4

LEMMA FetchFailsInv ==
  ASSUME CacheInv, NEW r \in Requests, FetchFails(r)
  PROVE  CacheInv'
BY DEF FetchFails, issuerVars, cacheVars, CacheInv, TypeOK, DocsRetired, FetchesRecent,
       CacheRecent, RecheckFresh, NotFoundExplained, CurrentSince

(* The store: the document is as old as the fetch, at most. *)
LEMMA StoreInv ==
  ASSUME CacheInv, NEW r \in Requests, Store(r)
  PROVE  CacheInv'
<1> USE DEF CacheInv
<1>1. /\ UNCHANGED <<now, doc, retired, kid, started, got>>
      /\ pc[r] = "fetch" /\ got[r] # None
      /\ \A q \in Requests : q # r => pc'[q] = pc[q]
      /\ pc'[r] \in {"recheck", "failed"}
      /\ pc' \in [Requests -> {"idle", "fetch", "recheck"} \cup Results]
  BY DEF Store, issuerVars, TypeOK
<1>2. CASE Accepts(got[r])
  <2>1. cached' = got[r] /\ fetched' = now /\ DocKeys[got[r]] # {}
    BY <1>2 DEF Store, Accepts, Stored
  <2>2. TypeOK' /\ DocsRetired'
    BY <1>1, <2>1 DEF TypeOK, DocsRetired
  <2>3. CurrentSince(got[r], now - FetchTime)
    BY <1>1, EarlierIsWeaker DEF TypeOK, FetchesRecent
  <2>4. CacheRecent' /\ RecheckFresh'
    BY <1>1, <2>1, <2>3 DEF TypeOK, CacheRecent, RecheckFresh, CurrentSince
  <2>5. FetchesRecent' /\ NotFoundExplained'
    BY <1>1 DEF FetchesRecent, NotFoundExplained, CurrentSince
  <2> QED BY <2>2, <2>4, <2>5
<1>3. CASE ~Accepts(got[r])
  <2>1. pc'[r] = "failed" /\ UNCHANGED <<cached, fetched>>
    BY <1>3 DEF Store, cacheVars, TypeOK
  <2>2. TypeOK' /\ DocsRetired'
    BY <1>1, <2>1 DEF TypeOK, DocsRetired
  <2>3. CacheRecent' /\ RecheckFresh'
    BY <1>1, <2>1 DEF CacheRecent, RecheckFresh, CurrentSince
  <2>4. FetchesRecent' /\ NotFoundExplained'
    BY <1>1 DEF FetchesRecent, NotFoundExplained, CurrentSince
  <2> QED BY <2>2, <2>3, <2>4
<1> QED BY <1>2, <1>3

(* The second look: the cache is fresh, so a key that is not found is not in the
   cached document. *)
LEMMA RecheckInv ==
  ASSUME CacheInv, NEW r \in Requests, Recheck(r)
  PROVE  CacheInv'
<1> USE DEF CacheInv
<1>1. /\ UNCHANGED <<now, doc, retired, cached, fetched, kid, started, got>>
      /\ pc[r] = "recheck"
      /\ \A q \in Requests : q # r => pc'[q] = pc[q]
      /\ pc'[r] \in {"found", "notfound"}
      /\ pc'[r] = "notfound" => CurrentKey(kid[r]) = {}
      /\ pc' \in [Requests -> {"idle", "fetch", "recheck"} \cup Results]
  BY DEF Recheck, issuerVars, cacheVars, TypeOK
<1>2. TypeOK' /\ DocsRetired' /\ FetchesRecent' /\ CacheRecent' /\ RecheckFresh'
  BY <1>1 DEF TypeOK, DocsRetired, FetchesRecent, CacheRecent, RecheckFresh, CurrentSince
<1>3. NotFoundExplained'
  <2>1. ASSUME CurrentKey(kid[r]) = {}
        PROVE  /\ cached \in Docs /\ kid[r] \notin DocKeys[cached]
               /\ CurrentSince(cached, started[r] - FetchTime)
    <3>1. cached \in Docs /\ fetched = now /\ Usable
      BY <1>1 DEF RecheckFresh, TypeOK, Usable
    <3>2. kid[r] \notin DocKeys[cached]
      <4>1. kid[r] \in Keys \cup {Unnamed} /\ DocKeys[cached] \subseteq Keys
        BY <3>1 DEF TypeOK
      <4> QED BY <2>1, <3>1, <4>1, CurrentKeyIs
    <3>3. CurrentSince(cached, started[r] - FetchTime)
      BY <3>1, EarlierIsWeaker DEF CacheRecent, FetchesRecent, TypeOK
    <3> QED BY <3>1, <3>2, <3>3
  <2> QED BY <1>1, <2>1 DEF NotFoundExplained, CurrentSince
<1> QED BY <1>2, <1>3

(* A document is replaced now, which is no earlier than any time spoken of. *)
LEMMA PublishInv ==
  ASSUME CacheInv, Publish
  PROVE  CacheInv'
<1> USE DEF CacheInv
<1>1. /\ UNCHANGED <<now, cached, fetched, pc, kid, started, got>>
      /\ doc \in Docs /\ doc' = doc + 1 /\ doc' \in Docs
      /\ retired' = [retired EXCEPT ![doc] = now]
  BY DEF Publish, cacheVars, requestVars, TypeOK
<1>2. TypeOK' /\ DocsRetired'
  BY <1>1 DEF TypeOK, DocsRetired
<1>3. \A d \in Docs, t \in Int : t <= now /\ CurrentSince(d, t) => CurrentSince(d, t)'
  BY <1>1 DEF CurrentSince, TypeOK
<1>4. FetchesRecent'
  BY <1>1, <1>3 DEF FetchesRecent, TypeOK
<1>5. CacheRecent' /\ RecheckFresh'
  <2>1. cached # None => CurrentSince(cached, fetched - FetchTime)'
    BY <1>1, <1>3 DEF CacheRecent, TypeOK
  <2> QED BY <1>1, <2>1 DEF CacheRecent, RecheckFresh
<1>6. NotFoundExplained'
  <2>1. \A q \in Requests : started[q] - FetchTime \in Int /\ started[q] - FetchTime <= now
    BY DEF TypeOK, FetchesRecent
  <2> QED BY <1>1, <1>3, <2>1 DEF NotFoundExplained
<1> QED BY <1>2, <1>4, <1>5, <1>6

LEMMA TickInv ==
  ASSUME CacheInv, Tick
  PROVE  CacheInv'
<1> USE DEF CacheInv
<1>1. /\ now' = now + 1 /\ now' \in Times
      /\ UNCHANGED <<doc, retired, cached, fetched, pc, kid, started, got>>
      /\ \A r \in Requests : pc[r] # "recheck"
      /\ \A r \in Requests : pc[r] = "fetch" => now - started[r] < FetchTime
  BY DEF Tick, issuerVars, cacheVars, requestVars, TypeOK
<1>2. TypeOK' /\ DocsRetired'
  BY <1>1 DEF TypeOK, DocsRetired
<1>3. FetchesRecent' /\ CacheRecent' /\ RecheckFresh' /\ NotFoundExplained'
  BY <1>1 DEF FetchesRecent, CacheRecent, RecheckFresh, NotFoundExplained, CurrentSince, TypeOK
<1> QED BY <1>2, <1>3

LEMMA StepInv == CacheInv /\ [Next]_vars => CacheInv'
<1> SUFFICES ASSUME CacheInv, [Next]_vars
             PROVE  CacheInv'
  OBVIOUS
<1>1. CASE UNCHANGED vars
  BY <1>1 DEF vars, issuerVars, cacheVars, requestVars, CacheInv, TypeOK, DocsRetired,
              FetchesRecent, CacheRecent, RecheckFresh, NotFoundExplained, CurrentSince
<1>2. ASSUME NEW r \in Requests,
             Verify(r) \/ Serve(r) \/ FetchFails(r) \/ Store(r) \/ Recheck(r)
      PROVE  CacheInv'
  BY <1>2, VerifyInv, ServeInv, FetchFailsInv, StoreInv, RecheckInv
<1>3. CASE Publish
  BY <1>3, PublishInv
<1>4. CASE Tick
  BY <1>4, TickInv
<1> QED BY <1>1, <1>2, <1>3, <1>4 DEF Next

LEMMA CacheInvariant == Spec => []CacheInv
BY InitInv, StepInv, PTL DEF Spec

(* Every variable keeps its type; the cache holds only documents with keys. *)
THEOREM CacheTypeCorrect == Spec => []TypeOK
<1>1. CacheInv => TypeOK
  BY DEF CacheInv
<1> QED BY <1>1, InitInv, StepInv, PTL DEF Spec

(* A key that is handed out was replaced no longer ago than a refresh interval
   and a fetch, for any number of concurrent refreshes. *)
THEOREM CacheKeysFresh == Spec => []KeysFresh
<1>1. CacheInv => KeysFresh
  <2> SUFFICES ASSUME CacheInv, NEW k \in Keys \cup {Unnamed}, CurrentKey(k) # {}
               PROVE  CurrentSince(cached, now - RefreshInterval - FetchTime)
    BY DEF KeysFresh
  <2>1. Usable
    BY DEF CurrentKey
  <2>2. /\ cached \in Docs /\ fetched \in Int /\ now \in Int
        /\ now - RefreshInterval - FetchTime <= fetched - FetchTime
    BY <2>1 DEF Usable, CacheInv, TypeOK
  <2>3. CurrentSince(cached, fetched - FetchTime)
    BY <2>2 DEF CacheInv, CacheRecent
  <2> QED BY <2>2, <2>3, EarlierIsWeaker DEF CacheInv
<1> QED BY <1>1, InitInv, StepInv, PTL DEF Spec

(* A key is reported missing only if some recent document lacked it. *)
THEOREM CacheNotFoundExplained == Spec => []NotFoundExplained
<1>1. CacheInv => NotFoundExplained
  BY DEF CacheInv
<1> QED BY <1>1, InitInv, StepInv, PTL DEF Spec

-----------------------------------------------------------------------------
(* The authenticator *)

USE AuthenticatorAssumption, CacheAssumption

(* Only a token that is worth a signing key waits for one, the one it names. *)
PendingNeedsKey ==
  \A r \in Requests :
    pc[r] \in {"fetch", "recheck"} =>
      /\ NeedsKey(credential[r]) /\ verdict[r] = "none"
      /\ kid[r] = credential[r].bearer.kid

AuthInv == AuthTypeOK /\ PendingNeedsKey

LEMMA AuthInitInv == AuthInit => Init /\ AuthInv
<1> SUFFICES ASSUME AuthInit PROVE AuthInv
  BY DEF AuthInit
<1>1. TypeOK
  BY InitInv DEF AuthInit, CacheInv
<1> QED
  BY <1>1 DEF AuthInit, Init, AuthInv, AuthTypeOK, PendingNeedsKey

(* Every step is one of the cache or leaves it alone. *)
LEMMA AuthStepIsCacheStep == ASSUME [AuthNext]_authVars PROVE [Next]_vars
<1>1. CASE AuthNext
  <2>1. ASSUME NEW r \in Requests, JudgeAtOnce(r) \/ Present(r) \/ Refresh(r) \/ Done(r)
        PROVE  [Next]_vars
    BY <2>1 DEF JudgeAtOnce, Present, Refresh, Done, Next
  <2>2. CASE Environment
    BY <2>2 DEF Environment, Next
  <2> QED
    BY <1>1, <2>1, <2>2 DEF AuthNext
<1> QED
  BY <1>1 DEF authVars

LEMMA AuthStepInv ==
  ASSUME AuthInv, TypeOK', [AuthNext]_authVars
  PROVE  AuthInv'
<1> USE DEF AuthInv, AuthTypeOK
<1>1. ASSUME NEW r \in Requests, JudgeAtOnce(r)
      PROVE  AuthInv'
  <2>1. ~NeedsKey(NoCredential)
    BY DEF NeedsKey, NoCredential
  <2>2. pc[r] \notin {"fetch", "recheck"}
    BY <1>1, <2>1 DEF JudgeAtOnce, PendingNeedsKey
  <2>3. pc' = pc /\ kid' = kid /\ \A q \in Requests : q # r => credential'[q] = credential[q] /\ verdict'[q] = verdict[q]
    BY <1>1 DEF JudgeAtOnce, vars, requestVars
  <2>4. /\ credential' \in [Requests -> Credentials \cup {NoCredential}]
        /\ verdict' \in [Requests -> {"none", "admitted", "refused"}]
    BY <1>1 DEF JudgeAtOnce
  <2> QED
    BY <2>2, <2>3, <2>4 DEF PendingNeedsKey, NeedsKey, HasApiKey, Open
<1>2. ASSUME NEW r \in Requests, Present(r)
      PROVE  AuthInv'
  <2>1. PICK c \in Credentials : NeedsKey(c) /\ credential' = [credential EXCEPT ![r] = c]
    BY <1>2 DEF Present
  <2>2. /\ verdict' \in [Requests -> {"none", "admitted", "refused"}]
        /\ \A q \in Requests : q # r => pc'[q] = pc[q] /\ verdict'[q] = verdict[q]
        /\ pc'[r] \in {"fetch", "recheck"} => verdict'[r] = "none"
    BY <1>2 DEF Present, Judge, Verify, TypeOK, Results
  <2>3. /\ kid'[r] = credential'[r].bearer.kid
        /\ \A q \in Requests : q # r => kid'[q] = kid[q]
    BY <1>2 DEF Present, Verify, TypeOK
  <2> QED
    BY <2>1, <2>2, <2>3 DEF PendingNeedsKey, NeedsKey, HasApiKey, Open
<1>3. ASSUME NEW r \in Requests, Refresh(r)
      PROVE  AuthInv'
  <2>1. /\ pc[r] \in {"fetch", "recheck"} /\ UNCHANGED kid
        /\ \A q \in Requests : q # r => pc'[q] = pc[q]
    BY <1>3 DEF Refresh, Serve, FetchFails, Store, Recheck, TypeOK
  <2>2. /\ UNCHANGED credential
        /\ verdict' \in [Requests -> {"none", "admitted", "refused"}]
        /\ \A q \in Requests : q # r => verdict'[q] = verdict[q]
        /\ pc'[r] \in {"fetch", "recheck"} => verdict'[r] = "none"
    BY <1>3 DEF Refresh, Judge, Results
  <2> QED
    BY <2>1, <2>2 DEF PendingNeedsKey, NeedsKey, HasApiKey, Open
<1>4. ASSUME NEW r \in Requests, Done(r)
      PROVE  AuthInv'
  BY <1>4 DEF Done, PendingNeedsKey, NeedsKey, HasApiKey, Open, vars, requestVars
<1>5. CASE Environment
  BY <1>5 DEF Environment, Publish, Tick, PendingNeedsKey, requestVars
<1>6. CASE UNCHANGED authVars
  BY <1>6 DEF authVars, vars, requestVars, PendingNeedsKey
<1> QED
  BY <1>1, <1>2, <1>3, <1>4, <1>5, <1>6 DEF AuthNext

(* The authenticator works its cache as KeyCache says. *)
THEOREM AuthImplementsCache == AuthSpec => Spec
BY AuthInitInv, AuthStepIsCacheStep, PTL DEF AuthSpec, Spec

(* The types of the authenticator and its cache. *)
THEOREM AuthTypeCorrect == AuthSpec => []AuthTypeOK
<1>1. AuthInv => AuthTypeOK
  BY DEF AuthInv
<1> QED
  BY <1>1, AuthInitInv, AuthStepInv, AuthImplementsCache, CacheTypeCorrect, PTL DEF AuthSpec

(* Keys that judge tokens are no older than a refresh interval and a fetch. *)
THEOREM AuthKeysFresh == AuthSpec => []KeysFresh
BY AuthImplementsCache, CacheKeysFresh, PTL

(* The step of an admission. *)
LEMMA AdmissionStep ==
  ASSUME AuthInv, KeysFresh, [AuthNext]_authVars, NEW r \in Requests,
         Judges(r, "admitted"), ~Open, ~HasApiKey(credential'[r])
  PROVE  LET t == credential'[r].bearer
         IN  /\ t \in Tokens /\ t.parses /\ Addressed(t)
             /\ t.exp # Unset /\ now <= t.exp + Leeway
             /\ t.nbf # Unset => t.nbf <= now + Leeway
             /\ \E d \in Docs : /\ CurrentSince(d, now - RefreshInterval - FetchTime)
                                /\ \E k \in DocKeys[d] : KeyOf[d][k] = t.signer
<1> DEFINE t == credential'[r].bearer
<1> USE DEF AuthInv, AuthTypeOK
<1>1. verdict[r] = "none" /\ verdict'[r] = "admitted"
  BY DEF Judges
<1>2. CASE \E q \in Requests : JudgeAtOnce(q)
  <2>1. PICK q \in Requests : JudgeAtOnce(q)
    BY <1>2
  <2>2. q = r
    BY <1>1, <2>1 DEF JudgeAtOnce
  <2>3. verdict'[r] = "admitted" => Open \/ HasApiKey(credential'[r])
    BY <2>1, <2>2 DEF JudgeAtOnce
  <2> QED
    BY <1>1, <2>3
<1>3. CASE \E q \in Requests : Present(q) \/ Refresh(q)
  <2>1. PICK q \in Requests : Present(q) \/ Refresh(q)
    BY <1>3
  <2>2. q = r
    BY <1>1, <2>1 DEF Present, Refresh, Judge
  <2>3. CurrentKey(t.kid) = {t.signer} /\ ValidClaims(r, t)
    BY <1>1, <2>1, <2>2 DEF Present, Refresh, Judge
  <2>4. NeedsKey(credential'[r])
    <3>1. CASE Present(r)
      BY <3>1 DEF Present
    <3>2. CASE Refresh(r)
      BY <3>2 DEF Refresh, Serve, FetchFails, Store, Recheck, PendingNeedsKey
    <3> QED
      BY <2>1, <2>2, <3>1, <3>2
  <2>5. t \in Tokens /\ t.parses /\ t.kid \in Keys \cup {Unnamed}
        /\ t.exp \in Int \cup {Unset} /\ t.nbf \in Int \cup {Unset}
    BY <2>4 DEF NeedsKey
  <2>6. cached \in Docs /\ \E k \in DocKeys[cached] : KeyOf[cached][k] = t.signer
    <3>1. Usable
      BY <2>3 DEF CurrentKey
    <3>2. t.kid = Unnamed => t.signer = KeyOf[cached][First[cached]]
      <4> SUFFICES ASSUME t.kid = Unnamed PROVE t.signer = KeyOf[cached][First[cached]]
        OBVIOUS
      <4>1. CurrentKey(t.kid) = {KeyOf[cached][First[cached]]}
        BY <2>5, <3>1, CurrentKeyIs
      <4> QED BY <2>3, <4>1, Zenon
    <3>3. t.kid # Unnamed => t.kid \in DocKeys[cached] /\ t.signer = KeyOf[cached][t.kid]
      <4> SUFFICES ASSUME t.kid # Unnamed
                   PROVE  t.kid \in DocKeys[cached] /\ t.signer = KeyOf[cached][t.kid]
        OBVIOUS
      <4>1. CurrentKey(t.kid) # {}
        BY <2>3, Zenon
      <4>2. t.kid \in DocKeys[cached]
        BY <2>5, <3>1, <4>1, CurrentKeyIs
      <4>3. CurrentKey(t.kid) = {KeyOf[cached][t.kid]}
        BY <2>5, <3>1, <4>2, CurrentKeyIs
      <4> QED BY <2>3, <4>2, <4>3, Zenon
    <3>4. cached \in Docs /\ First[cached] \in DocKeys[cached]
      BY <3>1, CacheAssumption DEF TypeOK, Usable, Docs, None
    <3> QED
      BY <3>2, <3>3, <3>4, SMT
  <2>7. CurrentSince(cached, now - RefreshInterval - FetchTime)
    BY <2>3, <2>5 DEF KeysFresh
  <2>8. Addressed(t) /\ Timely(t, now)
    BY <2>3 DEF ValidClaims, Judged
  <2>9. now \in Int /\ Leeway \in Int
    BY DEF TypeOK, Times
  <2>10. /\ t.exp # Unset /\ now <= t.exp + Leeway
         /\ t.nbf # Unset => t.nbf <= now + Leeway
    BY <2>5, <2>8, <2>9 DEF Timely
  <2> QED
    BY <2>5, <2>6, <2>7, <2>8, <2>10
<1>4. CASE \E q \in Requests : Done(q)
  BY <1>1, <1>4 DEF Done
<1>5. CASE Environment \/ UNCHANGED authVars
  BY <1>1, <1>5 DEF Environment, authVars
<1> QED
  BY <1>2, <1>3, <1>4, <1>5 DEF AuthNext

(* Without an API key only a token in its time, addressed to the API and vouched
   for by a recent key document gets in, whatever the tokens, the documents and
   the clock. *)
THEOREM AuthAdmissionSound == AuthSpec => AdmissionSound
<1>1. AuthInv /\ KeysFresh /\ [AuthNext]_authVars =>
        [\A r \in Requests :
           LET c == credential'[r]
               t == c.bearer
           IN  Judges(r, "admitted") /\ ~Open /\ ~HasApiKey(c) =>
                 /\ t \in Tokens /\ t.parses /\ Addressed(t)
                 /\ t.exp # Unset /\ now <= t.exp + Leeway
                 /\ t.nbf # Unset => t.nbf <= now + Leeway
                 /\ \E d \in Docs : /\ CurrentSince(d, now - RefreshInterval - FetchTime)
                                    /\ \E k \in DocKeys[d] : KeyOf[d][k] = t.signer]_authVars
  BY AdmissionStep
<1> QED
  BY <1>1, AuthInitInv, AuthStepInv, AuthImplementsCache, CacheTypeCorrect, AuthKeysFresh, PTL
  DEF AuthSpec, AdmissionSound

(* The step of a refusal. *)
LEMMA RefusalStep ==
  ASSUME AuthInv, KeysFresh, CacheInv, CacheInv', [AuthNext]_authVars,
         NEW r \in Requests, Judges(r, "refused")
  PROVE  LET c == credential'[r]
             t == c.bearer
         IN  /\ ~HasApiKey(c)
             /\ \/ ~JwtEnabled \/ t \notin Tokens \/ ~t.parses
                \/ ~Addressed(t) \/ t.exp = Unset
                \/ \A skew \in (-Leeway)..Leeway :
                     \/ now + skew > t.exp
                     \/ (t.nbf # Unset /\ now + skew < t.nbf)
                     \/ (t.iat # Unset /\ now + skew < t.iat)
                \/ pc'[r] = "failed"
                \/ pc'[r] = "notfound" /\ NotServedSince(t, started[r] - FetchTime)
                \/ pc'[r] = "found" /\ NotServedSince(t, now - RefreshInterval - FetchTime)
<1> DEFINE c == credential'[r]
           t == c.bearer
           Late == \A skew \in (-Leeway)..Leeway :
                     \/ now + skew > t.exp
                     \/ (t.nbf # Unset /\ now + skew < t.nbf)
                     \/ (t.iat # Unset /\ now + skew < t.iat)
<1> USE DEF AuthInv, AuthTypeOK
<1>1. verdict[r] = "none" /\ verdict'[r] = "refused"
  BY DEF Judges
<1>2. CASE \E q \in Requests : JudgeAtOnce(q)
  <2>1. PICK q \in Requests : JudgeAtOnce(q)
    BY <1>2
  <2>2. q = r
    BY <1>1, <2>1 DEF JudgeAtOnce
  <2>3. ~Open /\ ~HasApiKey(c) /\ ~NeedsKey(c)
    BY <1>1, <2>1, <2>2 DEF JudgeAtOnce
  <2> QED
    BY <2>3 DEF NeedsKey
<1>3. CASE \E q \in Requests : Present(q) \/ Refresh(q)
  <2>1. PICK q \in Requests : Present(q) \/ Refresh(q)
    BY <1>3
  <2>2. q = r
    BY <1>1, <2>1 DEF Present, Refresh, Judge
  <2>3. /\ pc'[r] \in Results
        /\ pc'[r] = "found" => CurrentKey(t.kid) # {t.signer} \/ ~ValidClaims(r, t)
    BY <1>1, <2>1, <2>2 DEF Present, Refresh, Judge
  <2>4. NeedsKey(c)
    <3>1. CASE Present(r)
      BY <3>1 DEF Present
    <3>2. CASE Refresh(r)
      BY <3>2 DEF Refresh, Serve, FetchFails, Store, Recheck, PendingNeedsKey
    <3> QED
      BY <2>1, <2>2, <3>1, <3>2
  <2>5. /\ ~HasApiKey(c)
        /\ t \in Tokens /\ t.parses /\ t.kid \in Keys \cup {Unnamed}
        /\ {t.exp, t.nbf, t.iat} \subseteq Int \cup {Unset}
    BY <2>4 DEF NeedsKey
  <2>6. CASE pc'[r] = "found" /\ ~ValidClaims(r, t)
    <3>1. ~Addressed(t) \/ ~Timely(t, now)
      BY <2>6 DEF ValidClaims, Judged
    <3>2. now \in Int /\ Leeway \in Int
      BY DEF TypeOK
    <3>3. t.exp # Unset /\ ~Timely(t, now) => Late
      BY <2>5, <3>2 DEF Timely
    <3> QED
      BY <2>5, <3>1, <3>3
  <2>7. CASE pc'[r] = "found" /\ CurrentKey(t.kid) # {t.signer}
    <3>1. CurrentKey(t.kid) # {}
      <4>1. CASE Present(r)
        <5>1. Verify(r) /\ kid'[r] = t.kid
          BY <4>1 DEF Present
        <5> QED BY <2>7, <5>1 DEF Verify, TypeOK
      <4>2. CASE Refresh(r)
        <5>1. Recheck(r) /\ c = credential[r]
          BY <2>7, <4>2 DEF Refresh, Serve, FetchFails, Store, Recheck, TypeOK
        <5>2. kid[r] = t.kid
          BY <5>1 DEF Recheck, PendingNeedsKey
        <5> QED BY <2>7, <5>1, <5>2 DEF Recheck, TypeOK
      <4> QED BY <2>1, <2>2, <4>1, <4>2
    <3>2. Usable /\ cached \in Docs
      BY <3>1 DEF CurrentKey, Usable, TypeOK
    <3>3. CurrentSince(cached, now - RefreshInterval - FetchTime)
      BY <2>5, <3>1 DEF KeysFresh
    <3>4. ~Serves(cached, t)
      BY <2>5, <2>7, <3>2, CurrentKeyIs DEF Serves
    <3>5. NotServedSince(t, now - RefreshInterval - FetchTime)
      BY <3>2, <3>3, <3>4 DEF NotServedSince
    <3> QED
      BY <2>5, <2>7, <3>5
  <2>8. CASE pc'[r] = "notfound"
    <3>1. Recheck(r) /\ c = credential[r]
      <4>1. CASE Present(r)
        BY <2>8, <4>1 DEF Present, Verify, TypeOK
      <4>2. CASE Refresh(r)
        BY <2>8, <4>2 DEF Refresh, Serve, FetchFails, Store, Recheck, TypeOK
      <4> QED BY <2>1, <2>2, <4>1, <4>2
    <3>2. /\ kid[r] = t.kid
          /\ UNCHANGED <<kid, started, doc, retired>>
      BY <3>1 DEF Recheck, PendingNeedsKey, issuerVars
    <3>3. CurrentKey(t.kid) = {}
      BY <2>8, <3>1, <3>2 DEF Recheck, TypeOK
    <3>4. t.kid # Unnamed
      <4>1. Usable
        BY <3>1 DEF CacheInv, RecheckFresh, Recheck, Usable, TypeOK
      <4> QED BY <2>5, <3>3, <4>1, CurrentKeyIs
    <3>5. PICK d \in Docs : kid[r] \notin DocKeys[d] /\ CurrentSince(d, started[r] - FetchTime)
      BY <2>8, <3>2 DEF CacheInv, NotFoundExplained, CurrentSince
    <3>6. ~Serves(d, t)
      BY <3>2, <3>4, <3>5 DEF Serves
    <3>7. NotServedSince(t, started[r] - FetchTime)
      BY <3>5, <3>6 DEF NotServedSince
    <3> QED
      BY <2>5, <2>8, <3>7
  <2> QED
    BY <2>3, <2>5, <2>6, <2>7, <2>8 DEF Results
<1>4. CASE \E q \in Requests : Done(q)
  BY <1>1, <1>4 DEF Done
<1>5. CASE Environment \/ UNCHANGED authVars
  BY <1>1, <1>5 DEF Environment, authVars
<1> QED
  BY <1>2, <1>3, <1>4, <1>5 DEF AuthNext

(* A token that meets the configuration and is in its time for every clock within
   the leeway is refused only after a failed fetch or for a recent document that
   does not lead to its key; a request with an API key is not refused. *)
THEOREM AuthRefusalExplained == AuthSpec => RefusalExplained
<1>1. AuthInv /\ KeysFresh /\ CacheInv /\ CacheInv' /\ [AuthNext]_authVars =>
        [\A r \in Requests :
           LET c == credential'[r]
               t == c.bearer
           IN  Judges(r, "refused") =>
                 /\ ~HasApiKey(c)
                 /\ \/ ~JwtEnabled \/ t \notin Tokens \/ ~t.parses
                    \/ ~Addressed(t) \/ t.exp = Unset
                    \/ \A skew \in (-Leeway)..Leeway :
                         \/ now + skew > t.exp
                         \/ (t.nbf # Unset /\ now + skew < t.nbf)
                         \/ (t.iat # Unset /\ now + skew < t.iat)
                    \/ pc'[r] = "failed"
                    \/ pc'[r] = "notfound" /\ NotServedSince(t, started[r] - FetchTime)
                    \/ pc'[r] = "found" /\ NotServedSince(t, now - RefreshInterval - FetchTime)]_authVars
  BY RefusalStep
<1> QED
  BY <1>1, AuthInitInv, AuthStepInv, AuthImplementsCache, CacheTypeCorrect, CacheInvariant,
     AuthKeysFresh, PTL
  DEF AuthSpec, RefusalExplained

=============================================================================
