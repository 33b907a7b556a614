------------------------------ MODULE KeyCache ------------------------------
(***************************************************************************)
(* The API's cache of signing keys (services/api-go, jwtVerifier): a       *)
(* request looks for the key its token names; if it finds none it fetches  *)
(* the key document, outside the lock, puts it in the cache and looks      *)
(* again.  Any number of requests may be fetching at a time, and the issuer *)
(* replaces its document meanwhile.  Signatures and claims are left out.   *)
(***************************************************************************)
EXTENDS Integers

CONSTANTS
  Requests,         \* the requests being verified
  Keys,             \* the kids of the issuer, and those made up for keys without one
  MaxDoc,           \* bound: key documents the issuer publishes
  DocKeys,          \* the kids of its usable RSA keys, by document
  KeyOf,            \* the key under each of them, by document
  First,            \* the first of them, cached as fallback
  Unnamed,          \* the kid of a token that names no key
  RefreshInterval,  \* HELIOS_JWKS_REFRESH_INTERVAL
  FetchTime,        \* bound: a fetch and the store that follows, the client's timeout
  MaxTime           \* bound: the clock stops there

Docs == 1..MaxDoc
Times == 0..MaxTime
None == 0
Never == -1

ASSUME CacheAssumption ==
  /\ MaxDoc \in Nat \ {0}
  /\ DocKeys \in [Docs -> SUBSET Keys]
  /\ \A d \in Docs : DocKeys[d] # {} => First[d] \in DocKeys[d]
  /\ Unnamed \notin Keys
  /\ RefreshInterval \in Nat
  /\ FetchTime \in Nat
  /\ MaxTime \in Nat

VARIABLES
  now,
  (* the issuer *)
  doc,      \* the document it serves
  retired,  \* when each document was replaced, or Never
  (* the cache *)
  cached,   \* the document keys and fallback are from, or None
  fetched,  \* when it was stored, or Never
  (* requests *)
  pc,       \* where each request is in signingKey, or how it ended
  kid,      \* the key its token names
  started,  \* when its fetch began
  got       \* the document it was served, or None

issuerVars == <<doc, retired>>
cacheVars == <<cached, fetched>>
requestVars == <<pc, kid, started, got>>
vars == <<now, issuerVars, cacheVars, requestVars>>

Results == {"found", "notfound", "failed"}

TypeOK ==
  /\ now \in Times
  /\ doc \in Docs
  /\ retired \in [Docs -> Times \cup {Never}]
  /\ cached \in Docs \cup {None}
  /\ fetched \in Times \cup {Never}
  /\ cached = None <=> fetched = Never
  /\ cached # None => DocKeys[cached] # {}
  /\ pc \in [Requests -> {"idle", "fetch", "recheck"} \cup Results]
  /\ kid \in [Requests -> Keys \cup {Unnamed}]
  /\ started \in [Requests -> Times]
  /\ got \in [Requests -> Docs \cup {None}]

Init ==
  /\ now = 0
  /\ doc = 1
  /\ retired = [d \in Docs |-> Never]
  /\ cached = None
  /\ fetched = Never
  /\ pc = [r \in Requests |-> "idle"]
  /\ kid = [r \in Requests |-> Unnamed]
  /\ started = [r \in Requests |-> 0]
  /\ got = [r \in Requests |-> None]

-----------------------------------------------------------------------------
(* signingKey *)

(* Mutant: keys are kept until a key is missing. *)
UsableForEver == cached # None

(* The cache is filled and not older than the refresh interval. *)
Usable == cached # None /\ now - fetched <= RefreshInterval

(* currentKey, under the read lock: the key under the kid that the token names, or
   under the first kid of the document. *)
CurrentKey(k) ==
  IF ~Usable THEN {}
  ELSE {KeyOf[cached][x] : x \in IF k = Unnamed THEN {First[cached]}
                                ELSE DocKeys[cached] \cap {k}}

(* A token arrives: its key is in the cache, or a refresh begins. *)
Verify(r) ==
  /\ pc[r] \in {"idle"} \cup Results
  /\ \E k \in Keys \cup {Unnamed} :
       /\ kid' = [kid EXCEPT ![r] = k]
       /\ pc' = [pc EXCEPT ![r] = IF CurrentKey(k) # {} THEN "found" ELSE "fetch"]
  /\ started' = [started EXCEPT ![r] = now]
  /\ got' = [got EXCEPT ![r] = None]
  /\ UNCHANGED <<now, issuerVars, cacheVars>>

(* The issuer answers a fetch with its document. *)
Serve(r) ==
  /\ pc[r] = "fetch" /\ got[r] = None
  /\ got' = [got EXCEPT ![r] = doc]
  /\ UNCHANGED <<now, issuerVars, cacheVars, pc, kid, started>>

(* The fetch fails: no connection, a status other than 200, a body that is cut
   off or no document. *)
FetchFails(r) ==
  /\ pc[r] = "fetch"
  /\ pc' = [pc EXCEPT ![r] = "failed"]
  /\ UNCHANGED <<now, issuerVars, cacheVars, kid, started, got>>

(* Mutant: a document without keys is stored. *)
AcceptsAny(d) == d # None

(* The document has a usable key. *)
Accepts(d) == d # None /\ DocKeys[d] # {}

(* Mutant: keys that are there already are kept. *)
StoredOnce(d) == IF cached = None THEN d ELSE cached

(* The fetched keys take the place of the cached ones. *)
Stored(d) == d

(* The rest of refresh: the document is parsed and stored under the lock, with
   the time of the store. *)
Store(r) ==
  /\ pc[r] = "fetch" /\ got[r] # None
  /\ IF Accepts(got[r])
     THEN /\ cached' = Stored(got[r])
          /\ fetched' = now
          /\ pc' = [pc EXCEPT ![r] = "recheck"]
     ELSE /\ pc' = [pc EXCEPT ![r] = "failed"]
          /\ UNCHANGED cacheVars
  /\ UNCHANGED <<now, issuerVars, kid, started, got>>

(* The second look, after other requests may have stored their documents. *)
Recheck(r) ==
  /\ pc[r] = "recheck"
  /\ pc' = [pc EXCEPT ![r] = IF CurrentKey(kid[r]) # {} THEN "found" ELSE "notfound"]
  /\ UNCHANGED <<now, issuerVars, cacheVars, kid, started, got>>

-----------------------------------------------------------------------------
(* The environment *)

(* The issuer replaces its document. *)
Publish ==
  /\ doc < MaxDoc
  /\ doc' = doc + 1
  /\ retired' = [retired EXCEPT ![doc] = now]
  /\ UNCHANGED <<now, cacheVars, requestVars>>

(* A second passes: fetches end in time, and a second look follows at once. *)
Tick ==
  /\ now < MaxTime
  /\ \A r \in Requests : /\ pc[r] # "recheck"
                         /\ pc[r] = "fetch" => now - started[r] < FetchTime
  /\ now' = now + 1
  /\ UNCHANGED <<issuerVars, cacheVars, requestVars>>

Next ==
  \/ \E r \in Requests :
       Verify(r) \/ Serve(r) \/ FetchFails(r) \/ Store(r) \/ Recheck(r)
  \/ Publish
  \/ Tick

Spec == Init /\ [][Next]_vars

-----------------------------------------------------------------------------
(* Properties *)

(* Document d was the issuer's at time t or later. *)
CurrentSince(d, t) == d <= doc /\ (retired[d] # Never => retired[d] >= t)

(* A key that is handed out was in a document that the issuer replaced no longer
   ago than a refresh interval and a fetch: the age is counted from the store,
   so a slow fetch, or one that overwrites a younger document with an older one,
   adds to it. *)
KeysFresh ==
  \A k \in Keys \cup {Unnamed} :
    CurrentKey(k) # {} => CurrentSince(cached, now - RefreshInterval - FetchTime)

(* "signing key not found" is said only of a key that was missing from some
   document no older than a fetch before the request: an older document that
   overwrites the one the request fetched can hide a new key, but not a key the
   issuer has had all along. *)
NotFoundExplained ==
  \A r \in Requests :
    pc[r] = "notfound" =>
      \E d \in Docs : kid[r] \notin DocKeys[d] /\ CurrentSince(d, started[r] - FetchTime)

=============================================================================
