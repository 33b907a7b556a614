--------------------------- MODULE MCAuthenticator ---------------------------
(* Instances of Authenticator for TLC. *)
EXTENDS Authenticator, TLC

CONSTANTS k1, k2, key1, key2, key3, stranger, apiKey, self, other

(* A key is replaced by another under the same kid, with a document of no usable
   keys between; a second key comes with it. *)
MCDocKeys == <<{k1}, {}, {k1, k2}>>
MCKeyOf == <<k1 :> key1, <<>>, (k1 :> key3) @@ (k2 :> key2)>>
MCFirst == <<k1, k1, k2>>

Token(kid_, signer, exp, nbf) ==
  [parses |-> TRUE, kid |-> kid_, signer |-> signer, exp |-> exp, nbf |-> nbf,
   iat |-> nbf, iss |-> self, aud |-> {self, other}]

Good == Token(k1, key1, 2, Unset)
Later == Token(k2, key2, 4, 2)
Renewed == Token(k1, key3, 5, 1)
Nameless == Token(Unnamed, key1, 3, 1)
Forged == Token(k1, stranger, 4, 0)

MCTokens ==
  {Good, Later, Renewed, Nameless, Forged, [Good EXCEPT !.parses = FALSE],
   [Good EXCEPT !.iss = other], [Good EXCEPT !.aud = {other}], [Good EXCEPT !.exp = Unset]}

(* Every token alone; an API key, on its own or with a bad token; an API key where
   a token should be; nothing. *)
MCCredentials ==
  {[key |-> Unset, bearer |-> t] : t \in MCTokens}
    \cup {[key |-> apiKey, bearer |-> Unset], [key |-> apiKey, bearer |-> Forged],
          [key |-> Unset, bearer |-> apiKey], [key |-> stranger, bearer |-> Unset]}

MCAudiences == {self}

(* What a request that is not being judged carried, and how it ended, no step
   depends on. *)
ViewOf(r) ==
  IF credential[r] = NoCredential THEN <<"idle">>
  ELSE IF verdict[r] # "none" THEN <<"done">>
  ELSE <<"pending", credential[r], pc[r], kid[r], started[r], got[r]>>

ViewWhileJudged == <<now, issuerVars, cacheVars, [r \in Requests |-> ViewOf(r)]>>

Symmetric == Permutations(Requests)

=============================================================================
