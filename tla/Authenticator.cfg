\* Two requests, three key documents, fetches of up to two seconds, a leeway of one.
CONSTANTS
  Requests = {r1, r2}
  k1 = k1
  k2 = k2
  key1 = key1
  key2 = key2
  key3 = key3
  stranger = stranger
  apiKey = apiKey
  self = self
  other = other
  Unset = Unset
  Keys = {k1, k2}
  MaxDoc = 3
  DocKeys <- MCDocKeys
  KeyOf <- MCKeyOf
  First <- MCFirst
  Unnamed = Unnamed
  RefreshInterval = 1
  FetchTime = 2
  MaxTime = 5
  ApiKeys = {apiKey}
  JwtEnabled = TRUE
  Tokens <- MCTokens
  Credentials <- MCCredentials
  Leeway = 1
  Issuer = self
  Audiences <- MCAudiences
SPECIFICATION AuthSpec
SYMMETRY Symmetric
VIEW ViewWhileJudged
INVARIANTS
  AuthTypeOK
  KeysFresh
PROPERTIES
  AdmissionSound
  RefusalExplained
