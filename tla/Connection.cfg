\* Two threads, two hosts, two keys: calls of any kind overlap.
CONSTANTS
  Calls = {c1, c2}
  Hosts = {h1, h2}
  Keys = {k1, k2}
  None = None
  MaxCalls = 6
  MaxChanges = 1
  MaxEdits = 2
SPECIFICATION Spec
SYMMETRY Symmetry
INVARIANTS
  TypeOK
  SecretsWaitForTheKey
  ConfirmedKeysAreKept
PROPERTIES
  CredentialsOnlyToConfirmedKeys
