SPECIFICATION Spec
CONSTANTS
  h1 = h1
  h2 = h2
  root = root
  alice = alice
  None = None
  Handlers = {h1, h2}
  Users = {root, alice}
  Admins = {root}
  DeviceIDs = {1}
  SessionTTL = 1
  MaxTime = 1
  MaxSecrets = 3
  MaxOpens = 2
  MaxFaults = 1
SYMMETRY MCSymmetry
INVARIANTS
  CredentialsFresh
  KeyShown
  ReplacedStaysReplaced
