SPECIFICATION ChannelSpec
CONSTANTS
  Host = {h1, h2}
  Key = {k1, k2}
  Token = {t1, t2}
  Nonce = {n1, n2}
  Nobody = Nobody
  TokenLife = 1
  CredentialLife = 2
  Overlap = 1
  MessageLife = 1
  Skew = 1
  Lag = 1
  MaxTime = 3
  MaxSequence = 2
  MaxReports = 2
SYMMETRY Names
CHECK_DEADLOCK FALSE
INVARIANTS
  DeliveredOnceInOrder
  RefusalsBurnNothing
  CredentialsAreSound
PROPERTIES
  RevocationIsFinal
