\* One sign-in, with a failure of Rivian's, one of the database's, and a restart.
SPECIFICATION FairSpec
CONSTANTS
  MaxSignIns = 1
  Cap = 1
  MaxFailures = 1
  MaxBlips = 1
  MaxEnds = 1
INVARIANTS
  TypeOK
  StatusTells
PROPERTIES
  CredentialActedOn
  SignOutHeard
  BackoffEnds
