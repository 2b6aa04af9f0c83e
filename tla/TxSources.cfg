SPECIFICATION Spec
CONSTANTS
  alice = alice
  bob = bob
  carol = carol
  Wallet = {alice, bob, carol}
  Minor = {0, 1}
  OtherSecret <- OldSecrets
  Modulus = 10
  Requests <- SourceRequests
INVARIANT TypeOK InputsAligned SignaturesVerify
