SPECIFICATION Spec
CONSTANTS
  alice = alice
  bob = bob
  carol = carol
  Wallet = {alice, bob, carol}
  Minor = {0, 1}
  OtherSecret <- OldSecrets
  Modulus = 1000
  Requests <- BadAddressRequests
INVARIANT OutputKeysDerived
