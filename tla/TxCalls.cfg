SPECIFICATION Spec
CONSTANTS
  alice = alice
  bob = bob
  carol = carol
  Wallet = {alice, bob, carol}
  Minor = {0, 1}
  OtherSecret <- OldSecrets
  Modulus = 32
  Requests <- CallRequests
INVARIANT MoneyConserved ExtraCanonical PaymentIdReadable WellFormedSucceeds
