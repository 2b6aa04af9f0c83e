SPECIFICATION Spec
CONSTANTS
  q = 61
  Montgomery = 10
  l = 7
  FieldBits = 6
  Nibbles = 4
  Scalars <- EdgeScalars
  FewScalars <- TwoScalars
  FewKeys <- SomeKeys
  Moduli <- Primes
INVARIANT OnCurve CanonicalBytes DigitsExact ChainsExact
PROPERTY ComputesInGroup
