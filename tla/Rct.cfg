SPECIFICATION Spec
CONSTANTS
  None = None
  l = 32749
  ATOMS = 4
  logN = 2
  maxM = 4
  StrausLimit = 16
  UncachedLimit = 8
  Requests <- MCRequests
  Proofs <- MCProofs
  Sums <- MCSums
  MaxBatch = 2
  Generated <- MCGenerated
  Rings <- MCRings
  Orders <- MCOrders
INVARIANT SavedIsLoaded CommitmentsBalance SignedVerifies AlteredRefused DecodedIsSent BatchIsEach SumsAgree
INVARIANT RecoveredIsSame PermutedInPlace
