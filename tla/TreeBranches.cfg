SPECIFICATION Spec
CONSTANTS
  MaxCount = 17
  Label <- Labels
  Inputs <- Arrays
INVARIANT TypeOK ReadsInBounds BranchProves RootIsMerkle
PROPERTY BranchReturned
