SPECIFICATION WrittenSpec
CONSTANTS
  None = None
  Languages <- TriedInOrder
  Keys <- KeysToWrite
  CheckSums <- CheckSumsOfThree
  BlobSize = 2
  MaxHashes = 2
  Objects <- ObjectsToSave
  OddBytes <- BytesToPut
  CurveKeys <- Keys2
  PaymentIdSize = 8
  ToWrite <- AddressesToWrite
  OddCharacters <- CharactersToPut
  Trees <- TreesToStore
  Received <- BytesReceived
  MaxToAlter = 45
  Texts <- TextsToKeep
  MaxLength = 4
  MaxReserve = 4
INVARIANTS
  SeedIsRecovered
  WhatIsWrittenIsRead
  SecretsAreWiped
CHECK_DEADLOCK FALSE
