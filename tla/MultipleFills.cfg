SPECIFICATION Spec
CONSTANTS
  MakingAmount = 10
  Parts = 4
  MaxDepth = 3
  SecretHash <- const_SecretHash
  NoHash <- const_NoHash
INVARIANTS
  TypeOK
  OneSecretPerEscrow
  LastSecretForLastFill
  TakenOnce
  SdkIndexIsRight
