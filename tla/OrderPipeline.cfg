SPECIFICATION Spec
CONSTANTS
  FieldRange = 12
  Half = 4
  TopBits = 0
  SupportedChains = {"sepolia", "arbitrum", "zksync"}
  Testnets = {"sepolia", "arbitrum"}
  LimitOrderProtocol <- MCLimitOrderProtocol
  TrueERC20 <- MCTrueERC20
  ExpirationDelay = 1
  Requests <- MCRequests
  CustomPresets <- MCCustomPresets
  Responses <- MCResponses
  Receivers = {"zero", "other"}
  FillAmounts = {1, 4}
  SrcResolver = "resolver"
  DstResolver = "dstResolver"
  SrcImpl = "srcImpl"
  DstImpl = "dstImpl"
  DstFactory = "dstFactory"
  Start = 6
  Horizon = 15
INVARIANTS
  TypeOK
  ReadsWhatWasSigned
  DepositsAsQuoted
  EscrowsCanBeOpened
  EscrowsAgree
  StagesAgree
  ExclusiveFirst
CHECK_DEADLOCK FALSE
